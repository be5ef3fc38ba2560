---------------------------- MODULE InvirtioTest ----------------------------
(***************************************************************************)
(* invirtio-test (tools/cmd/invirtio-test) and the harness that it uses:    *)
(* the commands that run guests.  A test or a benchmark is the script of    *)
(* the operations that its function makes on the host, the guest and the    *)
(* VDUSE device.  The goroutine of `main` works through it, and a step that *)
(* fails returns from the function, whose deferred calls then run, the last *)
(* one first.  Next to it run the goroutine that waits for signals, a       *)
(* command in the background, the guests, and in `run` the watcher of the   *)
(* guest's console.  test-net runs with -x710.                              *)
(***************************************************************************)
EXTENDS Naturals, Sequences, FiniteSets

CONSTANT Commands   \* the commands that this instance runs

Suites == {"test-net", "test-blk", "test-wlan"}
Benches == {"bench-net", "bench-blk", "bench-wlan"}

ASSUME CommandsAssumption == Commands \subseteq Suites \cup Benches \cup {"run"}

Guests == 1..2      \* no test starts a third guest
MaxSignals == 2     \* the handler takes no third one

VARIABLES
    cmd,        \* the command
    phase,      \* "setup", "loop" over the tests or targets, "end", "exited"
    todo,       \* what is left of the function that runs
    stack,      \* the deferred calls, and the callers that wait
    signals,    \* how many signals came
    ended,      \* has ctx ended?  In `run`, is stop closed?
    side,       \* the goroutine of the signals, or the watcher of `run`
    guest,      \* each guest's process
    said,       \* what its console says of the device
    listed,     \* s.guests
    dev,        \* the VDUSE device
    held,       \* what the program changed on the host
    tracked,    \* s.procs
    background, \* does a command run in the background?
    fault,      \* was a guest "late", or has one "died" or hung, on its own?
    slow,       \* did a removal wait for a guest that was gone?
    wrong       \* did a check of what became of the device fail?

program == <<cmd, phase, todo, stack>>
signal  == <<signals, ended, side>>
world   == <<guest, said, listed, dev>>
host    == <<held, tracked, background>>
history == <<fault, slow, wrong>>
vars    == <<program, signal, world, host, history>>

NoDevice == [at |-> "none", broken |-> FALSE, low |-> FALSE]

Blk == cmd \in {"test-blk", "bench-blk"}
Alive(n) == guest[n] \in {"booting", "running"}

(* VDUSE: a guest that has the device open answers the host.                *)
Serves(n) == guest[n] = "running" /\ said[n] # "stopped"
Served == \E n \in Guests : Serves(n)

(* virtio_blk: a request to a device that no guest serves waits for the next *)
(* guest, and the process that made it cannot be killed.                    *)
Stuck == Blk /\ dev.at = "bus" /\ ~dev.broken /\ ~Served

-----------------------------------------------------------------------------
(* The operations of the functions: a verb and its argument.                *)
Op(verb)      == << <<verb, "-">> >>
Hold(r)       == << <<"hold", r>> >>
Track(r)      == << <<"track", r>> >>
Drop(r)       == << <<"drop", r>> >>
Logs(text)    == << <<"logs", text>> >>
Defer(script) == << <<"defer", script>> >>
Call(script)  == << <<"call", script>> >>

(* harness *)
Cleanup      == Op("gone") \o Op("destroy")
Modprobe     == Op("try")
PCIHolders   == Op("try")      \* refuses a device that is in use
WaitNetdev   == Op("try")
PlaceIRQs    == Op("try")
MakeLogDir   == Hold("logdir")
RemoveCgroup == Drop("cgroup")
MakeCgroup   == RemoveCgroup \o Hold("cgroup")
LaunchGuest  == Op("launch")   \* StartGuest, with the launcher before the guest

(* Mutant: the namespace goes before the servers in it. *)
farStopNetnsFirst == Drop("port1") \o Drop("netns") \o Drop("servers") \o Drop("flag")

farStop == Drop("servers") \o Drop("port1") \o Drop("netns") \o Drop("flag")
netStartPeer == Hold("flag") \o Defer(farStop) \o Hold("netns") \o Hold("port1")
                             \o Hold("servers")

(* netSuite *)
netConfigure == Op("try")
netCarrier   == Op("try")
netTraffic   == Op("traffic")
netStart  == Op("check") \o LaunchGuest \o Op("list") \o Op("ready")
netAttach == Op("attach") \o netConfigure
netUp     == netStart \o netAttach \o netCarrier
netTestDevice   == netUp
netTestTraffic  == netUp \o netTraffic \o netConfigure \o netTraffic \o Op("try")
                         \o netConfigure \o netTraffic
netTestLink     == netUp \o netTraffic
netTestReattach == netUp \o Op("remove") \o netAttach \o netTraffic
                         \o Op("remove") \o netAttach \o netTraffic
netTestKill     == netUp \o Op("background") \o Defer(Op("join")) \o Op("try")
                         \o Op("kill") \o netStart \o Logs("reconnecting")
                         \o Op("join") \o netTraffic
netTestStop     == netUp \o netTraffic \o Op("remove") \o Op("term") \o Op("absent")
netTests == {netTestDevice, netTestTraffic, netTestLink, netTestReattach, netTestKill,
             netTestStop}
netSetup == Modprobe \o PCIHolders \o netStartPeer \o Op("set")
netTeardown == farStop \o Drop("port0")

(* Mutant: the guests are left to the next test. *)
netRunTestNoStop(test) ==
    Cleanup \o MakeLogDir \o Op("reset") \o Call(test) \o Op("leave") \o Cleanup
            \o Drop("logdir")

netRunTest(test) ==
    Cleanup \o MakeLogDir \o Op("reset") \o Call(test) \o Op("leave") \o Op("stop")
            \o Cleanup \o Drop("logdir")

(* blkSuite *)
blkTraffic == Op("traffic")                  \* fio and the other tools
blkData    == blkTraffic \o Op("try")        \* writeData
blkBoot   == Op("check") \o Op("launch") \o Op("list") \o Op("ready")
blkAttach == Op("attach") \o Op("try")
blkUp     == blkBoot \o blkAttach
blkTestIO         == blkUp \o blkTraffic
blkTestFS         == blkUp \o Defer(Drop("mnt")) \o blkData
                           \o Hold("mnt") \o blkTraffic \o Drop("mnt")
                           \o Hold("mnt") \o blkTraffic \o Drop("mnt")
blkTestRebind     == blkUp \o blkData \o Op("unbind") \o Op("try")
                           \o blkData \o Op("remove") \o blkAttach
                           \o blkTraffic
blkTestMultiqueue == blkUp \o Op("try") \o blkTraffic
blkTestZeroCopy   == blkUp \o blkTraffic
blkTestStop       == blkUp \o Op("remove") \o Op("term") \o Op("absent")
delayDisk         == Modprobe \o Hold("delay")

(* Mutant: fio waits for a guest that did not come up. *)
blkTestKillWaits ==
    delayDisk \o blkUp \o Op("background") \o Op("kill") \o Defer(Op("join")) \o blkBoot
              \o Op("undefer") \o Logs("reconnecting") \o Op("join")

blkTestKill ==
    delayDisk \o blkUp \o Op("background") \o Op("kill")
              \o Defer(Op("gone") \o Op("join")) \o blkBoot
              \o Op("undefer") \o Logs("reconnecting") \o Op("join")

(* Mutant: the device is taken from the bus before the next guest. *)
blkTestTermDetached ==
    blkUp \o blkData \o Op("remove") \o Op("term") \o blkBoot
          \o Logs("reconnecting") \o blkTraffic

blkTestTerm ==
    blkUp \o blkData \o Op("term") \o blkBoot
          \o Logs("reconnecting") \o blkTraffic

blkTestUnused  == Op("try") \o blkBoot \o Op("kill") \o blkBoot \o Logs("created")
                            \o blkAttach \o blkTraffic
blkTestTimeout == blkUp \o Op("lower") \o Op("kill") \o Op("unbind") \o blkBoot
                        \o Logs("stopped") \o Op("kill") \o Op("remove")
blkTestSandbox == Hold("sandboxlog") \o Defer(Drop("sandboxlog")) \o blkUp
                        \o blkTraffic \o Op("remove") \o Op("term") \o Op("absent")
blkTests == {blkTestIO, blkTestFS, blkTestRebind, blkTestMultiqueue, blkTestZeroCopy,
             blkTestStop, blkTestKill, blkTestTerm, blkTestUnused, blkTestTimeout,
             blkTestSandbox}
blkSetup == Modprobe \o Op("try") \o Op("set")

blkRunTest(test) ==
    Cleanup \o Drop("mnt") \o Op("reset") \o Call(test)
            \o Op("leave") \o Op("stop") \o Cleanup \o Drop("delay")

(* wlanSuite *)
wlanTraffic == Op("traffic")
wlanStart  == Op("check") \o LaunchGuest \o Op("list") \o Op("ready")
wlanAttach == Op("attach") \o Op("try")
wlanUp     == wlanStart \o wlanAttach \o Op("try")
scan       == Op("traffic")
startEvents == Hold("events")
wlanEvents == startEvents \o Track("events")
wait       == Op("traffic")                  \* for an event, up to its time
connect    == wait
EndEvents  == Defer(Drop("events"))
wpa        == Op("try") \o Hold("wpa") \o Track("wpa") \o Defer(Drop("wpa"))
                        \o Op("try") \o wlanTraffic
wlanTestWiphy   == wlanStart \o wlanAttach \o wlanTraffic
wlanTestConnect == wlanUp \o scan \o wlanEvents \o EndEvents \o connect \o wlanTraffic \o wait
wlanTestWPA     == wlanUp \o wlanEvents \o EndEvents \o Op("check") \o Call(wpa)
                          \o Op("check") \o Call(wpa)
wlanTestReset   == wlanUp \o Call(wpa)
wlanTestRemove  == wlanUp \o wlanEvents \o connect \o Drop("events") \o Op("try") \o Op("remove")
                          \o wlanAttach \o wlanEvents \o EndEvents \o connect \o wlanTraffic
wlanTestKill    == wlanUp \o wlanEvents \o EndEvents \o connect \o Op("try") \o Op("background")
                          \o Defer(Op("join")) \o Op("try") \o Op("undefer")
                          \o Op("kill") \o wait \o Op("join") \o Op("gone")
wlanTestGone    == wlanUp \o wlanEvents \o EndEvents \o connect \o Op("try") \o wait \o Op("remove")
wlanTests == {wlanTestWiphy, wlanTestConnect, wlanTestWPA, wlanTestReset, wlanTestRemove,
              wlanTestKill, wlanTestGone}
wlanTeardown == Drop("country")
wlanSetup == Modprobe \o Hold("country") \o Defer(wlanTeardown) \o Op("try") \o Op("set")

wlanRunTest(test) ==
    Cleanup \o MakeLogDir \o Op("reset") \o Call(test)
            \o Op("gone") \o Op("stop") \o Cleanup \o Drop("logdir")

(* The benchmarks.  An error ends the command, after the deferred calls.    *)
StopGuest == Op("stop") \o Cleanup
blkBenchAttach == Op("attach") \o Op("try") \o PlaceIRQs
blkBenchJobs   == Op("traffic") \o Op("try")
netBenchPing   == Op("background") \o Op("traffic") \o Op("join")   \* under load
netBenchRun    == Op("traffic") \o Op("try")
netBenchJobs   == Op("check") \o netBenchRun \o Op("check") \o netBenchPing
                              \o Op("try")
blkNative == Drop("null_blk") \o Hold("null_blk") \o Defer(Drop("null_blk")) \o Op("try")
                              \o blkBenchJobs \o Op("next")
blkQSD    == Op("reset") \o Op("launch") \o Op("list")
                         \o Defer(Op("remove") \o Op("await") \o Cleanup)
                         \o Op("ready") \o blkBenchAttach
                         \o blkBenchJobs \o Op("next")
blkGuest  == Op("reset") \o MakeLogDir \o Defer(Drop("logdir")) \o Op("launch")
                         \o Op("list") \o Defer(Op("remove") \o StopGuest)
                         \o Op("ready") \o blkBenchAttach
                         \o blkBenchJobs \o Op("next")
netNative == Drop("port0") \o WaitNetdev \o Drop("nativens") \o Defer(Drop("nativens"))
                           \o Hold("nativens") \o Op("try") \o netBenchJobs
                           \o Op("next")
netGuest  == Op("reset") \o MakeLogDir \o Defer(Drop("logdir"))
                         \o MakeCgroup \o Defer(RemoveCgroup)
                         \o LaunchGuest \o Op("list") \o Defer(Op("leave") \o StopGuest)
                         \o Op("ready") \o Op("attach") \o Op("try")
                         \o netBenchJobs \o Op("next")

measure ==
    Drop("benchns") \o Defer(Drop("benchns")) \o Hold("benchns") \o Op("try")
        \o Hold("server") \o Defer(Drop("server")) \o Op("try")
        \o Hold("supplicant") \o Defer(Drop("supplicant")) \o Op("try")
        \o Op("traffic") \o Op("try") \o Op("check")
        \o Op("background") \o Op("traffic") \o Op("join") \o Op("try")
wlanNative == Drop("card") \o Op("try") \o measure \o Op("next")
wlanGuest  == Op("reset") \o MakeLogDir \o Defer(Drop("logdir"))
                          \o MakeCgroup \o Defer(RemoveCgroup)
                          \o LaunchGuest \o Op("list") \o Defer(Op("leave") \o StopGuest)
                          \o Op("ready") \o Op("attach") \o Op("try")
                          \o measure \o Op("try") \o Op("next")

blkTargets  == {blkNative, blkQSD, blkGuest}
netTargets  == {netNative, netGuest}
wlanTargets == {wlanNative, wlanGuest}
netBenchSetup  == Modprobe \o PCIHolders \o netStartPeer \o Op("set")
blkBenchSetup  == Modprobe \o Op("set")
wlanBenchSetup == Modprobe \o PCIHolders \o Op("set")
netBenchCleanup  == Cleanup \o Drop("nativens") \o farStop \o Drop("port0")
blkBenchCleanup  == Cleanup \o Cleanup \o Drop("null_blk")
wlanBenchCleanup == Cleanup \o Drop("card")

(* cmdRun *)
runStart == Modprobe \o Cleanup \o Op("try") \o Op("launch") \o Op("set")

(* Mutant: the watcher is waited for before it is told to stop. *)
runServeWaitsFirst == Op("serve") \o Op("watched") \o Op("close") \o Cleanup

runServe == Op("serve") \o Op("close") \o Op("watched") \o Cleanup

Setup(c) ==
    CASE c = "test-net"   -> netSetup
      [] c = "test-blk"   -> blkSetup
      [] c = "test-wlan"  -> wlanSetup
      [] c = "bench-net"  -> netBenchSetup
      [] c = "bench-blk"  -> blkBenchSetup
      [] c = "bench-wlan" -> wlanBenchSetup
      [] c = "run"        -> runStart

Items(c) ==
    CASE c = "test-net"   -> {netRunTest(t) : t \in netTests}
      [] c = "test-blk"   -> {blkRunTest(t) : t \in blkTests}
      [] c = "test-wlan"  -> {wlanRunTest(t) : t \in wlanTests}
      [] c = "bench-net"  -> netTargets
      [] c = "bench-blk"  -> blkTargets
      [] c = "bench-wlan" -> wlanTargets
      [] c = "run"        -> {}

Teardown(c) ==
    CASE c = "test-net"   -> netTeardown
      [] c = "test-blk"   -> <<>>
      [] c = "test-wlan"  -> wlanTeardown
      [] c = "bench-net"  -> netBenchCleanup
      [] c = "bench-blk"  -> blkBenchCleanup
      [] c = "bench-wlan" -> wlanBenchCleanup
      [] c = "run"        -> runServe

(* A guest runs with what it was given: its log's directory, its cgroup, and *)
(* the PCI device, which the launcher binds to vfio-pci (-b).               *)
Bound == CASE cmd \in {"test-net", "bench-net"} -> {"port0"}
           [] cmd = "bench-wlan" -> {"card"}
           [] OTHER -> {}
PCIDevices == {"port0", "card"}
Far == {"servers", "port1", "netns", "flag"}

-----------------------------------------------------------------------------
Init ==
    /\ cmd \in Commands
    /\ phase = "setup" /\ todo = Setup(cmd) /\ stack = <<>>
    /\ signals = 0 /\ ended = FALSE /\ side = "first"
    /\ guest = [n \in Guests |-> "none"] /\ said = [n \in Guests |-> "-"]
    /\ listed = {} /\ dev = NoDevice
    /\ held = {} /\ tracked = {} /\ background = FALSE
    /\ fault = "none" /\ slow = FALSE /\ wrong = FALSE

(* The steps of the goroutine that runs main. *)
At(verb) == phase # "exited" /\ todo # <<>> /\ todo[1][1] = verb
Arg == todo[1][2]
Goes == todo' = Tail(todo) /\ UNCHANGED <<cmd, phase, stack>>
Returns == todo' = <<>> /\ UNCHANGED <<cmd, phase, stack>>
Last == Cardinality(listed)

(* A function has returned: its deferred calls run, or its caller goes on.  *)
Pop ==
    /\ phase # "exited" /\ todo = <<>> /\ stack # <<>>
    /\ todo' = Head(stack) /\ stack' = Tail(stack)
    /\ UNCHANGED <<cmd, phase, signal, world, host, history>>

Done == todo = <<>> /\ stack = <<>>

Pick ==
    /\ phase = "loop" /\ Done /\ ~ended
    /\ todo' \in Items(cmd)
    /\ phase' = (IF cmd \in Benches THEN "end" ELSE "loop")
    /\ UNCHANGED <<cmd, stack, signal, world, host, history>>

(* The loop is over, or a target failed. *)
End ==
    /\ phase \in {"loop", "end"} /\ Done
    /\ todo' = Teardown(cmd) /\ phase' = "ending"
    /\ UNCHANGED <<cmd, stack, signal, world, host, history>>

Return ==
    /\ phase \in {"setup", "ending"} /\ Done
    /\ phase' = "exited"
    /\ UNCHANGED <<cmd, todo, stack, signal, world, host, history>>

(* The verbs that only steer. *)
Steer ==
    /\ \/ At("try") /\ (Goes \/ Returns)
       \/ At("check") /\ IF ended THEN Returns ELSE Goes
       \/ At("traffic") /\ ~Stuck /\ Goes
       \/ At("defer") /\ todo' = Tail(todo) /\ stack' = <<Arg>> \o stack
          /\ UNCHANGED <<cmd, phase>>
       \/ At("undefer") /\ todo' = Tail(todo) /\ stack' = Tail(stack)
          /\ UNCHANGED <<cmd, phase>>
       \/ At("call") /\ todo' = Arg /\ stack' = <<Tail(todo)>> \o stack
          /\ UNCHANGED <<cmd, phase>>
       \/ At("next") /\ todo' = Tail(todo) /\ phase' = "loop" /\ UNCHANGED <<cmd, stack>>
       \/ At("set") /\ todo' = Tail(todo) /\ stack' = <<>> /\ phase' = "loop"
          /\ UNCHANGED cmd
       \/ At("join") /\ ~background /\ Goes
       \/ At("serve") /\ ~Alive(1) /\ Goes
       \/ At("watched") /\ side = "done" /\ Goes
    /\ UNCHANGED <<signal, world, host, history>>

(* What the test's console shows, and whether the device is gone.           *)
Look ==
    /\ \/ At("logs") /\ wrong' = (wrong \/ said[Last] # Arg)
       \/ At("absent") /\ wrong' = (wrong \/ dev.at # "none")
    /\ Goes /\ UNCHANGED <<signal, world, host, fault, slow>>

Borrow ==
    /\ \/ At("hold") /\ held' = held \cup {Arg} /\ Goes /\ UNCHANGED tracked
       \/ At("hold") /\ Returns /\ UNCHANGED <<held, tracked>>
       \/ At("track") /\ Goes /\ tracked' = tracked \cup {Arg} /\ UNCHANGED held
       \/ At("drop") /\ (Arg = "mnt" => ~Stuck)
          /\ (Arg \in PCIDevices => \A n \in Guests : ~Alive(n))
          /\ held' = held \ {Arg} /\ Goes /\ UNCHANGED tracked
    /\ UNCHANGED <<background, signal, world, history>>

Background ==
    /\ At("background") /\ background' = TRUE
    /\ Goes /\ UNCHANGED <<held, tracked, signal, world, history>>

(* Mutant: the guests of the test before are kept. *)
ResetKeepsGuests ==
    /\ At("reset") /\ listed' = listed /\ tracked' = {}
    /\ guest' = [n \in Guests |-> "none"] /\ said' = [n \in Guests |-> "-"]
    /\ Goes /\ UNCHANGED <<dev, held, background, signal, history>>

(* s.guests is cleared once the guests of the test before it have exited.   *)
Reset ==
    /\ At("reset") /\ listed' = {} /\ tracked' = {}
    /\ guest' = [n \in Guests |-> "none"] /\ said' = [n \in Guests |-> "-"]
    /\ Goes /\ UNCHANGED <<dev, held, background, signal, history>>

(* StartGuest, and the launcher that it starts. *)
StartGuest ==
    /\ At("launch")
    /\ \/ /\ guest' = [guest EXCEPT ![Last + 1] = "booting"]
          /\ held' = held \cup Bound /\ Goes
          /\ side' = IF cmd = "run" THEN "watch" ELSE side
       \/ Returns /\ UNCHANGED <<guest, held, side>>
    /\ fault' = (IF fault = "died" THEN "died" ELSE IF todo' = <<>> THEN "late" ELSE fault)
    /\ UNCHANGED <<signals, ended, said, listed, dev, tracked, background, slow, wrong>>

List ==
    /\ At("list") /\ listed' = listed \cup {Last + 1} /\ Goes
    /\ UNCHANGED <<guest, said, dev, signal, host, history>>

Ready ==
    /\ At("ready")
    /\ \/ guest[Last] = "running" /\ Goes /\ UNCHANGED fault
       \/ Returns /\ fault' = IF fault = "none" THEN "late" ELSE fault
    /\ UNCHANGED <<slow, wrong, signal, world, host>>

(* vdpa dev add: virtio asks the guest, and the host's driver registers.    *)
Attach ==
    /\ At("attach")
    /\ \/ /\ dev.at = "created" /\ Served /\ ~dev.broken
          /\ dev' = [dev EXCEPT !.at = "bus"] /\ (Goes \/ Returns)
       \/ /\ dev.at = "created" /\ ~Served
          /\ dev' = [dev EXCEPT !.at = "bus", !.broken = TRUE] /\ Returns
       \/ UNCHANGED dev /\ Returns
    /\ UNCHANGED <<guest, said, listed, signal, host, history>>

(* vdpa.Remove: the host resets the device, which waits for the guest's     *)
(* answer, for a second only if the guest is known to be gone.              *)
Waits(gone) == ~(gone \/ dev.low) /\ ~Served /\ ~dev.broken

TakeOff(gone) ==
    IF dev.at # "bus" THEN UNCHANGED <<dev, slow>>
    ELSE /\ dev' = [at |-> "created", broken |-> dev.broken \/ ~Served, low |-> dev.low \/ gone]
         /\ slow' = (slow \/ Waits(gone))

(* Mutant: runTest does not know that start refuses after a signal. *)
GuestGoneUnlessEnded == At("gone")

(* The flag that Detach is called with. *)
GuestGone ==
    \/ At("gone")
    \/ At("leave") /\ IF cmd \in Suites THEN ended ELSE ~Alive(Last)

Remove ==
    /\ At("remove") \/ At("gone") \/ At("leave")
    /\ TakeOff(GuestGone)
    /\ Goes /\ UNCHANGED <<guest, said, listed, signal, host, fault, wrong>>

(* VDUSE refuses while a guest has the device open.                         *)
Open == \E n \in Guests : guest[n] = "running"
Destroyed == IF dev.at = "created" /\ ~Open THEN NoDevice ELSE dev

Destroy ==
    /\ At("destroy") /\ dev' = Destroyed
    /\ Goes /\ UNCHANGED <<guest, said, listed, signal, host, history>>

Knobs ==
    /\ \/ At("lower") /\ dev' = [dev EXCEPT !.low = TRUE] /\ UNCHANGED ended
       \/ At("close") /\ ended' = TRUE
          /\ dev' = IF dev.at = "none" THEN dev ELSE [dev EXCEPT !.low = TRUE]
       \/ At("unbind") /\ dev' = [dev EXCEPT !.broken = @ \/ ~Served] /\ UNCHANGED ended
    /\ Goes /\ UNCHANGED <<guest, said, listed, signals, side, host, history>>

(* A guest that stops in order destroys its device, unless the host has it. *)
Obeys(n) ==
    /\ guest' = [guest EXCEPT ![n] = "dead"]
    /\ dev' = IF Serves(n) /\ dev.at = "created" THEN NoDevice ELSE dev
Dies(n) == guest' = [guest EXCEPT ![n] = "dead"] /\ UNCHANGED dev

(* SIGTERM and a wait for the exit; runQSD's wait has no end. *)
Term ==
    /\ At("term") \/ At("await")
    /\ \/ ~Alive(Last) /\ Goes /\ UNCHANGED <<guest, dev, fault>>
       \/ Alive(Last) /\ Obeys(Last) /\ Goes /\ UNCHANGED fault
       \/ /\ Alive(Last) /\ fault' = "died" /\ UNCHANGED <<guest, dev>>
          /\ IF At("term") THEN Goes ELSE fault # "died" /\ UNCHANGED program
    /\ UNCHANGED <<said, listed, signal, host, slow, wrong>>

Kill ==
    /\ At("kill") /\ (IF Alive(Last) THEN Dies(Last) ELSE UNCHANGED <<guest, dev>>)
    /\ Goes /\ UNCHANGED <<said, listed, signal, host, history>>

(* Stop and Kill of each guest in s.guests. *)
Stop ==
    /\ At("stop")
    /\ \/ (\A n \in listed : ~Alive(n)) /\ Goes /\ UNCHANGED <<guest, dev>>
       \/ \E n \in listed : Alive(n) /\ (Obeys(n) \/ Dies(n)) /\ UNCHANGED program
    /\ UNCHANGED <<said, listed, signal, host, history>>

Main == \/ Pop \/ Pick \/ End \/ Return \/ Steer \/ Look \/ Borrow \/ Background \/ Reset
        \/ StartGuest \/ List \/ Ready \/ Attach \/ Remove \/ Destroy \/ Knobs \/ Term \/ Kill \/ Stop

-----------------------------------------------------------------------------
(* A signal cancels what a benchmark does; `run` forwards it to the guest;  *)
(* the goroutine of a suite takes it.                                       *)
Signal ==
    /\ \/ phase \in {"loop", "end"}
       \/ phase = "ending" /\ cmd \notin Suites \cup {"bench-wlan"}
    /\ signals < MaxSignals /\ signals' = signals + 1
    /\ ended' = (ended \/ cmd \in Benches)
    /\ \/ cmd = "run" /\ Alive(1) /\ Obeys(1)
       \/ UNCHANGED <<guest, dev>>
    /\ UNCHANGED <<side, said, listed, program, host, history>>

Handle(from, to) == phase # "exited" /\ cmd \in Suites /\ side = from /\ side' = to

FirstSignal ==
    /\ Handle("first", "second") /\ signals > 0 /\ ended' = TRUE
    /\ UNCHANGED <<signals, program, world, host, history>>

(* The sweep holds s.mu. *)
SecondSignal ==
    /\ Handle("second", "remove") /\ signals > 1
    /\ guest' = [n \in Guests |-> IF n \in listed /\ Alive(n) THEN "dead" ELSE guest[n]]
    /\ held' = held \ tracked /\ tracked' = {}
    /\ UNCHANGED <<signals, ended, said, listed, dev, background, program, history>>

HandlerRemove ==
    /\ Handle("remove", "destroy") /\ TakeOff(TRUE)
    /\ UNCHANGED <<signals, ended, guest, said, listed, program, host, fault, wrong>>

HandlerDestroy ==
    /\ Handle("destroy", "teardown") /\ dev' = Destroyed
    /\ UNCHANGED <<signals, ended, guest, said, listed, program, host, history>>

HandlerTeardown ==
    /\ Handle("teardown", "restore") /\ held' = held \ (Far \cup {"country"})
    /\ UNCHANGED <<signals, ended, world, tracked, background, program, history>>

(* Mutant: the handler leaves the exit to main. *)
HandlerStays ==
    /\ Handle("restore", "gone") /\ ("port0" \in held => \A n \in Guests : ~Alive(n))
    /\ held' = held \ {"port0"}
    /\ UNCHANGED <<signals, ended, world, tracked, background, program, history>>

(* netRestorePort waits for the guest that has the port; then os.Exit(1). *)
HandlerExit ==
    /\ Handle("restore", "gone") /\ ("port0" \in held => \A n \in Guests : ~Alive(n))
    /\ held' = held \ {"port0"} /\ phase' = "exited"
    /\ UNCHANGED <<signals, ended, world, tracked, background, cmd, todo, stack, history>>

Handler == FirstSignal \/ SecondSignal \/ HandlerRemove \/ HandlerDestroy
              \/ HandlerTeardown \/ HandlerExit

(* The watcher of `run` looks for the device in the log, and adds it. *)
Watch ==
    /\ phase # "exited" /\ side = "watch"
    /\ \/ said[1] = "created" /\ side' = "adding"
       \/ ended /\ side' = "done"
    /\ UNCHANGED <<signals, ended, program, world, host, history>>

(* vdpa dev add waits for the guest, or for the message timeout. *)
Added ==
    /\ phase # "exited" /\ side = "adding" /\ (Served \/ dev.low \/ dev.at # "created")
    /\ dev' = IF dev.at = "created" THEN [dev EXCEPT !.at = "bus", !.broken = ~Served] ELSE dev
    /\ side' = "done"
    /\ UNCHANGED <<signals, ended, program, guest, said, listed, host, history>>

(* The command in the background ends, or was cancelled. *)
BackgroundEnds ==
    /\ phase # "exited" /\ background /\ ~Stuck /\ background' = FALSE
    /\ UNCHANGED <<held, tracked, program, signal, world, history>>

-----------------------------------------------------------------------------
(* A guest's init has made the device, or taken it over.  One that finds    *)
(* another guest at the device exits.                                       *)
Boot(n) ==
    /\ phase # "exited" /\ guest[n] = "booting"
    /\ IF Open THEN Dies(n) /\ UNCHANGED said
       ELSE /\ guest' = [guest EXCEPT ![n] = "running"]
            /\ said' = [said EXCEPT ![n] =
                 IF dev.at # "bus" THEN "created"
                 ELSE IF dev.broken THEN "stopped" ELSE "reconnecting"]
            /\ dev' = IF dev.at = "none" THEN [NoDevice EXCEPT !.at = "created"] ELSE dev
    /\ UNCHANGED <<listed, program, signal, host, history>>

Crash(n) ==
    /\ phase # "exited" /\ Alive(n) /\ Dies(n) /\ fault' = "died"
    /\ UNCHANGED <<said, listed, program, signal, host, slow, wrong>>

(* The program has exited, or the requests of a block device whose guest    *)
(* died or hung wait for another one, which nobody starts.                  *)
Terminated == (phase = "exited" \/ (Blk /\ fault = "died")) /\ UNCHANGED vars

Next == \/ Main \/ Handler \/ Watch \/ Added \/ BackgroundEnds \/ Signal
        \/ (\E n \in Guests : Boot(n) \/ Crash(n)) \/ Terminated

Spec == Init /\ [][Next]_vars /\ WF_vars(Main) /\ WF_vars(Handler) /\ WF_vars(Watch)
             /\ WF_vars(Added) /\ WF_vars(BackgroundEnds)

-----------------------------------------------------------------------------
Resources == Far \cup PCIDevices \cup {"logdir", "country", "mnt", "delay", "sandboxlog",
                "events", "wpa", "null_blk", "nativens", "cgroup", "benchns", "server",
                "supplicant"}

TypeOK ==
    /\ cmd \in Commands /\ phase \in {"setup", "loop", "end", "ending", "exited"}
    /\ signals \in 0..MaxSignals /\ {ended, background, slow, wrong} \subseteq BOOLEAN
    /\ side \in {"first", "second", "remove", "destroy", "teardown", "restore", "gone",
                 "watch", "adding", "done"}
    /\ guest \in [Guests -> {"none", "booting", "running", "dead"}]
    /\ said \in [Guests -> {"-", "created", "reconnecting", "stopped"}]
    /\ listed \subseteq Guests /\ tracked \subseteq Resources /\ held \subseteq Resources
    /\ dev \in [at : {"none", "created", "bus"}, broken : BOOLEAN, low : BOOLEAN]
    /\ fault \in {"none", "late", "died"}

(* "Each test starts its own guest and leaves no device behind": between two *)
(* tests or targets there is no guest, no device, no command in the         *)
(* background and nothing held but what the command holds throughout, and a *)
(* command that was not told to exit at once leaves nothing at all, however *)
(* its guests failed.                                                       *)
Kept == Far \cup PCIDevices \cup {"country"}
LeavesNothing ==
    signals < MaxSignals \/ cmd \in Benches =>
        /\ phase = "loop" /\ Done /\ cmd # "run" =>
              /\ \A n \in Guests : ~Alive(n)
              /\ dev = NoDevice /\ held \subseteq Kept /\ ~background
        /\ phase = "exited" =>
              /\ \A n \in Guests : ~Alive(n)
              /\ dev = NoDevice /\ held = {} /\ ~background

(* What the tests check of the device holds while no guest fails on its own: *)
(* the next guest takes over a device on the bus, makes it anew off the bus, *)
(* finds one that timed out stopped, and a guest that stops in order leaves  *)
(* no device.                                                               *)
ChecksHold == wrong => fault # "none" \/ signals = MaxSignals

(* No removal waits for VDUSE's message timeout, not even after a signal in  *)
(* a test that has killed its guest, unless a guest failed on its own.      *)
PromptRemoval == slow => fault # "none" \/ signals = MaxSignals

(* What stands on what.  A guest that has its device has the command's name. *)
StandsOn(t) ==
    CASE t = "test-net"   -> {"logdir", "port0"}
      [] t = "test-wlan"  -> {"logdir"}
      [] t = "bench-net"  -> {"logdir", "cgroup", "port0"}
      [] t = "bench-wlan" -> {"logdir", "cgroup", "card"}
      [] t = "delayed"    -> {"delay"}
      [] t = "servers"    -> {"netns"}
      [] t = "port1"      -> {"netns", "flag"}
      [] t = "supplicant" -> {"benchns"}
      [] OTHER            -> {}

L == INSTANCE Leases WITH
        Things  <- Resources \cup Commands \cup {"delayed"},
        holding <- held \cup (IF ~Open THEN {} ELSE {cmd} \cup
                              (IF "delay" \in held THEN {"delayed"} ELSE {}))

(* Whatever fails or is interrupted, the program borrows from the host as   *)
(* Leases says: no guest has its device without its log, its cgroup, its    *)
(* PCI device and its disk, which are not taken away under it, and no       *)
(* namespace goes under what runs in it.                                    *)
LeasesHold == L!Spec

(* "A signal stops the traffic, and the test that runs then fails and cleans *)
(* up": the command ends, unless a block guest died or hung and left its    *)
(* requests waiting.                                                        *)
EndsOnSignal ==
    (signals > 0 /\ cmd # "run") ~> (phase = "exited" \/ (Blk /\ fault = "died"))

(* "A second signal kills the guests and exits", whatever main waits for.   *)
SecondSignalEnds == (signals = 2 /\ cmd \in Suites) ~> phase = "exited"

(* `run` ends once its guest has, even while it adds the guest's device.    *)
RunEnds == (cmd = "run" /\ guest[1] = "dead") ~> phase = "exited"

(* A suite or a benchmark that is told to end does, one that is told twice does *)
(* whatever it waits for, and `run` does once its guest has ended.           *)
CommandsEnd == EndsOnSignal /\ SecondSignalEnds /\ RunEnds
=============================================================================
