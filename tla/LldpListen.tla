----------------------------- MODULE LldpListen ------------------------------
(***************************************************************************)
(* Listening for the switch at the other end of each cable: Listen and     *)
(* listenOne (src/internal/lldp/listen_linux.go), one goroutine per live   *)
(* interface, and applyNeighbours (src/internal/inventory/nic.go), which   *)
(* starts them and stores what they heard.                                 *)
(*                                                                         *)
(* Time is a counter of ticks, TicksPerMicro of them in a microsecond, so  *)
(* that the part of the waiting time a timeval cannot express is visible.  *)
(***************************************************************************)
EXTENDS Naturals, Sequences

CONSTANTS
  Interfaces,     \* the interfaces of the machine
  Switches,       \* what an advertisement may say: a switch and a port
  Callers,        \* who calls Collect: "run" of the program, or "library"
  Nothing,        \* no neighbour, no useful advertisement
  Wait,           \* how long the caller wants to listen, in ticks
  TicksPerMicro,
  MaxClock,       \* bound on time
  MaxFrames       \* bound on the advertisements per link

ASSUME LldpAssumption ==
  /\ Nothing \notin Switches
  /\ Interfaces \cap {"closed", "every link", "free"} = {}
  /\ Callers \subseteq {"run", "library"}
  /\ Wait \in Nat \ {0} /\ TicksPerMicro \in Nat \ {0}
  /\ MaxClock \in Nat /\ MaxClock > Wait
  /\ MaxFrames \in Nat

VARIABLES
  flag,    \* what --lldp, or the user of the library, asked for
  wait,    \* Options.LLDPWait
  cable,   \* the switch port each link is plugged into, if it speaks LLDP
  live,    \* the interfaces whose State was "up" when they were collected
  clock,
  sent,    \* how many advertisements have arrived on each link
  main,    \* where Collect is
  pc,      \* where the goroutine of each interface is
  socket,  \* what its socket is bound to: nothing yet, every link, one link
  queue,   \* the frames its socket holds
  timeout, \* the receive timeout it computed, in microseconds
  wake,    \* when its Recvfrom gives up
  found,   \* what listenOne returned
  lock,    \* who holds mu
  out,     \* the map Listen returns
  nic,     \* the neighbour of each interface in the inventory
  strays   \* history: sockets that were given a frame of another link too early

links == <<flag, wait, cable, live>>
vars == <<links, clock, sent, main, pc, socket, queue, timeout, wake, found,
          lock, out, nic, strays>>

Closed == "closed"
EveryLink == "every link"
Never == MaxClock + Wait + 1   \* a timeval of zero: the receive has no timeout
Free == "free"

\* run fills in inventory.Options from the flags, but not LLDPWait.
OptionsOf(caller, asked) == IF caller = "run" THEN 0 ELSE asked

Init ==
  /\ flag \in {0, Wait}
  /\ \E caller \in Callers : wait = OptionsOf(caller, flag)
  /\ cable \in [Interfaces -> Switches \cup {Nothing}]
  /\ \A i, j \in Interfaces : i # j /\ cable[i] = cable[j] => cable[i] = Nothing
  /\ live \in SUBSET Interfaces
  /\ clock = 0
  /\ sent = [i \in Interfaces |-> 0]
  /\ main = "start"
  /\ pc = [i \in Interfaces |-> "idle"]
  /\ socket = [i \in Interfaces |-> Closed]
  /\ queue = [i \in Interfaces |-> <<>>]
  /\ timeout = [i \in Interfaces |-> 0]
  /\ wake = [i \in Interfaces |-> Never]
  /\ found = [i \in Interfaces |-> Nothing]
  /\ lock = Free
  /\ out = [i \in Interfaces |-> Nothing]
  /\ nic = [i \in Interfaces |-> Nothing]
  /\ strays = {}

Goto(i, label) == pc' = [pc EXCEPT ![i] = label]

\* Return from listenOne without a neighbour: the socket is closed if it was
\* opened, and the goroutine is done.
GiveUp(i) ==
  /\ Goto(i, "done")
  /\ socket' = [socket EXCEPT ![i] = Closed]
  /\ queue' = [queue EXCEPT ![i] = <<>>]

-----------------------------------------------------------------------------
(* Collect, applyNeighbours and Listen. *)

\* Without a wait, or without a live interface, nothing is started.
Start ==
  /\ main = "start"
  /\ IF wait = 0 \/ live = {}
     THEN main' = "collected" /\ UNCHANGED pc
     ELSE /\ main' = "listening"
          /\ pc' = [i \in Interfaces |-> IF i \in live THEN "lookup" ELSE "idle"]
  /\ UNCHANGED <<links, clock, sent, socket, queue, timeout, wake, found, lock, out, nic, strays>>

\* Mutant: the first goroutine that is done ends the wait.
WaitForOne ==
  /\ main = "listening"
  /\ \E i \in live : pc[i] = "done"
  /\ main' = "apply"
  /\ UNCHANGED <<links, clock, sent, pc, socket, queue, timeout, wake, found, lock, out, nic, strays>>

\* wg.Wait
WaitForAll ==
  /\ main = "listening"
  /\ \A i \in live : pc[i] = "done"
  /\ main' = "apply"
  /\ UNCHANGED <<links, clock, sent, pc, socket, queue, timeout, wake, found, lock, out, nic, strays>>

\* Mutant: the neighbour goes to the next row of the inventory.
ApplyToOther ==
  /\ main = "apply"
  /\ nic' = [i \in Interfaces |->
               LET j == CHOOSE k \in Interfaces : k # i
               IN  IF out[j] # Nothing THEN out[j] ELSE nic[i]]
  /\ main' = "collected"
  /\ UNCHANGED <<links, clock, sent, pc, socket, queue, timeout, wake, found, lock, out, strays>>

Apply ==
  /\ main = "apply"
  /\ nic' = [i \in Interfaces |-> IF out[i] # Nothing THEN out[i] ELSE nic[i]]
  /\ main' = "collected"
  /\ UNCHANGED <<links, clock, sent, pc, socket, queue, timeout, wake, found, lock, out, strays>>

-----------------------------------------------------------------------------
(* listenOne. The deadline is Wait ticks after the start of Listen; time     *)
(* that passes before the listening starts is of no consequence, so the      *)
(* clock runs from there.                                                    *)

Lookup(i) ==
  /\ pc[i] = "lookup"
  /\ Goto(i, "socket") \/ Goto(i, "done")
  /\ UNCHANGED <<links, clock, sent, main, socket, queue, timeout, wake, found, lock, out, nic, strays>>

\* A packet socket made with a protocol receives from every link at once.
OpenSocket(i) ==
  /\ pc[i] = "socket"
  /\ \/ Goto(i, "bind") /\ socket' = [socket EXCEPT ![i] = EveryLink]
     \/ Goto(i, "done") /\ UNCHANGED socket
  /\ UNCHANGED <<links, clock, sent, main, queue, timeout, wake, found, lock, out, nic, strays>>

\* Mutant: the bind names no link.
BindToNoLink(i) ==
  /\ pc[i] = "bind"
  /\ \/ Goto(i, "check") /\ UNCHANGED <<socket, queue>>
     \/ GiveUp(i)
  /\ UNCHANGED <<links, clock, sent, main, timeout, wake, found, lock, out, nic, strays>>

\* What the socket holds already stays in its queue.
BindSocket(i) ==
  /\ pc[i] = "bind"
  /\ \/ Goto(i, "check") /\ socket' = [socket EXCEPT ![i] = i] /\ UNCHANGED queue
     \/ GiveUp(i)
  /\ UNCHANGED <<links, clock, sent, main, timeout, wake, found, lock, out, nic, strays>>

\* Mutant: what is left is taken for microseconds as it stands.
CheckTimeUnscaled(i) ==
  /\ pc[i] = "check"
  /\ IF clock >= wait
     THEN GiveUp(i) /\ UNCHANGED timeout
     ELSE /\ timeout' = [timeout EXCEPT ![i] = wait - clock]
          /\ Goto(i, "setTimeout")
          /\ UNCHANGED <<socket, queue>>
  /\ UNCHANGED <<links, clock, sent, main, wake, found, lock, out, nic, strays>>

\* time.Until(deadline), and NsecToTimeval, which rounds down.
CheckTime(i) ==
  /\ pc[i] = "check"
  /\ IF clock >= wait
     THEN GiveUp(i) /\ UNCHANGED timeout
     ELSE /\ timeout' = [timeout EXCEPT ![i] = (wait - clock) \div TicksPerMicro]
          /\ Goto(i, "setTimeout")
          /\ UNCHANGED <<socket, queue>>
  /\ UNCHANGED <<links, clock, sent, main, wake, found, lock, out, nic, strays>>

\* SO_RCVTIMEO, then Recvfrom starts to wait.
SetTimeout(i) ==
  /\ pc[i] = "setTimeout"
  /\ \/ /\ wake' = [wake EXCEPT ![i] =
                      IF timeout[i] = 0 THEN Never ELSE clock + timeout[i] * TicksPerMicro]
        /\ Goto(i, "receive")
        /\ UNCHANGED <<socket, queue>>
     \/ GiveUp(i) /\ UNCHANGED wake
  /\ UNCHANGED <<links, clock, sent, main, timeout, found, lock, out, nic, strays>>

\* A frame: one that Parse can use ends the wait, another one is skipped.
Receive(i) ==
  /\ pc[i] = "receive" /\ queue[i] # <<>>
  /\ IF Head(queue[i]) = Nothing
     THEN /\ Goto(i, "check")
          /\ queue' = [queue EXCEPT ![i] = Tail(queue[i])]
          /\ UNCHANGED <<socket, found>>
     ELSE /\ Goto(i, "lock")
          /\ found' = [found EXCEPT ![i] = Head(queue[i])]
          /\ socket' = [socket EXCEPT ![i] = Closed]
          /\ queue' = [queue EXCEPT ![i] = <<>>]
  /\ UNCHANGED <<links, clock, sent, main, timeout, wake, lock, out, nic, strays>>

\* EAGAIN: nothing arrived in time.  What is due behind the end of the bounded
\* clock is due at its end.
TimeOut(i) ==
  /\ pc[i] = "receive" /\ queue[i] = <<>>
  /\ wake[i] # Never
  /\ clock >= wake[i] \/ clock = MaxClock
  /\ Goto(i, "check")
  /\ UNCHANGED <<links, clock, sent, main, socket, queue, timeout, wake, found, lock, out, nic, strays>>

\* A signal interrupts the wait.
Interrupt(i) ==
  /\ pc[i] = "receive" /\ queue[i] = <<>>
  /\ Goto(i, "check")
  /\ UNCHANGED <<links, clock, sent, main, socket, queue, timeout, wake, found, lock, out, nic, strays>>

\* Any other error, such as the interface going down.
ReceiveFails(i) ==
  /\ pc[i] = "receive"
  /\ GiveUp(i)
  /\ UNCHANGED <<links, clock, sent, main, timeout, wake, found, lock, out, nic, strays>>

-----------------------------------------------------------------------------
(* out[name] = n, under mu. *)

\* Mutant: mu.Lock is forgotten.
LockNothing(i) ==
  /\ pc[i] = "lock"
  /\ lock' = i
  /\ Goto(i, "store")
  /\ UNCHANGED <<links, clock, sent, main, socket, queue, timeout, wake, found, out, nic, strays>>

Lock(i) ==
  /\ pc[i] = "lock" /\ lock = Free
  /\ lock' = i
  /\ Goto(i, "store")
  /\ UNCHANGED <<links, clock, sent, main, socket, queue, timeout, wake, found, out, nic, strays>>

Store(i) ==
  /\ pc[i] = "store"
  /\ out' = [out EXCEPT ![i] = found[i]]
  /\ Goto(i, "unlock")
  /\ UNCHANGED <<links, clock, sent, main, socket, queue, timeout, wake, found, lock, nic, strays>>

\* Mutant: mu.Unlock is forgotten.
UnlockNothing(i) ==
  /\ pc[i] = "unlock"
  /\ Goto(i, "done")
  /\ UNCHANGED <<links, clock, sent, main, socket, queue, timeout, wake, found, lock, out, nic, strays>>

\* mu.Unlock, and wg.Done.
Unlock(i) ==
  /\ pc[i] = "unlock"
  /\ lock' = Free
  /\ Goto(i, "done")
  /\ UNCHANGED <<links, clock, sent, main, socket, queue, timeout, wake, found, out, nic, strays>>

-----------------------------------------------------------------------------
(* The links and the clock. *)

\* The kernel hands a frame that arrives on a link to every socket that is
\* bound to it or not bound yet.
Listening(l) == {i \in Interfaces : socket[i] \in {l, EveryLink}}

Arrive(l, frame) ==
  /\ main = "listening" /\ sent[l] < MaxFrames
  /\ sent' = [sent EXCEPT ![l] = @ + 1]
  /\ queue' = [i \in Interfaces |->
                 IF i \in Listening(l) THEN Append(queue[i], frame) ELSE queue[i]]
  /\ strays' = strays \cup {i \in Listening(l) \ {l} : pc[i] = "bind"}
  /\ UNCHANGED <<links, clock, main, pc, socket, timeout, wake, found, lock, out, nic>>

Tick ==
  /\ main = "listening" /\ clock < MaxClock
  /\ clock' = clock + 1
  /\ UNCHANGED <<links, sent, main, pc, socket, queue, timeout, wake, found, lock, out, nic, strays>>

-----------------------------------------------------------------------------
Collect == Start \/ WaitForAll \/ Apply

Goroutine(i) ==
  \/ Lookup(i) \/ OpenSocket(i) \/ BindSocket(i)
  \/ CheckTime(i) \/ SetTimeout(i) \/ Receive(i) \/ TimeOut(i)
  \/ Lock(i) \/ Store(i) \/ Unlock(i)

Outside ==
  \/ \E i \in Interfaces : Interrupt(i) \/ ReceiveFails(i)
  \/ \E l \in Interfaces : \E frame \in {cable[l], Nothing} : Arrive(l, frame)

Next ==
  \/ Collect
  \/ \E i \in Interfaces : Goroutine(i)
  \/ Outside
  \/ Tick

Spec == Init /\ [][Next]_vars

\* The Go scheduler runs every goroutine that can run, and time passes.
\* Nothing makes a switch speak, a signal arrive or a receive fail.
Fairness ==
  /\ WF_vars(Collect)
  /\ \A i \in Interfaces : WF_vars(Goroutine(i))
  /\ WF_vars(Tick)

FairSpec == Spec /\ Fairness

-----------------------------------------------------------------------------
(* Properties. *)

Heard == Switches \cup {Nothing}
Inside == {"store", "unlock"}

TypeOK ==
  /\ flag \in {0, Wait} /\ wait \in {0, Wait}
  /\ cable \in [Interfaces -> Heard] /\ live \subseteq Interfaces
  /\ clock \in 0..MaxClock /\ sent \in [Interfaces -> 0..MaxFrames]
  /\ main \in {"start", "listening", "apply", "collected"}
  /\ pc \in [Interfaces -> {"idle", "lookup", "socket", "bind", "check", "setTimeout",
                            "receive", "lock", "done"} \cup Inside]
  /\ socket \in [Interfaces -> Interfaces \cup {Closed, EveryLink}]
  /\ queue \in [Interfaces -> Seq(Heard)]
  /\ timeout \in [Interfaces -> 0..(Wait \div TicksPerMicro)]
  /\ wake \in [Interfaces -> 0..Never]
  /\ found \in [Interfaces -> Heard] /\ out \in [Interfaces -> Heard]
  /\ nic \in [Interfaces -> Heard]
  /\ lock \in Interfaces \cup {Free} /\ strays \subseteq Interfaces

\* An interface is given the switch port at the end of its own cable, unless a
\* frame of another link slipped into its socket before that was bound.
WrongOnlyBeforeBind ==
  \A i \in Interfaces : nic[i] \in {Nothing, cable[i]} \/ i \in strays

\* The result map is written by one goroutine at a time.
OneWriter ==
  \A i, j \in Interfaces : pc[i] \in Inside /\ pc[j] \in Inside => i = j

\* The inventory has what every goroutine heard, and nothing for the others.
EveryAnswerReported == main = "collected" => nic = found

\* Nothing is heard any more once Listen has returned.
ResultIsFinal ==
  [][(main \in {"apply", "collected"}) => UNCHANGED <<found, out>>]_vars

\* Collect returns, unless a wait started in the last microsecond before the
\* deadline, whatever frames and signals arrive and whichever calls fail.
CutShort == \E i \in Interfaces : pc[i] = "receive" /\ wake[i] = Never
ReturnsUnlessCutShort == <>(main = "collected") \/ <>CutShort

(* Claims of the documentation that hold only in part.                      *)

\* listen_linux.go:74: the socket never blocks past the deadline.
Returns == <>(main = "collected")

=============================================================================
