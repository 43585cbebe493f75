----------------------------- MODULE LldpProofs -----------------------------
(***************************************************************************)
(* What the goroutines of Listen leave behind, for any number of           *)
(* interfaces and any order of their steps: the invariants of LldpListen   *)
(* from three of their own, about who holds the lock, what was stored so   *)
(* far and what a socket may hold.                                         *)
(***************************************************************************)
EXTENDS LldpListen, TLAPS, SequenceTheorems

Labels == {"idle", "lookup", "socket", "bind", "check", "setTimeout", "receive",
           "lock", "store", "unlock", "done"}

\* What the proofs need of the types.
Shape ==
  /\ live \subseteq Interfaces /\ strays \subseteq Interfaces
  /\ cable \in [Interfaces -> Heard]
  /\ main \in {"start", "listening", "apply", "collected"}
  /\ pc \in [Interfaces -> Labels]
  /\ socket \in [Interfaces -> Interfaces \cup {Closed, EveryLink}]
  /\ queue \in [Interfaces -> Seq(Heard)]
  /\ found \in [Interfaces -> Heard]
  /\ out \in [Interfaces -> Heard]
  /\ nic \in [Interfaces -> Heard]

\* Whoever is between mu.Lock and mu.Unlock has the lock.
WriterInv == \A k \in Interfaces : pc[k] \in Inside => lock = k

\* What a goroutine heard is in the map as soon as it is about to unlock, and
\* nothing is before; the inventory has what is in the map.
ReportInv ==
  /\ \A k \in Interfaces :
       /\ pc[k] \notin {"lock", "store", "unlock", "done"} => found[k] = Nothing
       /\ pc[k] \in {"unlock", "done"} => out[k] = found[k]
       /\ pc[k] \notin {"unlock", "done"} => out[k] = Nothing
       /\ main = "start" => pc[k] = "idle"
       /\ k \notin live => pc[k] = "idle"
       /\ main \in {"apply", "collected"} => pc[k] \in {"idle", "done"}
       /\ main # "collected" => nic[k] = Nothing
       /\ main = "collected" => nic[k] = found[k]

\* A socket is open to every link only until it is bound, and without a stray
\* frame it holds those of its own link.
Own(k) == {cable[k], Nothing}

OriginInv ==
  \A k \in Interfaces :
    /\ socket[k] \in {k, Closed, EveryLink}
    /\ socket[k] = EveryLink => pc[k] = "bind"
    /\ k \notin strays => queue[k] \in Seq(Own(k)) /\ found[k] \in Own(k)

-----------------------------------------------------------------------------
(* Types. *)

LEMMA NamesDiffer ==
  /\ Closed # EveryLink
  /\ \A k \in Interfaces : k # Closed /\ k # EveryLink /\ k # Free
BY LldpAssumption DEF Closed, EveryLink, Free

LEMMA ShapeInit == Init => Shape
<1> SUFFICES ASSUME Init PROVE Shape
  OBVIOUS
<1>1. <<>> \in Seq(Heard)
  BY EmptySeq
<1>2. QED
  BY <1>1 DEF Init, Shape, Heard, Labels

LEMMA ShapeStep == Shape /\ [Next]_vars => Shape'
<1> SUFFICES ASSUME Shape, [Next]_vars PROVE Shape'
  OBVIOUS
<1> Nothing \in Heard /\ <<>> \in Seq(Heard)
  BY EmptySeq DEF Heard
<1> \A q \in Seq(Heard) : q # <<>> => Head(q) \in Heard /\ Tail(q) \in Seq(Heard)
  BY HeadTailProperties
<1> USE DEF Shape, Labels
<1>1. CASE Start
  BY <1>1 DEF Start, links
<1>2. CASE WaitForAll
  BY <1>2 DEF WaitForAll, links
<1>3. CASE Apply
  BY <1>3 DEF Apply, links
<1>4. ASSUME NEW i \in Interfaces, Lookup(i) PROVE Shape'
  BY <1>4 DEF Lookup, Goto, links
<1>5. ASSUME NEW i \in Interfaces, OpenSocket(i) PROVE Shape'
  BY <1>5 DEF OpenSocket, Goto, links
<1>6. ASSUME NEW i \in Interfaces, BindSocket(i) PROVE Shape'
  <2>1. pc' \in [Interfaces -> Labels]
    BY <1>6 DEF BindSocket, Goto, GiveUp
  <2>2. socket' \in [Interfaces -> Interfaces \cup {Closed, EveryLink}]
    BY <1>6 DEF BindSocket, GiveUp
  <2>3. queue' \in [Interfaces -> Seq(Heard)]
    BY <1>6 DEF BindSocket, GiveUp
  <2>4. UNCHANGED <<links, clock, sent, main, timeout, wake, found, lock, out, nic, strays>>
    BY <1>6 DEF BindSocket
  <2>5. QED
    BY <2>1, <2>2, <2>3, <2>4 DEF links
<1>7. ASSUME NEW i \in Interfaces, CheckTime(i) PROVE Shape'
  <2>1. pc' \in [Interfaces -> Labels]
    BY <1>7 DEF CheckTime, Goto, GiveUp
  <2>2. socket' \in [Interfaces -> Interfaces \cup {Closed, EveryLink}]
    BY <1>7 DEF CheckTime, GiveUp
  <2>3. queue' \in [Interfaces -> Seq(Heard)]
    BY <1>7 DEF CheckTime, GiveUp
  <2>4. UNCHANGED <<links, clock, sent, main, wake, found, lock, out, nic, strays>>
    BY <1>7 DEF CheckTime
  <2>5. QED
    BY <2>1, <2>2, <2>3, <2>4 DEF links
<1>8. ASSUME NEW i \in Interfaces, SetTimeout(i) PROVE Shape'
  <2>1. pc' \in [Interfaces -> Labels]
    BY <1>8 DEF SetTimeout, Goto, GiveUp
  <2>2. socket' \in [Interfaces -> Interfaces \cup {Closed, EveryLink}]
    BY <1>8 DEF SetTimeout, GiveUp
  <2>3. queue' \in [Interfaces -> Seq(Heard)]
    BY <1>8 DEF SetTimeout, GiveUp
  <2>4. UNCHANGED <<links, clock, sent, main, timeout, found, lock, out, nic, strays>>
    BY <1>8 DEF SetTimeout
  <2>5. QED
    BY <2>1, <2>2, <2>3, <2>4 DEF links
<1>9. ASSUME NEW i \in Interfaces, Receive(i) PROVE Shape'
  <2>1. pc' \in [Interfaces -> Labels]
    BY <1>9 DEF Receive, Goto
  <2>2. socket' \in [Interfaces -> Interfaces \cup {Closed, EveryLink}]
    BY <1>9 DEF Receive
  <2>3. queue' \in [Interfaces -> Seq(Heard)]
    <3>1. Tail(queue[i]) \in Seq(Heard)
      BY <1>9 DEF Receive
    <3>2. \/ queue' = [queue EXCEPT ![i] = Tail(queue[i])]
          \/ queue' = [queue EXCEPT ![i] = <<>>]
      BY <1>9 DEF Receive
    <3>3. QED
      BY <3>1, <3>2
  <2>4. found' \in [Interfaces -> Heard]
    <3>1. queue[i] \in Seq(Heard) /\ queue[i] # <<>>
      BY <1>9 DEF Receive
    <3>2. Head(queue[i]) \in Heard
      BY <3>1
    <3>3. QED
      BY <3>2, <1>9 DEF Receive
  <2>5. QED
    BY <2>1, <2>2, <2>3, <2>4, <1>9 DEF Receive, links
<1>10. ASSUME NEW i \in Interfaces, TimeOut(i) PROVE Shape'
  BY <1>10 DEF TimeOut, Goto, links
<1>11. ASSUME NEW i \in Interfaces, Lock(i) PROVE Shape'
  BY <1>11 DEF Lock, Goto, links
<1>12. ASSUME NEW i \in Interfaces, Store(i) PROVE Shape'
  BY <1>12 DEF Store, Goto, links
<1>13. ASSUME NEW i \in Interfaces, Unlock(i) PROVE Shape'
  BY <1>13 DEF Unlock, Goto, links
<1>14. ASSUME NEW i \in Interfaces, Interrupt(i) PROVE Shape'
  BY <1>14 DEF Interrupt, Goto, links
<1>15. ASSUME NEW i \in Interfaces, ReceiveFails(i) PROVE Shape'
  BY <1>15 DEF ReceiveFails, Goto, GiveUp, links
<1>16. ASSUME NEW l \in Interfaces, NEW frame \in {cable[l], Nothing}, Arrive(l, frame) PROVE Shape'
  <2>1. queue' \in [Interfaces -> Seq(Heard)]
    <3>1. frame \in Heard
      BY <1>16 DEF Heard
    <3>2. \A k \in Interfaces : Append(queue[k], frame) \in Seq(Heard)
      BY <3>1, AppendProperties
    <3>3. QED
      BY <3>2, <1>16 DEF Arrive
  <2>2. strays' \subseteq Interfaces
    BY <1>16 DEF Arrive, Listening
  <2>3. QED
    BY <2>1, <2>2, <1>16 DEF Arrive, links
<1>17. CASE Tick
  BY <1>17 DEF Tick, links
<1>18. CASE UNCHANGED vars
  BY <1>18 DEF vars, links
<1>19. QED
  BY <1>1, <1>2, <1>3, <1>4, <1>5, <1>6, <1>7, <1>8, <1>9, <1>10, <1>11,
     <1>12, <1>13, <1>14, <1>15, <1>16, <1>17, <1>18
     DEF Next, Collect, Goroutine, Outside

-----------------------------------------------------------------------------
(* The clock. *)

LEMMA DivTimes ==
  ASSUME NEW a \in Nat, NEW b \in Nat \ {0}
  PROVE  a \div b \in Nat /\ (a \div b) * b <= a /\ a < (a \div b) * b + b
  OBVIOUS

LEMMA DivMonotone ==
  ASSUME NEW a \in Nat, NEW c \in Nat, NEW b \in Nat \ {0}, a <= c
  PROVE  a \div b <= c \div b
<1> DEFINE x == a \div b
           y == c \div b
<1>1. x \in Nat /\ x * b <= a
  BY DivTimes
<1>2. y \in Nat /\ c < y * b + b
  BY DivTimes
<1> HIDE DEF x, y
<1>3. ASSUME x > y PROVE FALSE
  <2>1. PICK d \in Nat : x = y + 1 + d
    <3>1. x - y - 1 \in Nat /\ x = y + 1 + (x - y - 1)
      BY <1>1, <1>2, <1>3
    <3>2. QED
      BY <3>1
  <2>2. x * b = y * b + b + d * b /\ d * b \in Nat
    BY <2>1, <1>1, <1>2
  <2>3. QED
    BY <1>1, <1>2, <2>2
<1>4. QED
  BY <1>1, <1>2, <1>3 DEF x, y

LEMMA TimesMonotone ==
  ASSUME NEW x \in Nat, NEW y \in Nat, NEW b \in Nat, x <= y
  PROVE  x * b <= y * b /\ x * b \in Nat
<1>1. PICK d \in Nat : y = x + d
  <2>1. y - x \in Nat /\ y = x + (y - x)
    OBVIOUS
  <2>2. QED
    BY <2>1
<1>2. y * b = x * b + d * b /\ d * b \in Nat /\ x * b \in Nat
  BY <1>1
<1>3. QED
  BY <1>2

\* The rest of TypeOK.
Clocks ==
  /\ flag \in {0, Wait} /\ wait \in {0, Wait}
  /\ clock \in 0..MaxClock /\ sent \in [Interfaces -> 0..MaxFrames]
  /\ timeout \in [Interfaces -> 0..(Wait \div TicksPerMicro)]
  /\ wake \in [Interfaces -> 0..Never]
  /\ lock \in Interfaces \cup {Free}

LEMMA ClocksInit == Init => Clocks
<1> SUFFICES ASSUME Init PROVE Clocks
  OBVIOUS
<1>1. flag \in {0, Wait} /\ wait \in {0, Wait}
  BY DEF Init, OptionsOf
<1>2. /\ MaxClock \in Nat /\ MaxFrames \in Nat /\ Wait \in Nat
      /\ TicksPerMicro \in Nat \ {0}
  BY LldpAssumption
<1>3. Wait \div TicksPerMicro \in Nat
  BY <1>2, DivTimes
<1>4. 0 \in 0..MaxClock /\ 0 \in 0..MaxFrames /\ 0 \in 0..(Wait \div TicksPerMicro)
  BY <1>2, <1>3
<1>5. Never \in 0..Never
  BY <1>2 DEF Never
<1>6. QED
  BY <1>1, <1>4, <1>5 DEF Init, Clocks

LEMMA ClocksStep == Shape /\ Clocks /\ [Next]_vars => Clocks'
<1> SUFFICES ASSUME Shape, Clocks, [Next]_vars PROVE Clocks'
  OBVIOUS
<1>1. /\ wait \in Nat /\ wait <= Wait /\ Wait \in Nat \ {0} /\ TicksPerMicro \in Nat \ {0}
      /\ MaxClock \in Nat /\ MaxFrames \in Nat /\ clock \in Nat
      /\ Wait \div TicksPerMicro \in Nat /\ (Wait \div TicksPerMicro) * TicksPerMicro <= Wait
      /\ Never \in Nat
  <2>1. /\ Wait \in Nat \ {0} /\ TicksPerMicro \in Nat \ {0}
        /\ MaxClock \in Nat /\ MaxFrames \in Nat
    BY LldpAssumption
  <2>2. Wait \div TicksPerMicro \in Nat /\ (Wait \div TicksPerMicro) * TicksPerMicro <= Wait
    BY <2>1, DivTimes
  <2>3. wait \in Nat /\ wait <= Wait /\ clock \in Nat /\ Never \in Nat
    BY <2>1 DEF Clocks, Never
  <2>4. QED
    BY <2>1, <2>2, <2>3
<1>2. CASE Start \/ WaitForAll \/ Apply
  BY <1>2 DEF Start, WaitForAll, Apply, links, Clocks
<1>3. ASSUME NEW i \in Interfaces,
             \/ Lookup(i) \/ OpenSocket(i) \/ BindSocket(i) \/ Receive(i) \/ TimeOut(i)
             \/ Store(i) \/ Interrupt(i) \/ ReceiveFails(i)
      PROVE  Clocks'
  BY <1>3
     DEF Lookup, OpenSocket, BindSocket, Receive, TimeOut, Store, Interrupt, ReceiveFails, links,
         Clocks
<1>4. ASSUME NEW i \in Interfaces, Lock(i) \/ Unlock(i) PROVE Clocks'
  BY <1>4 DEF Lock, Unlock, links, Clocks
<1>5. ASSUME NEW i \in Interfaces, CheckTime(i) PROVE Clocks'
  <2>1. ASSUME ~(clock >= wait)
        PROVE  (wait - clock) \div TicksPerMicro \in 0..(Wait \div TicksPerMicro)
    <3>1. wait - clock \in Nat /\ wait - clock <= Wait
      BY <1>1, <2>1
    <3>2. QED
      BY <1>1, <3>1, DivTimes, DivMonotone
  <2>2. timeout' \in [Interfaces -> 0..(Wait \div TicksPerMicro)]
    BY <1>5, <2>1 DEF CheckTime, Clocks
  <2>3. QED
    BY <1>5, <2>2 DEF CheckTime, links, Clocks
<1>6. ASSUME NEW i \in Interfaces, SetTimeout(i) PROVE Clocks'
  <2>1. timeout[i] \in Nat /\ timeout[i] <= Wait \div TicksPerMicro
    BY <1>1 DEF Clocks
  <2>2. timeout[i] * TicksPerMicro \in Nat /\ timeout[i] * TicksPerMicro <= Wait
    BY <1>1, <2>1, TimesMonotone
  <2>3. clock + timeout[i] * TicksPerMicro \in 0..Never /\ Never \in 0..Never
    BY <1>1, <2>2 DEF Never, Clocks
  <2>4. wake' \in [Interfaces -> 0..Never]
    BY <1>6, <2>3 DEF SetTimeout, Clocks
  <2>5. QED
    BY <1>6, <2>4 DEF SetTimeout, links, Clocks
<1>7. ASSUME NEW l \in Interfaces, NEW frame, Arrive(l, frame) PROVE Clocks'
  <2>1. sent[l] \in 0..MaxFrames /\ sent[l] < MaxFrames /\ sent' = [sent EXCEPT ![l] = sent[l] + 1]
    BY <1>7 DEF Arrive, Clocks
  <2>2. sent[l] + 1 \in 0..MaxFrames
    BY <1>1, <2>1
  <2>3. sent' \in [Interfaces -> 0..MaxFrames]
    BY <2>1, <2>2 DEF Clocks
  <2>4. QED
    BY <1>7, <2>3 DEF Arrive, links, Clocks
<1>8. CASE Tick
  BY <1>1, <1>8 DEF Tick, links, Clocks
<1>9. CASE UNCHANGED vars
  BY <1>9 DEF vars, links, Clocks
<1>10. QED
  BY <1>2, <1>3, <1>4, <1>5, <1>6, <1>7, <1>8, <1>9 DEF Next, Collect, Goroutine, Outside

\* Every variable has its type: no computed timeout, and no time at which a
\* receive gives up, exceeds its bound (listen_linux.go:68-86).
THEOREM LldpTypeCorrect == Spec => []TypeOK
<1>1. Shape /\ Clocks => TypeOK
  BY DEF Shape, Clocks, TypeOK, Labels, Inside
<1>2. QED
  BY ShapeInit, ShapeStep, ClocksInit, ClocksStep, <1>1, PTL DEF Spec

-----------------------------------------------------------------------------
(* The lock. *)

LEMMA WriterInit == Init => WriterInv
BY DEF Init, WriterInv, Inside

LEMMA WriterStep == Shape /\ WriterInv /\ [Next]_vars => WriterInv'
<1> SUFFICES ASSUME Shape, WriterInv, [Next]_vars PROVE WriterInv'
  OBVIOUS
<1> USE NamesDiffer DEF Shape, WriterInv, Inside
<1>1. CASE Start
  BY <1>1 DEF Start
<1>2. CASE WaitForAll
  BY <1>2 DEF WaitForAll
<1>3. CASE Apply
  BY <1>3 DEF Apply
<1>4. ASSUME NEW i \in Interfaces, Lookup(i) PROVE WriterInv'
  BY <1>4 DEF Lookup, Goto
<1>5. ASSUME NEW i \in Interfaces, OpenSocket(i) PROVE WriterInv'
  BY <1>5 DEF OpenSocket, Goto
<1>6. ASSUME NEW i \in Interfaces, BindSocket(i) PROVE WriterInv'
  BY <1>6 DEF BindSocket, Goto, GiveUp
<1>7. ASSUME NEW i \in Interfaces, CheckTime(i) PROVE WriterInv'
  BY <1>7 DEF CheckTime, Goto, GiveUp
<1>8. ASSUME NEW i \in Interfaces, SetTimeout(i) PROVE WriterInv'
  BY <1>8 DEF SetTimeout, Goto, GiveUp
<1>9. ASSUME NEW i \in Interfaces, Receive(i) PROVE WriterInv'
  BY <1>9 DEF Receive, Goto
<1>10. ASSUME NEW i \in Interfaces, TimeOut(i) PROVE WriterInv'
  BY <1>10 DEF TimeOut, Goto
<1>11. ASSUME NEW i \in Interfaces, Lock(i) PROVE WriterInv'
  BY <1>11 DEF Lock, Goto
<1>12. ASSUME NEW i \in Interfaces, Store(i) PROVE WriterInv'
  BY <1>12 DEF Store, Goto
<1>13. ASSUME NEW i \in Interfaces, Unlock(i) PROVE WriterInv'
  BY <1>13 DEF Unlock, Goto
<1>14. ASSUME NEW i \in Interfaces, Interrupt(i) PROVE WriterInv'
  BY <1>14 DEF Interrupt, Goto
<1>15. ASSUME NEW i \in Interfaces, ReceiveFails(i) PROVE WriterInv'
  BY <1>15 DEF ReceiveFails, Goto, GiveUp
<1>16. ASSUME NEW l \in Interfaces, NEW frame \in {cable[l], Nothing}, Arrive(l, frame) PROVE WriterInv'
  BY <1>16 DEF Arrive
<1>17. CASE Tick
  BY <1>17 DEF Tick
<1>18. CASE UNCHANGED vars
  BY <1>18 DEF vars
<1>19. QED
  BY <1>1, <1>2, <1>3, <1>4, <1>5, <1>6, <1>7, <1>8, <1>9, <1>10, <1>11,
     <1>12, <1>13, <1>14, <1>15, <1>16, <1>17, <1>18
     DEF Next, Collect, Goroutine, Outside

\* The result map is written by one goroutine at a time
\* (listen_linux.go:37-39).
THEOREM MapHasOneWriter == Spec => []OneWriter
<1>1. WriterInv => OneWriter
  BY DEF WriterInv, OneWriter
<1>2. QED
  BY ShapeInit, ShapeStep, WriterInit, WriterStep, <1>1, PTL DEF Spec

-----------------------------------------------------------------------------
(* What was heard is what is reported. *)

LEMMA ReportInit == Init => ReportInv
BY DEF Init, ReportInv

LEMMA ReportStep == Shape /\ ReportInv /\ [Next]_vars => ReportInv'
<1> SUFFICES ASSUME Shape, ReportInv, [Next]_vars PROVE ReportInv'
  OBVIOUS
<1> USE DEF Shape, ReportInv
<1>1. CASE Start
  <2>1. /\ main = "start" /\ UNCHANGED <<live, found, out, nic>>
        /\ \/ main' = "collected" /\ pc' = pc
           \/ /\ main' = "listening"
              /\ pc' = [k \in Interfaces |-> IF k \in live THEN "lookup" ELSE "idle"]
    BY <1>1 DEF Start, links
  <2>2. \A k \in Interfaces :
          pc[k] = "idle" /\ found[k] = Nothing /\ out[k] = Nothing /\ nic[k] = Nothing
    BY <2>1
  <2>3. CASE main' = "collected" /\ pc' = pc
    BY <2>1, <2>2, <2>3
  <2>4. CASE main' = "listening"
    BY <2>1, <2>2, <2>4
  <2>5. QED
    BY <2>1, <2>3, <2>4
<1>2. CASE WaitForAll
  BY <1>2 DEF WaitForAll, links
<1>3. CASE Apply
  BY <1>3 DEF Apply, links
<1>4. ASSUME NEW i \in Interfaces, Lookup(i) PROVE ReportInv'
  BY <1>4 DEF Lookup, Goto, links
<1>5. ASSUME NEW i \in Interfaces, OpenSocket(i) PROVE ReportInv'
  BY <1>5 DEF OpenSocket, Goto, links
<1>6. ASSUME NEW i \in Interfaces, BindSocket(i) PROVE ReportInv'
  BY <1>6 DEF BindSocket, Goto, GiveUp, links
<1>7. ASSUME NEW i \in Interfaces, CheckTime(i) PROVE ReportInv'
  BY <1>7 DEF CheckTime, Goto, GiveUp, links
<1>8. ASSUME NEW i \in Interfaces, SetTimeout(i) PROVE ReportInv'
  BY <1>8 DEF SetTimeout, Goto, GiveUp, links
<1>9. ASSUME NEW i \in Interfaces, Receive(i) PROVE ReportInv'
  BY <1>9 DEF Receive, Goto, links
<1>10. ASSUME NEW i \in Interfaces, TimeOut(i) PROVE ReportInv'
  BY <1>10 DEF TimeOut, Goto, links
<1>11. ASSUME NEW i \in Interfaces, Lock(i) PROVE ReportInv'
  BY <1>11 DEF Lock, Goto, links
<1>12. ASSUME NEW i \in Interfaces, Store(i) PROVE ReportInv'
  BY <1>12 DEF Store, Goto, links
<1>13. ASSUME NEW i \in Interfaces, Unlock(i) PROVE ReportInv'
  BY <1>13 DEF Unlock, Goto, links
<1>14. ASSUME NEW i \in Interfaces, Interrupt(i) PROVE ReportInv'
  BY <1>14 DEF Interrupt, Goto, links
<1>15. ASSUME NEW i \in Interfaces, ReceiveFails(i) PROVE ReportInv'
  BY <1>15 DEF ReceiveFails, Goto, GiveUp, links
<1>16. ASSUME NEW l \in Interfaces, NEW frame \in {cable[l], Nothing}, Arrive(l, frame) PROVE ReportInv'
  BY <1>16 DEF Arrive, links
<1>17. CASE Tick
  BY <1>17 DEF Tick, links
<1>18. CASE UNCHANGED vars
  BY <1>18 DEF vars, links
<1>19. QED
  BY <1>1, <1>2, <1>3, <1>4, <1>5, <1>6, <1>7, <1>8, <1>9, <1>10, <1>11,
     <1>12, <1>13, <1>14, <1>15, <1>16, <1>17, <1>18
     DEF Next, Collect, Goroutine, Outside

\* The inventory has what every goroutine heard, and nothing for the others
\* (nic.go:158-180).
THEOREM EveryAnswerIsReported == Spec => []EveryAnswerReported
<1>1. Shape /\ ReportInv => EveryAnswerReported
  BY DEF Shape, ReportInv, EveryAnswerReported
<1>2. QED
  BY ShapeInit, ShapeStep, ReportInit, ReportStep, <1>1, PTL DEF Spec

-----------------------------------------------------------------------------
(* Where it was heard. *)

LEMMA OriginInit == Init => OriginInv
<1> SUFFICES ASSUME Init, NEW k \in Interfaces
             PROVE  /\ socket[k] = Closed
                    /\ queue[k] \in Seq(Own(k)) /\ found[k] \in Own(k)
  BY NamesDiffer DEF OriginInv
<1>1. <<>> \in Seq(Own(k))
  BY EmptySeq
<1>2. QED
  BY <1>1 DEF Init, Own

LEMMA OriginStep == Shape /\ ReportInv /\ OriginInv /\ [Next]_vars => OriginInv'
<1> SUFFICES ASSUME Shape, ReportInv, OriginInv, [Next]_vars PROVE OriginInv'
  OBVIOUS
<1> \A k \in Interfaces : <<>> \in Seq(Own(k)) /\ Nothing \in Own(k)
  BY EmptySeq DEF Own
<1> \A k \in Interfaces : \A q \in Seq(Own(k)) :
      q # <<>> => Head(q) \in Own(k) /\ Tail(q) \in Seq(Own(k))
  BY HeadTailProperties
<1> USE NamesDiffer DEF Shape, OriginInv
<1>1. CASE Start
  <2>1. \A k \in Interfaces : socket[k] \in {k, Closed}
    BY <1>1 DEF Start, ReportInv
  <2>2. QED
    BY <2>1, <1>1 DEF Start, links, Own
<1>2. CASE WaitForAll
  BY <1>2 DEF WaitForAll, links, Own
<1>3. CASE Apply
  BY <1>3 DEF Apply, links, Own
<1>4. ASSUME NEW i \in Interfaces, Lookup(i) PROVE OriginInv'
  BY <1>4 DEF Lookup, Goto, links, Own
<1>5. ASSUME NEW i \in Interfaces, OpenSocket(i) PROVE OriginInv'
  BY <1>5 DEF OpenSocket, Goto, links, Own
<1>6. ASSUME NEW i \in Interfaces, BindSocket(i) PROVE OriginInv'
  <2> SUFFICES ASSUME NEW k \in Interfaces
               PROVE  /\ socket'[k] \in {k, Closed, EveryLink}
                      /\ socket'[k] = EveryLink => pc'[k] = "bind"
                      /\ k \notin strays' =>
                           queue'[k] \in Seq(Own(k)) /\ found'[k] \in Own(k)
    BY <1>6 DEF BindSocket, links, Own
  <2>1. strays' = strays /\ found' = found /\ pc[i] = "bind"
    BY <1>6 DEF BindSocket
  <2>2. CASE k # i
    BY <2>1, <2>2, <1>6 DEF BindSocket, Goto, GiveUp
  <2>3. CASE k = i /\ GiveUp(i)
    <3>1. socket'[i] = Closed /\ queue'[i] = <<>>
      BY <2>3 DEF GiveUp
    <3>2. QED
      BY <2>1, <2>3, <3>1
  <2>4. CASE k = i /\ socket'[i] = i /\ queue' = queue
    BY <2>1, <2>4
  <2>5. QED
    BY <2>2, <2>3, <2>4, <1>6 DEF BindSocket
<1>7. ASSUME NEW i \in Interfaces, CheckTime(i) PROVE OriginInv'
  <2> SUFFICES ASSUME NEW k \in Interfaces
               PROVE  /\ socket'[k] \in {k, Closed, EveryLink}
                      /\ socket'[k] = EveryLink => pc'[k] = "bind"
                      /\ k \notin strays' =>
                           queue'[k] \in Seq(Own(k)) /\ found'[k] \in Own(k)
    BY <1>7 DEF CheckTime, links, Own
  <2>1. strays' = strays /\ found' = found /\ pc[i] = "check"
    BY <1>7 DEF CheckTime
  <2>2. CASE k # i
    BY <2>1, <2>2, <1>7 DEF CheckTime, Goto, GiveUp
  <2>3. CASE k = i /\ GiveUp(i)
    <3>1. socket'[i] = Closed /\ queue'[i] = <<>>
      BY <2>3 DEF GiveUp
    <3>2. QED
      BY <2>1, <2>3, <3>1
  <2>4. CASE k = i /\ socket' = socket /\ queue' = queue
    BY <2>1, <2>4
  <2>5. QED
    BY <2>2, <2>3, <2>4, <1>7 DEF CheckTime
<1>8. ASSUME NEW i \in Interfaces, SetTimeout(i) PROVE OriginInv'
  <2> SUFFICES ASSUME NEW k \in Interfaces
               PROVE  /\ socket'[k] \in {k, Closed, EveryLink}
                      /\ socket'[k] = EveryLink => pc'[k] = "bind"
                      /\ k \notin strays' =>
                           queue'[k] \in Seq(Own(k)) /\ found'[k] \in Own(k)
    BY <1>8 DEF SetTimeout, links, Own
  <2>1. strays' = strays /\ found' = found /\ pc[i] = "setTimeout"
    BY <1>8 DEF SetTimeout
  <2>2. CASE k # i
    BY <2>1, <2>2, <1>8 DEF SetTimeout, Goto, GiveUp
  <2>3. CASE k = i /\ GiveUp(i)
    <3>1. socket'[i] = Closed /\ queue'[i] = <<>>
      BY <2>3 DEF GiveUp
    <3>2. QED
      BY <2>1, <2>3, <3>1
  <2>4. CASE k = i /\ socket' = socket /\ queue' = queue
    BY <2>1, <2>4
  <2>5. QED
    BY <2>2, <2>3, <2>4, <1>8 DEF SetTimeout
<1>9. ASSUME NEW i \in Interfaces, Receive(i) PROVE OriginInv'
  <2> SUFFICES ASSUME NEW k \in Interfaces
               PROVE  /\ socket'[k] \in {k, Closed, EveryLink}
                      /\ socket'[k] = EveryLink => pc'[k] = "bind"
                      /\ k \notin strays' =>
                           queue'[k] \in Seq(Own(k)) /\ found'[k] \in Own(k)
    BY <1>9 DEF Receive, links, Own
  <2>1. strays' = strays /\ pc[i] = "receive" /\ queue[i] # <<>>
    BY <1>9 DEF Receive
  <2>2. CASE k # i
    BY <2>1, <2>2, <1>9 DEF Receive, Goto
  <2>3. CASE k = i
    <3>1. socket'[i] \in {socket[i], Closed} /\ socket[i] # EveryLink
      BY <2>1, <1>9 DEF Receive
    <3>2. k \notin strays => Head(queue[i]) \in Own(i) /\ Tail(queue[i]) \in Seq(Own(i))
      BY <2>1, <2>3
    <3>3. queue'[i] \in {<<>>, Tail(queue[i])} /\ found'[i] \in {found[i], Head(queue[i])}
      BY <1>9 DEF Receive
    <3>4. QED
      BY <2>1, <2>3, <3>1, <3>2, <3>3
  <2>4. QED
    BY <2>2, <2>3
<1>10. ASSUME NEW i \in Interfaces, TimeOut(i) PROVE OriginInv'
  BY <1>10 DEF TimeOut, Goto, links, Own
<1>11. ASSUME NEW i \in Interfaces, Lock(i) PROVE OriginInv'
  BY <1>11 DEF Lock, Goto, links, Own
<1>12. ASSUME NEW i \in Interfaces, Store(i) PROVE OriginInv'
  BY <1>12 DEF Store, Goto, links, Own
<1>13. ASSUME NEW i \in Interfaces, Unlock(i) PROVE OriginInv'
  BY <1>13 DEF Unlock, Goto, links, Own
<1>14. ASSUME NEW i \in Interfaces, Interrupt(i) PROVE OriginInv'
  BY <1>14 DEF Interrupt, Goto, links, Own
<1>15. ASSUME NEW i \in Interfaces, ReceiveFails(i) PROVE OriginInv'
  BY <1>15 DEF ReceiveFails, Goto, GiveUp, links, Own
<1>16. ASSUME NEW l \in Interfaces, NEW frame \in {cable[l], Nothing}, Arrive(l, frame) PROVE OriginInv'
  <2> SUFFICES ASSUME NEW k \in Interfaces
               PROVE  /\ socket'[k] \in {k, Closed, EveryLink}
                      /\ socket'[k] = EveryLink => pc'[k] = "bind"
                      /\ k \notin strays' =>
                           queue'[k] \in Seq(Own(k)) /\ found'[k] \in Own(k)
    BY <1>16 DEF Arrive, links, Own
  <2>1. UNCHANGED <<socket, pc, found>>
    BY <1>16 DEF Arrive
  <2>2. CASE k \notin Listening(l)
    BY <2>1, <2>2, <1>16 DEF Arrive
  <2>3. CASE k \in Listening(l) /\ k = l
    <3>1. \A q \in Seq(Own(k)) : Append(q, frame) \in Seq(Own(k))
      BY <2>3, <1>16, AppendProperties DEF Own
    <3>2. QED
      BY <2>1, <2>3, <3>1, <1>16 DEF Arrive
  <2>4. CASE k \in Listening(l) /\ k # l
    <3>1. socket[k] = EveryLink
      BY <2>4, <1>16 DEF Listening
    <3>2. k \in strays'
      BY <2>4, <3>1, <1>16 DEF Arrive
    <3>3. QED
      BY <2>1, <3>2
  <2>5. QED
    BY <2>2, <2>3, <2>4
<1>17. CASE Tick
  BY <1>17 DEF Tick, links, Own
<1>18. CASE UNCHANGED vars
  BY <1>18 DEF vars, links, Own
<1>19. QED
  BY <1>1, <1>2, <1>3, <1>4, <1>5, <1>6, <1>7, <1>8, <1>9, <1>10, <1>11,
     <1>12, <1>13, <1>14, <1>15, <1>16, <1>17, <1>18
     DEF Next, Collect, Goroutine, Outside

\* An interface is given the switch port at the end of its own cable, unless a
\* frame of another link slipped into its socket before that was bound
\* (listen_linux.go:53-64).
THEOREM WrongOnlyFromStrays == Spec => []WrongOnlyBeforeBind
<1>1. Shape /\ ReportInv /\ OriginInv => WrongOnlyBeforeBind
  BY DEF Shape, ReportInv, OriginInv, Own, WrongOnlyBeforeBind
<1>2. QED
  BY ShapeInit, ShapeStep, ReportInit, ReportStep, OriginInit, OriginStep, <1>1, PTL DEF Spec

-----------------------------------------------------------------------------
(* The end of Listen. *)

\* Nothing is heard any more once Listen has returned (listen_linux.go:43-44).
THEOREM NothingHeardLater == Spec => ResultIsFinal
<1>1. ReportInv /\ [Next]_vars =>
        [(main \in {"apply", "collected"}) => UNCHANGED <<found, out>>]_vars
  <2> SUFFICES ASSUME ReportInv, [Next]_vars, main \in {"apply", "collected"}
               PROVE  UNCHANGED <<found, out>>
    OBVIOUS
  <2>1. \A k \in Interfaces : pc[k] \in {"idle", "done"}
    BY DEF ReportInv
  <2>2. CASE Start \/ WaitForAll \/ Apply \/ Tick \/ UNCHANGED vars
    BY <2>2 DEF Start, WaitForAll, Apply, Tick, vars
  <2>3. ASSUME NEW i \in Interfaces, Goroutine(i) PROVE FALSE
    BY <2>1, <2>3 DEF Goroutine, Lookup, OpenSocket, BindSocket, CheckTime,
       SetTimeout, Receive, TimeOut, Lock, Store, Unlock
  <2>4. CASE Outside
    BY <2>1, <2>4 DEF Outside, Interrupt, ReceiveFails, Arrive
  <2>5. QED
    BY <2>2, <2>3, <2>4 DEF Next, Collect
<1>2. QED
  BY ShapeInit, ShapeStep, ReportInit, ReportStep, <1>1, PTL DEF Spec, ResultIsFinal
-----------------------------------------------------------------------------
(* A receive without a timeout. *)

\* A wait that is cut short was computed in the last microsecond, or the clock
\* has got there since.
LateInv ==
  \A k \in Interfaces :
    \/ pc[k] = "setTimeout" /\ timeout[k] = 0
    \/ pc[k] = "receive" /\ wake[k] = Never
    => wait - clock < TicksPerMicro

LEMMA LateStep == Shape /\ Clocks /\ LateInv /\ [Next]_vars => LateInv'
<1> SUFFICES ASSUME Shape, Clocks, LateInv, [Next]_vars PROVE LateInv'
  OBVIOUS
<1>1. /\ wait \in Nat /\ wait <= Wait /\ Wait \in Nat /\ TicksPerMicro \in Nat \ {0}
      /\ clock \in Nat /\ clock <= MaxClock /\ MaxClock \in Nat
      /\ (Wait \div TicksPerMicro) \in Nat /\ (Wait \div TicksPerMicro) * TicksPerMicro <= Wait
  <2>1. /\ Wait \in Nat \ {0} /\ TicksPerMicro \in Nat \ {0} /\ MaxClock \in Nat
    BY LldpAssumption
  <2>2. Wait \div TicksPerMicro \in Nat /\ (Wait \div TicksPerMicro) * TicksPerMicro <= Wait
    BY <2>1, DivTimes
  <2>3. wait \in Nat /\ wait <= Wait /\ clock \in Nat /\ clock <= MaxClock
    BY <2>1 DEF Clocks
  <2>4. QED
    BY <2>1, <2>2, <2>3
<1>2. CASE Start
  <2>1. wait' = wait /\ clock' = clock /\ \A k \in Interfaces : pc'[k] \in {"lookup", "idle"} \/ pc' = pc
    BY <1>2 DEF Start, links
  <2>2. timeout' = timeout /\ wake' = wake
    BY <1>2 DEF Start
  <2>3. QED
    BY <2>1, <2>2 DEF LateInv, Never
<1>3. CASE WaitForAll \/ Apply \/ UNCHANGED vars
  BY <1>3 DEF WaitForAll, Apply, vars, links, LateInv, Never
<1>4. ASSUME NEW i \in Interfaces, NEW label \in Labels \ {"setTimeout", "receive"},
             pc' = [pc EXCEPT ![i] = label], UNCHANGED <<wait, clock, wake, timeout>>
      PROVE  LateInv'
  BY <1>4 DEF LateInv, Shape, Never
<1>5. ASSUME NEW i \in Interfaces, Lookup(i) \/ OpenSocket(i) \/ BindSocket(i) PROVE LateInv'
  <2>1. \E label \in {"socket", "bind", "check", "done"} : pc' = [pc EXCEPT ![i] = label]
    BY <1>5 DEF Lookup, OpenSocket, BindSocket, Goto, GiveUp
  <2>2. UNCHANGED <<wait, clock, wake, timeout>>
    BY <1>5 DEF Lookup, OpenSocket, BindSocket, links
  <2>3. QED
    BY <1>4, <2>1, <2>2 DEF Labels
<1>6. ASSUME NEW i \in Interfaces,
             Receive(i) \/ TimeOut(i) \/ Interrupt(i) \/ ReceiveFails(i)
      PROVE  LateInv'
  <2>1. \E label \in {"check", "lock", "done"} : pc' = [pc EXCEPT ![i] = label]
    BY <1>6 DEF Receive, TimeOut, Interrupt, ReceiveFails, Goto, GiveUp
  <2>2. UNCHANGED <<wait, clock, wake, timeout>>
    BY <1>6 DEF Receive, TimeOut, Interrupt, ReceiveFails, links
  <2>3. QED
    BY <1>4, <2>1, <2>2 DEF Labels
<1>7. ASSUME NEW i \in Interfaces, Lock(i) \/ Store(i) \/ Unlock(i) PROVE LateInv'
  <2>1. \E label \in {"store", "unlock", "done"} : pc' = [pc EXCEPT ![i] = label]
    BY <1>7 DEF Lock, Store, Unlock, Goto
  <2>2. UNCHANGED <<wait, clock, wake, timeout>>
    BY <1>7 DEF Lock, Store, Unlock, links
  <2>3. QED
    BY <1>4, <2>1, <2>2 DEF Labels
<1>8. ASSUME NEW i \in Interfaces, CheckTime(i) PROVE LateInv'
  <2>1. CASE clock >= wait
    <3>1. pc' = [pc EXCEPT ![i] = "done"] /\ UNCHANGED <<wait, clock, wake, timeout>>
      BY <1>8, <2>1 DEF CheckTime, GiveUp, Goto, links
    <3>2. QED
      BY <1>4, <3>1 DEF Labels
  <2>2. CASE ~(clock >= wait)
    <3> DEFINE rest == (wait - clock) \div TicksPerMicro
    <3>1. /\ pc' = [pc EXCEPT ![i] = "setTimeout"] /\ timeout' = [timeout EXCEPT ![i] = rest]
          /\ UNCHANGED <<wait, clock, wake>>
      BY <1>8, <2>2 DEF CheckTime, Goto, links
    <3>2. rest = 0 => wait - clock < TicksPerMicro
      <4>1. wait - clock \in Nat
        BY <1>1, <2>2
      <4>2. wait - clock < rest * TicksPerMicro + TicksPerMicro
        BY <1>1, <4>1, DivTimes
      <4> HIDE DEF rest
      <4>3. QED
        BY <1>1, <4>2
    <3> HIDE DEF rest
    <3>3. QED
      BY <3>1, <3>2 DEF LateInv, Shape, Clocks, Never
  <2>3. QED
    BY <2>1, <2>2
<1>9. ASSUME NEW i \in Interfaces, SetTimeout(i) PROVE LateInv'
  <2>1. CASE GiveUp(i) /\ UNCHANGED wake
    <3>1. pc' = [pc EXCEPT ![i] = "done"] /\ UNCHANGED <<wait, clock, wake, timeout>>
      BY <1>9, <2>1 DEF SetTimeout, GiveUp, Goto, links
    <3>2. QED
      BY <1>4, <3>1 DEF Labels
  <2>2. CASE ~(GiveUp(i) /\ UNCHANGED wake)
    <3> DEFINE due == clock + timeout[i] * TicksPerMicro
    <3>1. /\ pc[i] = "setTimeout" /\ pc' = [pc EXCEPT ![i] = "receive"]
          /\ wake' = [wake EXCEPT ![i] = IF timeout[i] = 0 THEN Never ELSE due]
          /\ UNCHANGED <<wait, clock, timeout>>
      BY <1>9, <2>2 DEF SetTimeout, Goto, links
    <3>2. due # Never
      <4>1. timeout[i] \in Nat /\ timeout[i] <= Wait \div TicksPerMicro
        BY <1>1 DEF Clocks
      <4>2. timeout[i] * TicksPerMicro \in Nat /\ timeout[i] * TicksPerMicro <= Wait
        BY <1>1, <4>1, TimesMonotone
      <4>3. QED
        BY <1>1, <4>2 DEF Never
    <3> HIDE DEF due
    <3>3. timeout[i] = 0 => wait - clock < TicksPerMicro
      BY <3>1 DEF LateInv
    <3>4. wake \in [Interfaces -> 0..Never] /\ pc \in [Interfaces -> Labels]
      BY DEF Clocks, Shape
    <3>5. Never' = Never
      BY DEF Never
    <3>6. ASSUME NEW k \in Interfaces, k # i PROVE pc'[k] = pc[k] /\ wake'[k] = wake[k]
      BY <3>1, <3>4, <3>6
    <3>7. pc'[i] = "receive" /\ (wake'[i] = Never => timeout[i] = 0)
      BY <3>1, <3>2, <3>4
    <3>8. QED
      BY <3>1, <3>3, <3>5, <3>6, <3>7 DEF LateInv
  <2>3. QED
    BY <2>1, <2>2
<1>10. ASSUME NEW l \in Interfaces, NEW frame, Arrive(l, frame) PROVE LateInv'
  BY <1>10 DEF Arrive, links, LateInv, Never
<1>11. CASE Tick
  <2>1. clock' = clock + 1 /\ UNCHANGED <<wait, pc, timeout, wake>>
    BY <1>11 DEF Tick, links
  <2>2. wait - clock < TicksPerMicro => wait - (clock + 1) < TicksPerMicro
    BY <1>1
  <2>3. QED
    BY <2>1, <2>2 DEF LateInv, Never
<1>12. QED
  BY <1>2, <1>3, <1>5, <1>6, <1>7, <1>8, <1>9, <1>10, <1>11
     DEF Next, Collect, Goroutine, Outside

\* A receive waits for ever only if less than a microsecond is left of the wait,
\* or nothing: every other receive has a timeout (listen_linux.go:68-86).  What
\* ReturnsUnlessCutShort excepts is no more than this.
CutShortIsLate ==
  \A i \in Interfaces : pc[i] = "receive" /\ wake[i] = Never => wait - clock < TicksPerMicro

\* For any number of interfaces and any wait: no receive is without a timeout
\* while a microsecond or more is left (listen_linux.go:68-86).
THEOREM OnlyTheLastMicrosecondHangs == Spec => []CutShortIsLate
<1>1. Init => LateInv
  BY DEF Init, LateInv
<1>2. LateInv => CutShortIsLate
  BY DEF LateInv, CutShortIsLate
<1>3. QED
  BY ShapeInit, ShapeStep, ClocksInit, ClocksStep, <1>1, LateStep, <1>2, PTL DEF Spec
=============================================================================
