--------------------------- MODULE EventMgrProofs ---------------------------
(***************************************************************************)
(* The event list is in order, call stacks sit on their events, and events *)
(* belong to the processes that caused them, for any number of processes   *)
(* and messages and any length of the queue.                               *)
(***************************************************************************)
EXTENDS EventMgr, ProcessTableProofs, SequenceTheorems, FiniteSetTheorems, TLAPS

-----------------------------------------------------------------------------
(* The inductive invariant, of any queue, list of events, ids whose call   *)
(* stack may still come, ids whose call stack was handled, and next id.    *)

IsStack(m) == m.kind = "stack"

\* A message that has an id of its own.
IsEvent(m) == m.kind # "stack" /\ m.id # 0

\* Events with any objects.
EventOf(P) == [id : Nat, type : Types, proc : P, target : P, pid : P, stack : Nat]

\* Only an image load may have no id.
Typed(q, ev, pend, tak, next) ==
    /\ q \in Seq(Message)
    /\ \E P : ev \in Seq(EventOf(P))
    /\ next \in Nat \ {0}
    /\ pend \subseteq 0..(next - 1) /\ tak \subseteq 0..(next - 1)
    /\ \A k \in 1..Len(ev) : ev[k].id \in 0..(next - 1)
    /\ \A i \in 1..Len(q) : q[i].id < next
    /\ \A i \in 1..Len(q) : q[i].kind \notin {"image", "stack"} => q[i].id # 0

\* Events wait in the order of their ids, behind all that were recorded.
InOrder(q, ev) ==
    \A i \in 1..Len(q) : IsEvent(q[i]) =>
        /\ \A j \in 1..Len(q) : IsEvent(q[j]) /\ i < j => q[i].id < q[j].id
        /\ \A k \in 1..Len(ev) : ev[k].id < q[i].id

\* A call stack comes once, and behind its event.
StacksOnce(q, pend, tak) ==
    /\ pend \cap tak = {}
    /\ \A i \in 1..Len(q) :
         /\ IsEvent(q[i]) => q[i].id \notin tak
         /\ IsStack(q[i]) =>
              /\ q[i].id \notin pend \cup tak
              /\ \A j \in 1..Len(q) : IsStack(q[j]) /\ i # j => q[i].id # q[j].id
              /\ \A j \in 1..Len(q) : IsEvent(q[j]) /\ q[i].id = q[j].id => j < i

Pairs == {<<"CreateProcess", "ProcessCreate">>, <<"CreateThread", "ThreadCreate">>}

Ordered(ev) ==
    \A i, j \in 1..Len(ev) : i < j =>
        /\ ev[i].id <= ev[j].id
        /\ ev[i].id = ev[j].id =>
             /\ j = i + 1
             /\ <<ev[i].type, ev[j].type>> \in Pairs
             /\ ev[i].target = ev[j].proc

Attached(ev, tak) ==
    \A i \in 1..Len(ev) :
        ev[i].stack = IF ev[i].id \in tak /\ ev[i].type \notin Refuses THEN 1 ELSE 0

Sound(q, ev, pend, tak, next) ==
    /\ Typed(q, ev, pend, tak, next)
    /\ InOrder(q, ev)
    /\ StacksOnce(q, pend, tak)
    /\ Ordered(ev)
    /\ Attached(ev, tak)

IInv == Sound(queue, events, pending, taken, nextId)

-----------------------------------------------------------------------------
(* Messages are sent. *)

\* A numbered message is the latest of all.
LEMMA SendEventSound ==
    ASSUME NEW q, NEW ev, NEW pend, NEW tak, NEW next, Sound(q, ev, pend, tak, next),
           NEW m \in Message, m.kind # "stack", m.id = next
    PROVE  Sound(Append(q, m), ev, pend \cup {next}, tak, next + 1)
<1>. DEFINE q2 == Append(q, m)
<1>. USE DEF Sound
<1>1. q \in Seq(Message) /\ Len(q) \in Nat /\ next \in Nat \ {0}
  BY LenProperties DEF Typed
<1>2. /\ q2 \in Seq(Message) /\ Len(q2) = Len(q) + 1
      /\ \A i \in 1..Len(q) : q2[i] = q[i]
      /\ q2[Len(q) + 1] = m
  BY <1>1, AppendProperties
<1>. HIDE DEF q2
<1>3. \A i \in 1..Len(q2) : i \in 1..Len(q) \/ (i = Len(q) + 1 /\ q2[i] = m)
  BY <1>1, <1>2
<1>4. \A i \in 1..Len(q) : q[i].id \in Nat /\ q[i].id < next
  <2>1. \A i \in 1..Len(q) : q[i] \in Message
    BY <1>1
  <2>. QED
    BY <2>1 DEF Typed, Message
<1>5. \A k \in 1..Len(ev) : ev[k].id \in Nat /\ ev[k].id < next
  BY <1>1 DEF Typed
<1>6. Typed(q2, ev, pend \cup {next}, tak, next + 1)
  <2>1. \A i \in 1..Len(q2) : q2[i].id < next + 1
    BY <1>1, <1>2, <1>3, <1>4
  <2>2. \A i \in 1..Len(q2) : q2[i].kind \notin {"image", "stack"} => q2[i].id # 0
    BY <1>1, <1>2, <1>3 DEF Typed
  <2>3. 0..(next - 1) \subseteq 0..next /\ next \in 0..next /\ (next + 1) - 1 = next
    BY <1>1
  <2>4. pend \cup {next} \subseteq 0..next /\ tak \subseteq 0..next
    BY <2>3 DEF Typed
  <2>5. \A k \in 1..Len(ev) : ev[k].id \in 0..next
    BY <2>3 DEF Typed
  <2>. QED
    BY <1>1, <1>2, <2>1, <2>2, <2>3, <2>4, <2>5 DEF Typed
<1>7. InOrder(q2, ev)
  <2>. SUFFICES ASSUME NEW i \in 1..Len(q2), IsEvent(q2[i])
                PROVE  /\ \A j \in 1..Len(q2) : IsEvent(q2[j]) /\ i < j => q2[i].id < q2[j].id
                       /\ \A k \in 1..Len(ev) : ev[k].id < q2[i].id
    BY DEF InOrder
  <2>1. CASE i \in 1..Len(q)
    BY <1>2, <1>3, <1>4, <2>1 DEF InOrder
  <2>2. CASE i = Len(q) + 1 /\ q2[i] = m
    BY <1>1, <1>2, <1>5, <2>2
  <2>. QED
    BY <1>3, <2>1, <2>2
<1>8. StacksOnce(q2, pend \cup {next}, tak)
  <2>1. next \notin tak /\ (pend \cup {next}) \cap tak = {}
    BY <1>1 DEF Typed, StacksOnce
  <2>2. ASSUME NEW i \in 1..Len(q2), IsEvent(q2[i])
        PROVE  q2[i].id \notin tak
    BY <1>2, <1>3, <2>1, <2>2 DEF StacksOnce
  <2>3. ASSUME NEW i \in 1..Len(q2), IsStack(q2[i])
        PROVE  /\ q2[i].id \notin (pend \cup {next}) \cup tak
               /\ \A j \in 1..Len(q2) : IsStack(q2[j]) /\ i # j => q2[i].id # q2[j].id
               /\ \A j \in 1..Len(q2) : IsEvent(q2[j]) /\ q2[i].id = q2[j].id => j < i
    <3>1. i \in 1..Len(q) /\ q2[i] = q[i]
      BY <1>2, <1>3, <2>3 DEF IsStack
    <3>2. q[i].id # next
      BY <1>1, <1>4, <3>1
    <3>3. q2[i].id \notin (pend \cup {next}) \cup tak
      BY <2>3, <3>1, <3>2 DEF StacksOnce
    <3>4. ASSUME NEW j \in 1..Len(q2), IsStack(q2[j]), i # j
          PROVE  q2[i].id # q2[j].id
      <4>1. j \in 1..Len(q) /\ q2[j] = q[j]
        BY <1>2, <1>3, <3>4 DEF IsStack
      <4>. QED
        BY <2>3, <3>1, <3>4, <4>1 DEF StacksOnce
    <3>5. ASSUME NEW j \in 1..Len(q2), IsEvent(q2[j]), q2[i].id = q2[j].id
          PROVE  j < i
      <4>1. j \in 1..Len(q) /\ q2[j] = q[j]
        BY <1>2, <1>3, <3>1, <3>2, <3>5
      <4>. QED
        BY <2>3, <3>1, <3>5, <4>1 DEF StacksOnce
    <3>. QED
      BY <3>3, <3>4, <3>5
  <2>. QED
    BY <2>1, <2>2, <2>3 DEF StacksOnce
<1>. QED
  BY <1>6, <1>7, <1>8 DEF q2

\* A message that is neither an event nor a call stack.
LEMMA SendSilentSound ==
    ASSUME NEW q, NEW ev, NEW pend, NEW tak, NEW next, Sound(q, ev, pend, tak, next),
           NEW m \in Message, m.kind = "image", m.id = 0
    PROVE  Sound(Append(q, m), ev, pend, tak, next)
<1>. DEFINE q2 == Append(q, m)
<1>. USE DEF Sound
<1>1. q \in Seq(Message) /\ Len(q) \in Nat /\ next \in Nat \ {0}
  BY LenProperties DEF Typed
<1>2. /\ q2 \in Seq(Message) /\ Len(q2) = Len(q) + 1
      /\ \A i \in 1..Len(q) : q2[i] = q[i]
      /\ q2[Len(q) + 1] = m
  BY <1>1, AppendProperties
<1>. HIDE DEF q2
<1>3. \A i \in 1..Len(q2) : i \in 1..Len(q) \/ (i = Len(q) + 1 /\ q2[i] = m)
  BY <1>1, <1>2
<1>4. ~IsEvent(m) /\ ~IsStack(m)
  BY DEF IsEvent, IsStack
<1>5. Typed(q2, ev, pend, tak, next)
  <2>1. \A i \in 1..Len(q2) : q2[i].id < next
    BY <1>1, <1>2, <1>3 DEF Typed
  <2>2. \A i \in 1..Len(q2) : q2[i].kind \notin {"image", "stack"} => q2[i].id # 0
    BY <1>2, <1>3 DEF Typed
  <2>. QED
    BY <1>2, <2>1, <2>2 DEF Typed
<1>6. InOrder(q2, ev)
  BY <1>2, <1>3, <1>4 DEF InOrder
<1>7. StacksOnce(q2, pend, tak)
  BY <1>2, <1>3, <1>4 DEF StacksOnce
<1>. QED
  BY <1>5, <1>6, <1>7 DEF q2

\* A call stack is sent once, after its event.
LEMMA SendStackSound ==
    ASSUME NEW q, NEW ev, NEW pend, NEW tak, NEW next, Sound(q, ev, pend, tak, next),
           NEW m \in Message, m.kind = "stack", m.id \in pend
    PROVE  Sound(Append(q, m), ev, pend \ {m.id}, tak, next)
<1>. DEFINE q2 == Append(q, m)
            pend2 == pend \ {m.id}
<1>. USE DEF Sound
<1>1. q \in Seq(Message) /\ Len(q) \in Nat /\ next \in Nat \ {0}
  BY LenProperties DEF Typed
<1>2. /\ q2 \in Seq(Message) /\ Len(q2) = Len(q) + 1
      /\ \A i \in 1..Len(q) : q2[i] = q[i]
      /\ q2[Len(q) + 1] = m
  BY <1>1, AppendProperties
<1>. HIDE DEF q2
<1>3. \A i \in 1..Len(q2) : i \in 1..Len(q) \/ (i = Len(q) + 1 /\ q2[i] = m)
  BY <1>1, <1>2
<1>4. ~IsEvent(m) /\ IsStack(m) /\ m.id < next
  <2>1. m.id \in 0..(next - 1)
    BY DEF Typed
  <2>. QED
    BY <1>1, <2>1 DEF IsEvent, IsStack
<1>5. Typed(q2, ev, pend2, tak, next)
  BY <1>1, <1>2, <1>3, <1>4 DEF Typed
<1>6. InOrder(q2, ev)
  BY <1>2, <1>3, <1>4 DEF InOrder
<1>7. StacksOnce(q2, pend2, tak)
  <2>1. pend2 \cap tak = {} /\ m.id \notin pend2 \cup tak
    BY DEF StacksOnce
  <2>2. ASSUME NEW i \in 1..Len(q2), IsEvent(q2[i])
        PROVE  q2[i].id \notin tak
    BY <1>2, <1>3, <1>4, <2>2 DEF StacksOnce
  <2>3. ASSUME NEW i \in 1..Len(q2), IsStack(q2[i])
        PROVE  q2[i].id \notin pend2 \cup tak
    BY <1>2, <1>3, <2>1, <2>3 DEF StacksOnce
  <2>4. ASSUME NEW i \in 1..Len(q2), NEW j \in 1..Len(q2),
               IsStack(q2[i]), IsStack(q2[j]), i # j
        PROVE  q2[i].id # q2[j].id
    <3>1. CASE i \in 1..Len(q) /\ j \in 1..Len(q)
      BY <1>2, <2>4, <3>1 DEF StacksOnce
    <3>2. CASE i \in 1..Len(q) /\ q2[j] = m
      BY <1>2, <2>4, <3>2 DEF StacksOnce
    <3>3. CASE q2[i] = m /\ j \in 1..Len(q)
      BY <1>2, <2>4, <3>3 DEF StacksOnce
    <3>. QED
      BY <1>3, <2>4, <3>1, <3>2, <3>3
  <2>5. ASSUME NEW i \in 1..Len(q2), NEW j \in 1..Len(q2),
               IsStack(q2[i]), IsEvent(q2[j]), q2[i].id = q2[j].id
        PROVE  j < i
    <3>1. j \in 1..Len(q) /\ q2[j] = q[j]
      BY <1>2, <1>3, <1>4, <2>5
    <3>2. CASE i \in 1..Len(q)
      BY <1>2, <2>5, <3>1, <3>2 DEF StacksOnce
    <3>3. CASE i = Len(q) + 1
      BY <1>1, <3>1, <3>3
    <3>. QED
      BY <1>3, <3>2, <3>3
  <2>. QED
    BY <2>1, <2>2, <2>3, <2>4, <2>5 DEF StacksOnce
<1>. QED
  BY <1>5, <1>6, <1>7 DEF q2

-----------------------------------------------------------------------------
(* Messages are handled. *)

\* What is left in the queue is still in order.
LEMMA TailSound ==
    ASSUME NEW q, NEW ev, NEW pend, NEW tak, NEW next,
           Typed(q, ev, pend, tak, next), InOrder(q, ev), StacksOnce(q, pend, tak), q # <<>>
    PROVE  /\ Typed(Tail(q), ev, pend, tak, next)
           /\ InOrder(Tail(q), ev)
           /\ StacksOnce(Tail(q), pend, tak)
           /\ Len(Tail(q)) = Len(q) - 1 /\ Len(q) \in Nat \ {0} /\ Head(q) = q[1]
           /\ \A i \in 1..Len(Tail(q)) : i + 1 \in 2..Len(q) /\ Tail(q)[i] = q[i + 1]
<1>. DEFINE q2 == Tail(q)
<1>1. q \in Seq(Message) /\ Len(q) \in Nat \ {0} /\ Head(q) = q[1]
  <2>1. q \in Seq(Message) /\ Len(q) \in Nat
    BY LenProperties DEF Typed
  <2>2. Len(q) # 0
    BY <2>1, EmptySeq
  <2>. QED
    BY <2>1, <2>2
<1>2. /\ q2 \in Seq(Message) /\ Len(q2) = Len(q) - 1
      /\ \A i \in 1..Len(q2) : q2[i] = q[i + 1]
  BY <1>1, HeadTailProperties
<1>. HIDE DEF q2
<1>3. \A i \in 1..Len(q2) : i \in Nat /\ i + 1 \in 2..Len(q) /\ i + 1 \in 1..Len(q)
  BY <1>1, <1>2
<1>4. Typed(q2, ev, pend, tak, next)
  BY <1>1, <1>2, <1>3 DEF Typed
<1>5. InOrder(q2, ev)
  <2>. SUFFICES ASSUME NEW i \in 1..Len(q2), IsEvent(q2[i])
                PROVE  /\ \A j \in 1..Len(q2) : IsEvent(q2[j]) /\ i < j => q2[i].id < q2[j].id
                       /\ \A k \in 1..Len(ev) : ev[k].id < q2[i].id
    BY DEF InOrder
  <2>1. q2[i] = q[i + 1] /\ i + 1 \in 1..Len(q)
    BY <1>2, <1>3
  <2>2. \A k \in 1..Len(ev) : ev[k].id < q2[i].id
    BY <2>1 DEF InOrder
  <2>3. ASSUME NEW j \in 1..Len(q2), IsEvent(q2[j]), i < j
        PROVE  q2[i].id < q2[j].id
    <3>1. q2[j] = q[j + 1] /\ j + 1 \in 1..Len(q) /\ i + 1 < j + 1
      BY <1>2, <1>3, <2>3
    <3>. QED
      BY <2>1, <2>3, <3>1 DEF InOrder
  <2>. QED
    BY <2>2, <2>3
<1>6. StacksOnce(q2, pend, tak)
  <2>. SUFFICES ASSUME NEW i \in 1..Len(q2)
                PROVE  /\ IsEvent(q2[i]) => q2[i].id \notin tak
                       /\ IsStack(q2[i]) =>
                            /\ q2[i].id \notin pend \cup tak
                            /\ \A j \in 1..Len(q2) :
                                 IsStack(q2[j]) /\ i # j => q2[i].id # q2[j].id
                            /\ \A j \in 1..Len(q2) :
                                 IsEvent(q2[j]) /\ q2[i].id = q2[j].id => j < i
    BY DEF StacksOnce
  <2>1. q2[i] = q[i + 1] /\ i + 1 \in 1..Len(q)
    BY <1>2, <1>3
  <2>2. /\ IsEvent(q2[i]) => q2[i].id \notin tak
        /\ IsStack(q2[i]) => q2[i].id \notin pend \cup tak
    BY <2>1 DEF StacksOnce
  <2>3. ASSUME NEW j \in 1..Len(q2), IsStack(q2[i])
        PROVE  /\ IsStack(q2[j]) /\ i # j => q2[i].id # q2[j].id
               /\ IsEvent(q2[j]) /\ q2[i].id = q2[j].id => j < i
    <3>1. /\ q2[j] = q[j + 1] /\ j + 1 \in 1..Len(q)
          /\ i # j => i + 1 # j + 1
          /\ j + 1 < i + 1 => j < i
      BY <1>2, <1>3
    <3>. QED
      BY <2>1, <2>3, <3>1 DEF StacksOnce
  <2>. QED
    BY <2>2, <2>3
<1>. QED
  BY <1>1, <1>2, <1>3, <1>4, <1>5, <1>6 DEF q2

LEMMA SeqSubset ==
    ASSUME NEW S, NEW T, S \subseteq T, NEW l \in Seq(S)
    PROVE  l \in Seq(T)
<1>1. Len(l) \in Nat /\ l \in [1..Len(l) -> S]
  BY LenProperties
<1>2. l \in [1..Len(l) -> T]
  BY <1>1
<1>. QED
  BY <1>1, <1>2

\* What a handler records of a message: nothing, or an event, or both sides of
\* a creation.
Records(m, new) ==
    /\ \E P : new \in Seq(EventOf(P))
    /\ Len(new) \in {0, 1, 2}
    /\ Len(new) # 0 => IsEvent(m)
    /\ \A k \in 1..Len(new) : new[k].id = m.id /\ new[k].stack = 0
    /\ Len(new) = 2 => /\ <<new[1].type, new[2].type>> \in Pairs
                       /\ new[1].target = new[2].proc

LEMMA RecordSound ==
    ASSUME NEW q, NEW ev, NEW pend, NEW tak, NEW next, Sound(q, ev, pend, tak, next),
           q # <<>>, NEW new, Records(Head(q), new)
    PROVE  Sound(Tail(q), ev \o new, pend, tak, next)
<1>. DEFINE ev2 == ev \o new
            rest == Tail(q)
<1>. USE DEF Sound
<1>1. /\ Typed(rest, ev, pend, tak, next) /\ InOrder(rest, ev) /\ StacksOnce(rest, pend, tak)
      /\ Len(rest) = Len(q) - 1 /\ Len(q) \in Nat \ {0} /\ Head(q) = q[1]
      /\ \A i \in 1..Len(rest) : i + 1 \in 2..Len(q) /\ rest[i] = q[i + 1]
  BY TailSound
<1>2. /\ Len(ev) \in Nat /\ Len(new) \in Nat
      /\ \E P : ev2 \in Seq(EventOf(P))
      /\ Len(ev2) = Len(ev) + Len(new)
      /\ \A k \in 1..(Len(ev) + Len(new)) :
           ev2[k] = IF k <= Len(ev) THEN ev[k] ELSE new[k - Len(ev)]
  <2>1. PICK P : ev \in Seq(EventOf(P))
    BY DEF Typed
  <2>2. PICK Q : new \in Seq(EventOf(Q))
    BY DEF Records
  <2>3. EventOf(P) \subseteq EventOf(P \cup Q) /\ EventOf(Q) \subseteq EventOf(P \cup Q)
    BY DEF EventOf
  <2>4. ev \in Seq(EventOf(P \cup Q)) /\ new \in Seq(EventOf(P \cup Q))
    BY <2>1, <2>2, <2>3, SeqSubset
  <2>. QED
    BY <2>4, ConcatProperties, LenProperties
<1>. HIDE DEF ev2, rest
<1>3. \A k \in 1..Len(ev2) :
        \/ k \in 1..Len(ev) /\ ev2[k] = ev[k]
        \/ /\ k - Len(ev) \in 1..Len(new) /\ k > Len(ev)
           /\ ev2[k] = new[k - Len(ev)]
  BY <1>2
<1>4. q[1] \in Message /\ q[1].id \in Nat /\ q[1].id < next /\ next \in Nat \ {0}
  <2>1. q \in Seq(Message) /\ 1 \in 1..Len(q)
    BY <1>1 DEF Typed
  <2>2. q[1] \in Message
    BY <2>1
  <2>. QED
    BY <2>1, <2>2 DEF Typed, Message
<1>5. /\ Len(new) # 0 => IsEvent(q[1])
      /\ \A k \in 1..Len(new) : new[k].id = q[1].id /\ new[k].stack = 0
  BY <1>1 DEF Records
<1>6. ASSUME Len(new) # 0
      PROVE  /\ IsEvent(q[1]) /\ q[1].id \notin tak
             /\ \A k \in 1..Len(ev) : ev[k].id < q[1].id
             /\ \A i \in 1..Len(rest) : IsEvent(rest[i]) => q[1].id < rest[i].id
  <2>1. IsEvent(q[1]) /\ 1 \in 1..Len(q)
    BY <1>1, <1>5, <1>6
  <2>2. \A i \in 1..Len(rest) : i + 1 \in 1..Len(q) /\ 1 < i + 1 /\ rest[i] = q[i + 1]
    BY <1>1
  <2>3. q[1].id \notin tak /\ \A k \in 1..Len(ev) : ev[k].id < q[1].id
    BY <2>1 DEF StacksOnce, InOrder
  <2>4. \A i \in 1..Len(rest) : IsEvent(rest[i]) => q[1].id < rest[i].id
    BY <2>1, <2>2 DEF InOrder
  <2>. QED
    BY <2>1, <2>3, <2>4
<1>7. Typed(rest, ev2, pend, tak, next)
  <2>1. ASSUME NEW k \in 1..Len(ev2)
        PROVE  ev2[k].id \in 0..(next - 1)
    <3>1. CASE k \in 1..Len(ev) /\ ev2[k] = ev[k]
      BY <3>1 DEF Typed
    <3>2. CASE k - Len(ev) \in 1..Len(new) /\ ev2[k] = new[k - Len(ev)]
      BY <1>4, <1>5, <3>2
    <3>. QED
      BY <1>3, <3>1, <3>2
  <2>. QED
    BY <1>1, <1>2, <2>1 DEF Typed
<1>8. InOrder(rest, ev2)
  <2>. SUFFICES ASSUME NEW i \in 1..Len(rest), IsEvent(rest[i]), NEW k \in 1..Len(ev2)
                PROVE  ev2[k].id < rest[i].id
    BY <1>1 DEF InOrder
  <2>1. CASE k \in 1..Len(ev) /\ ev2[k] = ev[k]
    BY <1>1, <2>1 DEF InOrder
  <2>2. CASE k - Len(ev) \in 1..Len(new) /\ ev2[k] = new[k - Len(ev)]
    <3>1. Len(new) # 0
      BY <1>2, <2>2
    <3>. QED
      BY <1>5, <1>6, <2>2, <3>1
  <2>. QED
    BY <1>3, <2>1, <2>2
<1>9. Ordered(ev2)
  <2>. SUFFICES ASSUME NEW i \in 1..Len(ev2), NEW j \in 1..Len(ev2), i < j
                PROVE  /\ ev2[i].id <= ev2[j].id
                       /\ ev2[i].id = ev2[j].id =>
                            /\ j = i + 1
                            /\ <<ev2[i].type, ev2[j].type>> \in Pairs
                            /\ ev2[i].target = ev2[j].proc
    BY DEF Ordered
  <2>1. CASE i \in 1..Len(ev) /\ j \in 1..Len(ev)
    <3>1. ev2[i] = ev[i] /\ ev2[j] = ev[j]
      BY <1>2, <1>3, <2>1
    <3>. QED
      BY <2>1, <3>1 DEF Ordered
  <2>2. CASE i \in 1..Len(ev) /\ j - Len(ev) \in 1..Len(new)
    <3>1. ev2[i] = ev[i] /\ ev2[j] = new[j - Len(ev)]
      BY <1>2, <1>3, <2>2
    <3>2. Len(new) # 0
      BY <1>2, <2>2
    <3>3. ev2[i].id < ev2[j].id /\ ev2[i].id \in Nat /\ ev2[j].id \in Nat
      <4>1. ev[i].id < q[1].id /\ ev[i].id \in Nat
        BY <1>4, <1>6, <2>2, <3>2 DEF Typed
      <4>. QED
        BY <1>4, <1>5, <2>2, <3>1, <4>1
    <3>. QED
      BY <3>3
  <2>3. CASE i - Len(ev) \in 1..Len(new) /\ j - Len(ev) \in 1..Len(new)
    <3>1. Len(new) \in {0, 1, 2}
      BY DEF Records
    <3>2. Len(new) = 2 /\ i - Len(ev) = 1 /\ j - Len(ev) = 2 /\ j = i + 1
      <4>1. /\ Len(ev) \in Nat /\ i \in Int /\ j \in Int /\ i < j
            /\ i - Len(ev) >= 1 /\ j - Len(ev) <= Len(new)
        BY <1>2, <2>3
      <4>2. i - Len(ev) < j - Len(ev) /\ j - Len(ev) >= 2 /\ Len(new) >= 2
        BY <1>2, <4>1
      <4>3. Len(new) # 0 /\ Len(new) # 1
        BY <1>2, <4>2
      <4>4. Len(new) = 2
        BY <3>1, <4>3
      <4>. QED
        BY <4>1, <4>2, <4>4
    <3>3. ev2[i] = new[1] /\ ev2[j] = new[2]
      BY <1>2, <1>3, <2>3, <3>2
    <3>4. new[1].id = q[1].id /\ new[2].id = q[1].id
      BY <1>5, <3>2
    <3>5. <<new[1].type, new[2].type>> \in Pairs /\ new[1].target = new[2].proc
      BY <3>2 DEF Records
    <3>6. ev2[i].id = q[1].id /\ ev2[j].id = q[1].id
      BY <3>3, <3>4
    <3>7. <<ev2[i].type, ev2[j].type>> \in Pairs /\ ev2[i].target = ev2[j].proc
      BY <3>3, <3>5
    <3>8. q[1].id \in Nat /\ q[1].id <= q[1].id
      BY <1>4
    <3>. HIDE DEF ev2
    <3>. QED
      BY <3>2, <3>6, <3>7, <3>8
  <2>4. \/ i \in 1..Len(ev) /\ j \in 1..Len(ev)
        \/ i \in 1..Len(ev) /\ j - Len(ev) \in 1..Len(new)
        \/ i - Len(ev) \in 1..Len(new) /\ j - Len(ev) \in 1..Len(new)
    BY <1>2
  <2>. QED
    BY <2>1, <2>2, <2>3, <2>4
<1>10. Attached(ev2, tak)
  <2>. SUFFICES ASSUME NEW k \in 1..Len(ev2)
                PROVE  ev2[k].stack =
                         IF ev2[k].id \in tak /\ ev2[k].type \notin Refuses THEN 1 ELSE 0
    BY DEF Attached
  <2>1. CASE k \in 1..Len(ev) /\ ev2[k] = ev[k]
    BY <2>1 DEF Attached
  <2>2. CASE k - Len(ev) \in 1..Len(new) /\ ev2[k] = new[k - Len(ev)]
    <3>1. Len(new) # 0
      BY <1>2, <2>2
    <3>2. ev2[k].stack = 0 /\ ev2[k].id \notin tak
      BY <1>5, <1>6, <2>2, <3>1
    <3>. QED
      BY <3>2
  <2>. QED
    BY <1>3, <2>1, <2>2
<1>. QED
  BY <1>1, <1>7, <1>8, <1>9, <1>10 DEF ev2, rest

\* A call stack finds the one event it belongs to, if that was recorded.
LEMMA MatchesOne ==
    ASSUME Typed(queue, events, pending, taken, nextId), Ordered(events), NEW id
    PROVE  \A i, j \in Matches(id) : i = j
<1>. SUFFICES ASSUME NEW i \in Matches(id), NEW j \in Matches(id), i < j
              PROVE  FALSE
  <2>1. Matches(id) \subseteq 1..Len(events) /\ Len(events) \in Nat
    BY LenProperties DEF Matches, Typed
  <2>2. \A i, j \in Matches(id) : i < j \/ j < i \/ i = j
    BY <2>1
  <2>. QED
    BY <2>2
<1>1. events[i].id = events[j].id /\ events[j].type \notin Refuses
  BY DEF Matches
<1>2. <<events[i].type, events[j].type>> \in Pairs
  BY <1>1 DEF Matches, Ordered
<1>. QED
  BY <1>1, <1>2 DEF Pairs, Refuses

\* If the walk of FindEventById stops at an older event, there is none.
LEMMA NoneMatches ==
    ASSUME Typed(queue, events, pending, taken, nextId), Ordered(events),
           NEW id \in Nat, LookUp(id) # "found"
    PROVE  Matches(id) = {}
<1>1. CASE events # <<>> /\ id > events[Len(events)].id
  <2>. SUFFICES ASSUME NEW i \in Matches(id) PROVE FALSE
    OBVIOUS
  <2>1. i \in 1..Len(events) /\ events[i].id = id /\ Len(events) \in Nat
    BY LenProperties DEF Matches, Typed
  <2>2. events[i].id \in Nat /\ events[Len(events)].id \in Nat
    BY <2>1 DEF Typed
  <2>3. events[i].id <= events[Len(events)].id
    <3>1. CASE i = Len(events)
      BY <2>2, <3>1
    <3>2. CASE i < Len(events)
      <4>1. Len(events) \in 1..Len(events)
        BY <2>1
      <4>. QED
        BY <2>1, <3>2, <4>1 DEF Ordered
    <3>. QED
      BY <2>1, <3>1, <3>2
  <2>. QED
    BY <1>1, <2>1, <2>2, <2>3
<1>2. CASE ~(events # <<>> /\ id > events[Len(events)].id)
  BY <1>2 DEF LookUp
<1>. QED
  BY <1>1, <1>2

LEMMA OnCallStackSound ==
    ASSUME Sound(queue, events, pending, taken, nextId), OnCallStack
    PROVE  Sound(queue, events, pending, taken, nextId)'
<1>. DEFINE id == Head(queue).id
            rest == Tail(queue)
<1>. USE DEF Sound
<1>1. /\ queue # <<>> /\ Head(queue).kind = "stack" /\ queue' = rest
      /\ taken' = taken \cup {id} /\ pending' = pending /\ nextId' = nextId
      /\ events' = IF LookUp(id) = "found"
                     THEN [events EXCEPT ![Newest(Matches(id))].stack = @ + 1]
                     ELSE events
  BY DEF OnCallStack, Dispatch, sys
<1>2. /\ Typed(rest, events, pending, taken, nextId) /\ InOrder(rest, events)
      /\ StacksOnce(rest, pending, taken)
      /\ Len(rest) = Len(queue) - 1 /\ Len(queue) \in Nat \ {0} /\ Head(queue) = queue[1]
      /\ \A i \in 1..Len(rest) : i + 1 \in 2..Len(queue) /\ rest[i] = queue[i + 1]
  BY <1>1, TailSound
<1>3. IsStack(queue[1]) /\ id = queue[1].id /\ 1 \in 1..Len(queue)
  BY <1>1, <1>2 DEF IsStack
<1>4. id \in Nat /\ id < nextId /\ nextId \in Nat \ {0} /\ id \notin pending \cup taken
  <2>1. queue[1] \in Message
    BY <1>2, <1>3 DEF Typed
  <2>. QED
    BY <1>3, <2>1 DEF Typed, StacksOnce, Message
<1>5. \A i \in 1..Len(rest) :
        /\ IsEvent(rest[i]) => rest[i].id # id
        /\ IsStack(rest[i]) => rest[i].id # id
  <2>1. \A i \in 1..Len(rest) : /\ i + 1 \in 1..Len(queue) /\ i + 1 # 1 /\ ~(i + 1 < 1)
                                /\ rest[i] = queue[i + 1]
    BY <1>2
  <2>. QED
    BY <1>3, <2>1 DEF StacksOnce
<1>. HIDE DEF rest, id
<1>6. /\ Len(events') = Len(events) /\ \E P : events' \in Seq(EventOf(P))
      /\ \A k \in 1..Len(events) :
           /\ events'[k].id = events[k].id /\ events'[k].type = events[k].type
           /\ events'[k].target = events[k].target /\ events'[k].proc = events[k].proc
           /\ events'[k].stack = IF k \in Matches(id) THEN events[k].stack + 1 ELSE events[k].stack
  <2>1. PICK P : events \in Seq(EventOf(P))
    BY DEF Typed
  <2>2. Len(events) \in Nat /\ \A k \in 1..Len(events) : events[k] \in EventOf(P)
    BY <2>1, LenProperties
  <2>3. CASE LookUp(id) # "found"
    <3>1. Matches(id) = {} /\ events' = events
      BY <1>1, <1>4, <2>3, NoneMatches
    <3>. QED
      BY <2>1, <3>1
  <2>4. CASE LookUp(id) = "found"
    <3>1. PICK n \in Matches(id) : TRUE
      BY <2>4 DEF LookUp
    <3>2. Matches(id) = {n} /\ n \in 1..Len(events)
      <4>1. \A i, j \in Matches(id) : i = j
        BY MatchesOne
      <4>2. n \in 1..Len(events)
        BY DEF Matches
      <4>. QED
        BY <4>1, <4>2
    <3>3. Newest(Matches(id)) = n
      <4>1. n <= n
        BY <3>2
      <4>2. Newest({n}) = n
        BY <4>1 DEF Newest
      <4>. QED
        BY <3>2, <4>2
    <3>4. events' = [events EXCEPT ![n].stack = @ + 1]
      BY <1>1, <2>4, <3>3
    <3>5. events[n] \in EventOf(P)
      BY <2>2, <3>2
    <3>. DEFINE new == [events[n] EXCEPT !.stack = events[n].stack + 1]
    <3>6. /\ new \in EventOf(P) /\ new.id = events[n].id /\ new.type = events[n].type
          /\ new.target = events[n].target /\ new.proc = events[n].proc
          /\ new.stack = events[n].stack + 1
      <4>1. events[n].stack + 1 \in Nat
        BY <3>5 DEF EventOf
      <4>. QED
        BY <3>5, <4>1 DEF EventOf
    <3>7. events' = [events EXCEPT ![n] = new]
      BY <3>4
    <3>. HIDE DEF new
    <3>8. /\ events' \in Seq(EventOf(P)) /\ Len(events') = Len(events)
          /\ \A k \in 1..Len(events) : events'[k] = IF k = n THEN new ELSE events[k]
      BY <2>1, <3>2, <3>6, <3>7
    <3>. QED
      BY <3>2, <3>6, <3>8
  <2>. QED
    BY <2>3, <2>4
<1>7. Typed(rest, events', pending, taken', nextId)
  <2>1. taken' \subseteq 0..(nextId - 1)
    BY <1>1, <1>2, <1>4 DEF Typed
  <2>. QED
    BY <1>2, <1>6, <2>1 DEF Typed
<1>8. InOrder(rest, events')
  BY <1>2, <1>6 DEF InOrder
<1>9. StacksOnce(rest, pending, taken')
  BY <1>1, <1>2, <1>4, <1>5 DEF StacksOnce
<1>10. Ordered(events')
  BY <1>6 DEF Ordered
<1>11. Attached(events', taken')
  <2>. SUFFICES ASSUME NEW k \in 1..Len(events)
                PROVE  events'[k].stack =
                         IF events'[k].id \in taken' /\ events'[k].type \notin Refuses THEN 1 ELSE 0
    BY <1>6 DEF Attached
  <2>1. events[k].stack = IF events[k].id \in taken /\ events[k].type \notin Refuses THEN 1 ELSE 0
    BY DEF Attached
  <2>2. k \in Matches(id) <=> events[k].id = id /\ events[k].type \notin Refuses
    BY DEF Matches
  <2>. QED
    BY <1>1, <1>4, <1>6, <2>1, <2>2
<1>. QED
  BY <1>1, <1>7, <1>8, <1>9, <1>10, <1>11

-----------------------------------------------------------------------------
(* The steps. *)

\* The worker starts with at most one creation queued.
LEMMA InitIInv == Init => IInv
<1>. SUFFICES ASSUME Init PROVE IInv
  OBVIOUS
<1>1. events = <<>> /\ taken = {} /\ crash = "no"
  BY DEF Init
<1>2. PICK late \in SUBSET live :
        /\ pending = IF late = {} THEN {} ELSE {FirstId}
        /\ nextId = IF late = {} THEN FirstId ELSE FirstId + 1
        /\ queue = IF late = {} THEN <<>>
                   ELSE <<[kind |-> "process", id |-> FirstId, pid |-> CHOOSE p \in late : TRUE,
                           other |-> SystemPid, flag |-> TRUE]>>
  BY DEF Init
<1>3. live \subseteq Pids /\ FirstId \in Nat \ {0, 1}
  BY IdsAssumption DEF Init
<1>4. CASE late = {}
  <2>1. queue = <<>> /\ pending = {} /\ nextId = FirstId
    BY <1>2, <1>4
  <2>2. Len(queue) = 0 /\ Len(events) = 0
    BY <1>1, <2>1
  <2>3. queue \in Seq(Message) /\ events \in Seq(EventOf({}))
    BY <1>1, <2>1
  <2>4. Typed(queue, events, pending, taken, nextId)
    BY <1>1, <1>3, <2>1, <2>2, <2>3 DEF Typed
  <2>. QED
    BY <1>1, <2>1, <2>2, <2>4
       DEF IInv, Sound, InOrder, StacksOnce, Ordered, Attached
<1>5. CASE late # {}
  <2>. DEFINE m == [kind |-> "process", id |-> FirstId, pid |-> CHOOSE p \in late : TRUE,
                    other |-> SystemPid, flag |-> TRUE]
  <2>1. queue = <<m>> /\ pending = {FirstId} /\ nextId = FirstId + 1
    BY <1>2, <1>5
  <2>2. m \in Message /\ m.id = FirstId /\ m.kind = "process"
    BY <1>3, <1>5 DEF Message, Kinds, Parents
  <2>. HIDE DEF m
  <2>3. queue \in Seq(Message) /\ Len(queue) = 1 /\ queue[1] = m
    BY <2>1, <2>2
  <2>4. events \in Seq(EventOf({})) /\ Len(events) = 0
    BY <1>1
  <2>5. \A i \in 1..Len(queue) : i = 1 /\ queue[i] = m
    BY <2>3
  <2>6. Typed(queue, events, pending, taken, nextId)
    <3>1. nextId \in Nat \ {0} /\ pending \subseteq 0..(nextId - 1)
      BY <1>3, <2>1
    <3>2. m.id < nextId /\ m.id # 0
      BY <1>3, <2>1, <2>2
    <3>. QED
      BY <1>1, <2>3, <2>4, <2>5, <3>1, <3>2 DEF Typed
  <2>7. InOrder(queue, events)
    BY <2>4, <2>5 DEF InOrder
  <2>8. StacksOnce(queue, pending, taken)
    <3>1. ~IsStack(m)
      BY <2>2 DEF IsStack
    <3>. QED
      BY <1>1, <2>5, <3>1 DEF StacksOnce
  <2>. QED
    BY <1>1, <2>4, <2>6, <2>7, <2>8
       DEF IInv, Sound, Ordered, Attached
<1>. QED
  BY <1>4, <1>5

LEMMA SendEventIInv ==
    ASSUME IInv, NEW kind \in Kinds, kind # "stack", NEW pid \in Parents, NEW other \in Parents,
           NEW flag \in BOOLEAN, SendEvent(kind, pid, other, flag)
    PROVE  IInv'
<1>. DEFINE m == [kind |-> kind, id |-> nextId, pid |-> pid, other |-> other, flag |-> flag]
<1>1. /\ queue' = Append(queue, m) /\ events' = events /\ taken' = taken
      /\ pending' = pending \cup {nextId} /\ nextId' = nextId + 1 /\ crash' = "no"
  BY DEF SendEvent, Send
<1>2. m \in Message /\ m.kind # "stack" /\ m.id = nextId
  BY DEF IInv, Sound, Typed, Message
<1>. HIDE DEF m
<1>3. Sound(Append(queue, m), events, pending \cup {nextId}, taken, nextId + 1)
  BY <1>2, SendEventSound DEF IInv
<1>. QED
  BY <1>1, <1>3 DEF IInv

LEMMA DriverIInv == IInv /\ Driver => IInv'
<1>. SUFFICES ASSUME IInv, Driver PROVE IInv'
  OBVIOUS
<1>1. ASSUME NEW p \in Pids, NEW parent \in Parents, OsCreate(p, parent) PROVE IInv'
  BY <1>1, SendEventIInv DEF OsCreate, Kinds, Parents
<1>2. ASSUME NEW p \in Pids, OsExit(p) PROVE IInv'
  BY <1>2, SendEventIInv DEF OsExit, Kinds, Parents
<1>3. ASSUME NEW p \in Pids, NEW other \in Parents, NEW kind \in Kinds, NEW flag \in BOOLEAN,
             OsAct(p, kind, other, flag)
      PROVE  IInv'
  <2>1. kind # "stack" /\ p \in Parents /\ SendEvent(kind, p, other, flag)
    BY <1>3 DEF OsAct, Parents
  <2>. QED
    BY <2>1, SendEventIInv
<1>4. ASSUME NEW p \in Pids, OsLoadSilently(p) PROVE IInv'
  <2>. DEFINE m == [kind |-> "image", id |-> 0, pid |-> p, other |-> SystemPid, flag |-> TRUE]
  <2>1. /\ queue' = Append(queue, m) /\ events' = events /\ taken' = taken
        /\ pending' = pending /\ nextId' = nextId /\ crash' = "no"
    BY <1>4 DEF OsLoadSilently, Send, sys
  <2>2. m \in Message /\ m.kind = "image" /\ m.id = 0
    BY DEF Message, Kinds, Parents
  <2>. HIDE DEF m
  <2>3. Sound(Append(queue, m), events, pending, taken, nextId)
    BY <2>2, SendSilentSound DEF IInv
  <2>. QED
    BY <2>1, <2>3 DEF IInv
<1>5. ASSUME NEW id \in pending, SendCallStack(id) PROVE IInv'
  <2>. DEFINE m == [kind |-> "stack", id |-> id, pid |-> SystemPid, other |-> SystemPid,
                    flag |-> TRUE]
  <2>1. /\ queue' = Append(queue, m) /\ events' = events /\ taken' = taken
        /\ pending' = pending \ {id} /\ nextId' = nextId /\ crash' = "no"
    BY <1>5 DEF SendCallStack, Send
  <2>2. m \in Message /\ m.kind = "stack" /\ m.id = id
    BY DEF IInv, Sound, Typed, Message, Kinds, Parents
  <2>. HIDE DEF m
  <2>3. Sound(Append(queue, m), events, pending \ {m.id}, taken, nextId)
    BY <2>2, SendStackSound DEF IInv
  <2>. QED
    BY <2>1, <2>2, <2>3 DEF IInv
<1>. QED
  BY <1>1, <1>2, <1>3, <1>4, <1>5 DEF Driver

\* A handler that records what a message says.
LEMMA HandlerIInv ==
    ASSUME IInv, crash = "no", queue # <<>>, queue' = Tail(queue),
           NEW new, Records(Head(queue), new), events' = events \o new,
           taken' = taken, crash' = crash, sys' = sys
    PROVE  IInv'
<1>1. Sound(Tail(queue), events \o new, pending, taken, nextId)
  BY RecordSound DEF IInv
<1>2. pending' = pending /\ nextId' = nextId
  BY DEF sys
<1>. QED
  BY <1>1, <1>2 DEF IInv

\* What is recorded of one message.
LEMMA RecordsNothing == \A m : Records(m, <<>>)
<1>1. <<>> \in Seq(EventOf({})) /\ Len(<<>>) = 0
  OBVIOUS
<1>. QED
  BY <1>1 DEF Records

LEMMA RecordsOne ==
    ASSUME NEW m, m.id \in Nat, IsEvent(m), NEW type \in Types, NEW proc, NEW target, NEW pid
    PROVE  Records(m, <<NewEvent(m.id, type, proc, target, pid)>>)
<1>. DEFINE e == NewEvent(m.id, type, proc, target, pid)
<1>1. e \in EventOf({proc, target, pid}) /\ e.id = m.id /\ e.stack = 0
  BY DEF NewEvent, EventOf
<1>. HIDE DEF e
<1>2. <<e>> \in Seq(EventOf({proc, target, pid})) /\ Len(<<e>>) = 1 /\ <<e>>[1] = e
  BY <1>1
<1>3. Records(m, <<e>>)
  BY <1>1, <1>2 DEF Records
<1>. QED
  BY <1>3 DEF e

LEMMA RecordsTwo ==
    ASSUME NEW m, m.id \in Nat, IsEvent(m), NEW type1 \in Types, NEW type2 \in Types,
           <<type1, type2>> \in Pairs,
           NEW creator, NEW p, NEW target, NEW pid1, NEW pid2
    PROVE  Records(m, <<NewEvent(m.id, type1, creator, p, pid1),
                        NewEvent(m.id, type2, p, target, pid2)>>)
<1>. DEFINE e1 == NewEvent(m.id, type1, creator, p, pid1)
            e2 == NewEvent(m.id, type2, p, target, pid2)
            P == {creator, p, target, pid1, pid2}
<1>1. /\ e1 \in EventOf(P) /\ e1.id = m.id /\ e1.stack = 0 /\ e1.type = type1 /\ e1.target = p
      /\ e2 \in EventOf(P) /\ e2.id = m.id /\ e2.stack = 0 /\ e2.type = type2 /\ e2.proc = p
  BY DEF NewEvent, EventOf
<1>. HIDE DEF e1, e2, P
<1>2. /\ <<e1, e2>> \in Seq(EventOf(P)) /\ Len(<<e1, e2>>) = 2
      /\ <<e1, e2>>[1] = e1 /\ <<e1, e2>>[2] = e2
  BY <1>1
<1>3. \A k \in 1..Len(<<e1, e2>>) : <<e1, e2>>[k].id = m.id /\ <<e1, e2>>[k].stack = 0
  BY <1>1, <1>2
<1>4. Records(m, <<e1, e2>>)
  BY <1>1, <1>2, <1>3 DEF Records
<1>. QED
  BY <1>4 DEF e1, e2

\* The message a handler takes.
LEMMA Taken ==
    ASSUME IInv, NEW kind, Dispatch(kind), sys' = sys
    PROVE  /\ queue # <<>> /\ queue' = Tail(queue) /\ crash = "no"
           /\ Head(queue).id \in Nat /\ Head(queue).kind = kind
           /\ kind # "stack" /\ Head(queue).id # 0 => IsEvent(Head(queue))
           /\ kind \notin {"image", "stack"} => IsEvent(Head(queue))
<1>1. queue # <<>> /\ queue' = Tail(queue) /\ crash = "no" /\ Head(queue).kind = kind
  BY DEF Dispatch
<1>2. Len(queue) \in Nat \ {0} /\ Head(queue) = queue[1] /\ queue \in Seq(Message)
  BY <1>1, TailSound DEF IInv, Sound, Typed
<1>3. 1 \in 1..Len(queue) /\ queue[1] \in Message
  BY <1>2
<1>4. Head(queue).id \in Nat
  BY <1>2, <1>3 DEF Message
<1>5. kind \notin {"image", "stack"} => Head(queue).id # 0
  BY <1>1, <1>2, <1>3 DEF IInv, Sound, Typed
<1>. QED
  BY <1>1, <1>4, <1>5 DEF IsEvent

LEMMA WorkerIInv == IInv /\ Worker => IInv'
<1>. SUFFICES ASSUME IInv, Worker PROVE IInv'
  OBVIOUS
<1>. DEFINE m == Head(queue)
<1>1. ASSUME OnPsCreateProcess PROVE IInv'
  <2>1. Dispatch("process") /\ taken' = taken /\ crash' = crash /\ sys' = sys
    BY <1>1 DEF OnPsCreateProcess
  <2>2. /\ queue # <<>> /\ queue' = Tail(queue) /\ crash = "no"
        /\ m.id \in Nat /\ IsEvent(m)
    BY <2>1, Taken
  <2>. DEFINE new(creator, p) == <<NewEvent(m.id, "CreateProcess", creator, p, m.other),
                                   NewEvent(m.id, "ProcessCreate", p, NULL, m.pid)>>
  <2>3. \/ events' = events \o <<>>
        \/ \E creator, p : events' = events \o new(creator, p)
    <3>1. CASE Find(list, idMap, m.pid) = NULL
      BY <1>1, <3>1, Zenon DEF OnPsCreateProcess, InsertEvents
    <3>2. CASE Find(list, idMap, m.pid) # NULL
      BY <1>1, <3>2, Zenon DEF OnPsCreateProcess, InsertEvents
    <3>. QED
      BY <3>1, <3>2
  <2>4. \A creator, p : Records(m, new(creator, p))
    BY <2>2, RecordsTwo DEF Types, Pairs
  <2>. HIDE DEF new
  <2>5. \E n : Records(m, n) /\ events' = events \o n
    BY <2>3, <2>4, RecordsNothing
  <2>. QED
    BY <2>1, <2>2, <2>5, HandlerIInv
<1>2. ASSUME OnPsDestroyProcess PROVE IInv'
  <2>1. Dispatch("process") /\ taken' = taken /\ crash' = crash /\ sys' = sys
    BY <1>2 DEF OnPsDestroyProcess
  <2>2. /\ queue # <<>> /\ queue' = Tail(queue) /\ crash = "no"
        /\ m.id \in Nat /\ IsEvent(m)
    BY <2>1, Taken
  <2>. DEFINE p == Find(list, idMap, m.pid)
              e == <<NewEvent(m.id, "ProcessDestroy", p, NULL, m.pid)>>
  <2>3. events' = events \o <<>> \/ events' = events \o e
    BY <1>2 DEF OnPsDestroyProcess, InsertEvents
  <2>4. Records(m, e)
    BY <2>2, RecordsOne DEF Types
  <2>. QED
    BY <2>1, <2>2, <2>3, <2>4, RecordsNothing, HandlerIInv
<1>3. ASSUME OnPsCreateThread PROVE IInv'
  <2>1. Dispatch("thread") /\ taken' = taken /\ crash' = crash /\ sys' = sys
    BY <1>3 DEF OnPsCreateThread
  <2>2. /\ queue # <<>> /\ queue' = Tail(queue) /\ crash = "no"
        /\ m.id \in Nat /\ IsEvent(m)
    BY <2>1, Taken
  <2>. DEFINE p       == Find(list, idMap, m.pid)
              creator == Find(list, idMap, m.other)
              e1 == <<NewEvent(m.id, "CreateThread", creator, p, m.other),
                      NewEvent(m.id, "ThreadCreate", p, creator, m.pid)>>
              e2 == <<NewEvent(m.id, "ThreadDestroy", p, NULL, m.pid)>>
  <2>3. events' = events \o <<>> \/ events' = events \o e1 \/ events' = events \o e2
    BY <1>3 DEF OnPsCreateThread, InsertEvents
  <2>4. Records(m, e1)
    BY <2>2, RecordsTwo DEF Types, Pairs
  <2>5. Records(m, e2)
    BY <2>2, RecordsOne DEF Types
  <2>. HIDE DEF e1, e2
  <2>. QED
    BY <2>1, <2>2, <2>3, <2>4, <2>5, RecordsNothing, HandlerIInv
<1>4. ASSUME OnPsLoadImage PROVE IInv'
  <2>1. Dispatch("image") /\ taken' = taken /\ crash' = crash /\ sys' = sys
    BY <1>4 DEF OnPsLoadImage
  <2>2. /\ queue # <<>> /\ queue' = Tail(queue) /\ crash = "no"
        /\ m.id \in Nat /\ (m.id # 0 => IsEvent(m))
    BY <2>1, Taken
  <2>. DEFINE p == Find(list, idMap, m.pid)
              e == <<NewEvent(m.id, "LoadImage", p, NULL, m.pid)>>
  <2>3. events' = events \o <<>> \/ (m.id # 0 /\ events' = events \o e)
    BY <1>4 DEF OnPsLoadImage, InsertEvents
  <2>4. m.id # 0 => Records(m, e)
    BY <2>2, RecordsOne DEF Types
  <2>. HIDE DEF e
  <2>. QED
    BY <2>1, <2>2, <2>3, <2>4, RecordsNothing, HandlerIInv
<1>5. ASSUME OnTargetCall PROVE IInv'
  <2>1. Dispatch("target") /\ taken' = taken /\ crash' = crash /\ sys' = sys
    BY <1>5 DEF OnTargetCall
  <2>2. /\ queue # <<>> /\ queue' = Tail(queue) /\ crash = "no"
        /\ m.id \in Nat /\ IsEvent(m)
    BY <2>1, Taken
  <2>. DEFINE p      == Find(list, idMap, m.pid)
              target == Find(list, idMap, m.other)
              e      == <<NewEvent(m.id, "Target", p, target, m.pid)>>
  <2>3. events' = events \o <<>> \/ events' = events \o e
    BY <1>5 DEF OnTargetCall, InsertEvents
  <2>4. Records(m, e)
    BY <2>2, RecordsOne DEF Types
  <2>. HIDE DEF e
  <2>. QED
    BY <2>1, <2>2, <2>3, <2>4, RecordsNothing, HandlerIInv
<1>6. ASSUME OnCall PROVE IInv'
  <2>1. Dispatch("call") /\ taken' = taken /\ crash' = crash /\ sys' = sys
    BY <1>6 DEF OnCall
  <2>2. /\ queue # <<>> /\ queue' = Tail(queue) /\ crash = "no"
        /\ m.id \in Nat /\ IsEvent(m)
    BY <2>1, Taken
  <2>. DEFINE p == Find(list, idMap, m.pid)
              e == <<NewEvent(m.id, "Call", p, NULL, m.pid)>>
  <2>3. events' = events \o <<>> \/ events' = events \o e
    BY <1>6 DEF OnCall, InsertEvents
  <2>4. Records(m, e)
    BY <2>2, RecordsOne DEF Types
  <2>. HIDE DEF e
  <2>. QED
    BY <2>1, <2>2, <2>3, <2>4, RecordsNothing, HandlerIInv
<1>7. ASSUME OnCallStack PROVE IInv'
  <2>1. crash' = "no"
    BY <1>7 DEF OnCallStack, Dispatch
  <2>2. Sound(queue, events, pending, taken, nextId)'
    BY <1>7, OnCallStackSound DEF IInv
  <2>. QED
    BY <2>1, <2>2 DEF IInv
<1>8. ASSUME CallStackCrash PROVE IInv'
  <2>1. /\ queue' = queue /\ events' = events /\ psSystem' = psSystem
        /\ pending' = pending /\ taken' = taken /\ nextId' = nextId
    BY <1>8 DEF CallStackCrash, sys
  <2>. QED
    BY <2>1 DEF IInv
<1>. QED
  BY <1>1, <1>2, <1>3, <1>4, <1>5, <1>6, <1>7, <1>8 DEF Worker

\* The invariant holds in every behaviour.
THEOREM Invariance == Spec => []IInv
<1>1. Init => IInv
  BY InitIInv
<1>2. IInv /\ [Next]_vars => IInv'
  <2>. SUFFICES ASSUME IInv, [Next]_vars PROVE IInv'
    OBVIOUS
  <2>1. CASE Next
    BY <2>1, DriverIInv, WorkerIInv DEF Next
  <2>2. CASE UNCHANGED vars
    BY <2>2 DEF vars, sys, IInv, Indices
  <2>. QED
    BY <2>1, <2>2
<1>. QED
  BY <1>1, <1>2, PTL DEF Spec

-----------------------------------------------------------------------------
(* What it gives. *)

\* FindEventById (EventMgr.cpp) may stop at the first older event: handlers
\* append to m_EventList in the order of the driver's ids, and only the two
\* sides of one creation share an id.
THEOREM EventsInOrderCorrect == Spec => []EventsInOrder
<1>1. IInv => EventsInOrder
  BY DEF IInv, Sound, Ordered, EventsInOrder, Indices, Pairs
<1>. QED
  BY <1>1, Invariance, PTL

\* OnCallStack attaches every call stack it handles to the event of its id,
\* once, if that event was recorded, and never to the new process's side.
THEOREM StacksFoundCorrect == Spec => []StacksFound
<1>1. IInv => StacksFound
  BY DEF IInv, Sound, Attached, StacksFound, Indices
<1>. QED
  BY <1>1, Invariance, PTL

-----------------------------------------------------------------------------
(* Whose the events are.  While no process id is reused the object of a    *)
(* process is alive in the table until its last message was handled, so    *)
(* that Find answers with it; the history says why: whoever acts in a      *)
(* queued message runs still or its exit is queued behind that message.    *)

\* The processes that act in a message.
Actors(m) == {m.pid} \cup {p \in {m.other} : m.kind = "thread" \/ (m.kind = "process" /\ m.flag)}

IsExit(m, p) == m.kind = "process" /\ ~m.flag /\ m.pid = p

\* p is alive as seen from the message i: it runs, or its exit is yet to come.
ToCome(q, run, p, i) == p \in run \/ \E j \in 1..Len(q) : i <= j /\ IsExit(q[j], p)

Lives(q, run, out) ==
    /\ run \subseteq out /\ out \subseteq Pids
    /\ \A i \in 1..Len(q) : q[i].kind # "stack" =>
         \A p \in Actors(q[i]) \ {SystemPid} : p \in out /\ ToCome(q, run, p, i)
    /\ \A i \in 1..Len(q), p \in out \cup {SystemPid} : IsExit(q[i], p) =>
         /\ p \in out \ run
         /\ \A j \in 1..Len(q) : IsExit(q[j], p) => i = j

\* The object of a process is marked dead by its exit's message.
Deaths(l, q, run, out) ==
    \A n \in 1..Len(l) : ~l[n].alive =>
        /\ l[n].pid \in out \ run
        /\ \A i \in 1..Len(q) : ~IsExit(q[i], l[n].pid)

\* An event names the object of its process, and is that object's last one
\* if it says that the process ended.
Told(l, ev) ==
    \A k \in 1..Len(ev) :
        /\ ev[k].proc \in 1..Len(l)
        /\ l[ev[k].proc].pid = ev[k].pid
        /\ ev[k].type = "ProcessDestroy" =>
             /\ ~l[ev[k].proc].alive
             /\ \A j \in 1..Len(ev) : k < j => ev[j].proc # ev[k].proc

History ==
    /\ WellFormed(list, idMap) /\ OnePerPid(list)
    /\ Lives(queue, live, used)
    /\ Deaths(list, queue, live, used)
    /\ Told(list, events)

HInv == IInv /\ (~reused => History)

-----------------------------------------------------------------------------
(* The history of messages sent. *)

\* A message of running processes that is no exit; a process may have started.
LEMMA SendLives ==
    ASSUME NEW q \in Seq(Message), NEW run, NEW out, Lives(q, run, out),
           NEW run2, NEW out2, run \subseteq run2, out \subseteq out2,
           run2 \subseteq out2, out2 \subseteq Pids,
           \A p \in out : p \in run2 => p \in run,
           NEW m \in Message, \A p : ~IsExit(m, p),
           m.kind # "stack" => Actors(m) \ {SystemPid} \subseteq run2
    PROVE  Lives(Append(q, m), run2, out2)
<1>. DEFINE q2 == Append(q, m)
<1>1. /\ q2 \in Seq(Message) /\ Len(q2) = Len(q) + 1 /\ Len(q) \in Nat
      /\ \A i \in 1..Len(q) : q2[i] = q[i]
      /\ q2[Len(q) + 1] = m
  BY AppendProperties, LenProperties
<1>. HIDE DEF q2
<1>2. \A i \in 1..Len(q2) : i \in 1..Len(q) \/ (i = Len(q) + 1 /\ q2[i] = m)
  BY <1>1
<1>3. \A i \in 1..Len(q) : i \in 1..Len(q2)
  BY <1>1
<1>4. ASSUME NEW i \in 1..Len(q2), q2[i].kind # "stack", NEW p \in Actors(q2[i]) \ {SystemPid}
      PROVE  p \in out2 /\ ToCome(q2, run2, p, i)
  <2>1. CASE i \in 1..Len(q)
    <3>1. p \in out /\ ToCome(q, run, p, i)
      BY <1>1, <1>4, <2>1 DEF Lives
    <3>2. CASE p \in run
      BY <3>1, <3>2 DEF ToCome
    <3>3. CASE \E j \in 1..Len(q) : i <= j /\ IsExit(q[j], p)
      <4>1. PICK j \in 1..Len(q) : i <= j /\ IsExit(q[j], p)
        BY <3>3
      <4>2. j \in 1..Len(q2) /\ i <= j /\ IsExit(q2[j], p)
        BY <1>1, <1>3, <4>1
      <4>. QED
        BY <3>1, <4>2 DEF ToCome
    <3>. QED
      BY <3>1, <3>2, <3>3 DEF ToCome
  <2>2. CASE q2[i] = m
    BY <1>4, <2>2 DEF ToCome
  <2>. QED
    BY <1>2, <2>1, <2>2
<1>5. ASSUME NEW i \in 1..Len(q2), NEW p \in out2 \cup {SystemPid}, IsExit(q2[i], p)
      PROVE  /\ p \in out2 \ run2
             /\ \A j \in 1..Len(q2) : IsExit(q2[j], p) => i = j
  <2>1. i \in 1..Len(q) /\ IsExit(q[i], p)
    BY <1>1, <1>2, <1>5
  <2>2. p \in out \cup {SystemPid}
    <3>1. q[i].kind # "stack" /\ p \in Actors(q[i])
      BY <2>1 DEF IsExit, Actors
    <3>. QED
      BY <2>1, <3>1 DEF Lives
  <2>3. p \in out \ run /\ \A j \in 1..Len(q) : IsExit(q[j], p) => i = j
    BY <2>1, <2>2 DEF Lives
  <2>4. p \in out2 \ run2
    BY <2>3
  <2>5. ASSUME NEW j \in 1..Len(q2), IsExit(q2[j], p) PROVE i = j
    <3>1. j \in 1..Len(q) /\ IsExit(q[j], p)
      BY <1>1, <1>2, <2>5
    <3>. QED
      BY <2>3, <3>1
  <2>. QED
    BY <2>4, <2>5
<1>6. Lives(q2, run2, out2)
  BY <1>4, <1>5 DEF Lives
<1>. QED
  BY <1>6 DEF q2

\* The exit of a running process.
LEMMA SendExitLives ==
    ASSUME NEW q \in Seq(Message), NEW run, NEW out, Lives(q, run, out), NEW x \in run,
           NEW m \in Message, IsExit(m, x)
    PROVE  Lives(Append(q, m), run \ {x}, out)
<1>. DEFINE q2 == Append(q, m)
            run2 == run \ {x}
<1>1. /\ q2 \in Seq(Message) /\ Len(q2) = Len(q) + 1 /\ Len(q) \in Nat
      /\ \A i \in 1..Len(q) : q2[i] = q[i]
      /\ q2[Len(q) + 1] = m
  BY AppendProperties, LenProperties
<1>. HIDE DEF q2
<1>2. \A i \in 1..Len(q2) : i \in 1..Len(q) \/ (i = Len(q) + 1 /\ q2[i] = m)
  BY <1>1
<1>3. \A i \in 1..Len(q2) : i \in 1..Len(q2) /\ i <= Len(q) + 1 /\ Len(q) + 1 \in 1..Len(q2)
  BY <1>1
<1>4. x \in out /\ run \subseteq out /\ out \subseteq Pids
  BY DEF Lives
<1>5. ASSUME NEW i \in 1..Len(q2), q2[i].kind # "stack", NEW p \in Actors(q2[i]) \ {SystemPid}
      PROVE  p \in out /\ ToCome(q2, run2, p, i)
  <2>1. CASE i \in 1..Len(q)
    <3>1. p \in out /\ ToCome(q, run, p, i)
      BY <1>1, <1>5, <2>1 DEF Lives
    <3>2. CASE p \in run2
      BY <3>1, <3>2 DEF ToCome
    <3>3. CASE p = x
      BY <1>1, <1>3, <1>4, <3>3 DEF ToCome
    <3>4. CASE \E j \in 1..Len(q) : i <= j /\ IsExit(q[j], p)
      <4>1. PICK j \in 1..Len(q) : i <= j /\ IsExit(q[j], p)
        BY <3>4
      <4>2. j \in 1..Len(q2) /\ i <= j /\ IsExit(q2[j], p)
        BY <1>1, <4>1
      <4>. QED
        BY <3>1, <4>2 DEF ToCome
    <3>. QED
      BY <3>1, <3>2, <3>3, <3>4 DEF ToCome
  <2>2. CASE i = Len(q) + 1 /\ q2[i] = m
    <3>1. p = x
      BY <1>5, <2>2 DEF Actors, IsExit
    <3>. QED
      BY <1>1, <1>3, <1>4, <2>2, <3>1 DEF ToCome
  <2>. QED
    BY <1>2, <2>1, <2>2
<1>6. ASSUME NEW i \in 1..Len(q2), NEW p \in out \cup {SystemPid}, IsExit(q2[i], p)
      PROVE  /\ p \in out \ run2
             /\ \A j \in 1..Len(q2) : IsExit(q2[j], p) => i = j
  <2>1. \A j \in 1..Len(q) : IsExit(q2[j], p) =>
          p \in out \ run /\ \A k \in 1..Len(q) : IsExit(q2[k], p) => j = k
    BY <1>1 DEF Lives
  <2>2. \A j \in 1..Len(q2) : j = Len(q) + 1 /\ IsExit(q2[j], p) => p = x
    BY <1>1 DEF IsExit
  <2>3. p \in out \ run2
    BY <1>2, <1>4, <1>6, <2>1, <2>2
  <2>4. ASSUME NEW j \in 1..Len(q2), IsExit(q2[j], p) PROVE i = j
    <3>1. CASE p = x
      <4>1. \A k \in 1..Len(q) : ~IsExit(q2[k], p)
        BY <2>1, <3>1
      <4>. QED
        BY <1>2, <1>6, <2>4, <4>1
    <3>2. CASE p # x
      BY <1>2, <1>6, <2>1, <2>2, <2>4, <3>2
    <3>. QED
      BY <3>1, <3>2
  <2>. QED
    BY <2>3, <2>4
<1>7. Lives(q2, run2, out)
  BY <1>4, <1>5, <1>6 DEF Lives
<1>. QED
  BY <1>7 DEF q2

\* A message changes no object; only the exit of a dead process would be told
\* twice.
LEMMA SendDeaths ==
    ASSUME NEW q \in Seq(Message), NEW run, NEW out, NEW l, Deaths(l, q, run, out),
           NEW run2, NEW out2, out \subseteq out2,
           \A p \in out : p \in run2 => p \in run,
           NEW m \in Message, \A p : IsExit(m, p) => p \in run
    PROVE  Deaths(l, Append(q, m), run2, out2)
<1>. DEFINE q2 == Append(q, m)
<1>1. /\ Len(q2) = Len(q) + 1 /\ Len(q) \in Nat
      /\ \A i \in 1..Len(q) : q2[i] = q[i]
      /\ q2[Len(q) + 1] = m
  BY AppendProperties, LenProperties
<1>. HIDE DEF q2
<1>2. \A i \in 1..Len(q2) : i \in 1..Len(q) \/ (i = Len(q) + 1 /\ q2[i] = m)
  BY <1>1
<1>3. ASSUME NEW n \in 1..Len(l), ~l[n].alive
      PROVE  /\ l[n].pid \in out2 \ run2
             /\ \A i \in 1..Len(q2) : ~IsExit(q2[i], l[n].pid)
  <2>1. l[n].pid \in out \ run /\ \A i \in 1..Len(q) : ~IsExit(q[i], l[n].pid)
    BY <1>3 DEF Deaths
  <2>. QED
    BY <1>1, <1>2, <2>1
<1>. QED
  BY <1>3 DEF Deaths, q2

-----------------------------------------------------------------------------
(* The history of messages handled. *)

\* What is left in the queue says the same of every process.
LEMMA TailHistory ==
    ASSUME NEW q \in Seq(Message), q # <<>>, NEW run, NEW out, Lives(q, run, out),
           NEW l, Deaths(l, q, run, out)
    PROVE  Lives(Tail(q), run, out) /\ Deaths(l, Tail(q), run, out)
<1>. DEFINE q2 == Tail(q)
<1>1. Len(q) \in Nat \ {0}
  BY LenProperties, EmptySeq
<1>2. /\ Len(q2) = Len(q) - 1
      /\ \A i \in 1..Len(q2) : q2[i] = q[i + 1]
  BY <1>1, HeadTailProperties
<1>. HIDE DEF q2
<1>3. \A i \in 1..Len(q2) : i \in Nat /\ i + 1 \in 1..Len(q) /\ i + 1 # 1
  BY <1>1, <1>2
<1>4. ASSUME NEW i \in 1..Len(q2), q2[i].kind # "stack", NEW p \in Actors(q2[i]) \ {SystemPid}
      PROVE  p \in out /\ ToCome(q2, run, p, i)
  <2>1. p \in out /\ ToCome(q, run, p, i + 1)
    BY <1>2, <1>3, <1>4 DEF Lives
  <2>2. CASE p \in run
    BY <2>1, <2>2 DEF ToCome
  <2>3. CASE \E j \in 1..Len(q) : i + 1 <= j /\ IsExit(q[j], p)
    <3>1. PICK j \in 1..Len(q) : i + 1 <= j /\ IsExit(q[j], p)
      BY <2>3
    <3>2. j - 1 \in 1..Len(q2) /\ i <= j - 1 /\ (j - 1) + 1 = j
      BY <1>1, <1>2, <1>3, <3>1
    <3>3. IsExit(q2[j - 1], p)
      BY <1>2, <3>1, <3>2
    <3>. QED
      BY <2>1, <3>2, <3>3 DEF ToCome
  <2>. QED
    BY <2>1, <2>2, <2>3 DEF ToCome
<1>5. ASSUME NEW i \in 1..Len(q2), NEW p \in out \cup {SystemPid}, IsExit(q2[i], p)
      PROVE  /\ p \in out \ run
             /\ \A j \in 1..Len(q2) : IsExit(q2[j], p) => i = j
  <2>1. i + 1 \in 1..Len(q) /\ IsExit(q[i + 1], p)
    BY <1>2, <1>3, <1>5
  <2>2. p \in out \ run /\ \A j \in 1..Len(q) : IsExit(q[j], p) => i + 1 = j
    BY <2>1 DEF Lives
  <2>3. ASSUME NEW j \in 1..Len(q2), IsExit(q2[j], p) PROVE i = j
    <3>1. j + 1 \in 1..Len(q) /\ IsExit(q[j + 1], p)
      BY <1>2, <1>3, <2>3
    <3>2. i + 1 = j + 1
      BY <2>2, <3>1
    <3>. QED
      BY <1>3, <3>2
  <2>. QED
    BY <2>2, <2>3
<1>6. Lives(q2, run, out)
  BY <1>4, <1>5 DEF Lives
<1>7. Deaths(l, q2, run, out)
  BY <1>2, <1>3 DEF Deaths
<1>. QED
  BY <1>6, <1>7 DEF q2

\* Nobody whose message is being handled is marked dead.
LEMMA ActorAlive ==
    ASSUME NEW q \in Seq(Message), q # <<>>, NEW run, NEW out, Lives(q, run, out),
           NEW l, Deaths(l, q, run, out),
           Head(q).kind # "stack", NEW p \in Actors(Head(q)),
           NEW n \in 1..Len(l), l[n].pid = p
    PROVE  l[n].alive
<1>. SUFFICES ASSUME ~l[n].alive PROVE FALSE
  OBVIOUS
<1>1. 1 \in 1..Len(q) /\ Head(q) = q[1]
  BY LenProperties, EmptySeq
<1>2. p \in out \ run /\ \A i \in 1..Len(q) : ~IsExit(q[i], p)
  BY DEF Deaths
<1>3. p # SystemPid
  BY <1>2, PidsAssumption DEF Lives
<1>4. ToCome(q, run, p, 1)
  BY <1>1, <1>3 DEF Lives
<1>. QED
  BY <1>2, <1>4 DEF ToCome

\* Find answers with its object, if there is one.
LEMMA FoundAlive ==
    ASSUME NEW q \in Seq(Message), q # <<>>, NEW run, NEW out, Lives(q, run, out),
           NEW l, NEW order, Deaths(l, q, run, out), WellFormed(l, order), OnePerPid(l),
           Head(q).kind # "stack", NEW p \in Actors(Head(q)), Find(l, order, p) # NULL
    PROVE  LET n == Find(l, order, p)
           IN  n \in 1..Len(l) /\ l[n].pid = p /\ l[n].alive
<1>1. \A n \in 1..Len(l) : l[n].pid = p => l[n].alive
  BY ActorAlive
<1>2. Find(l, order, p) \in 1..Len(l) /\ l[Find(l, order, p)].pid = p
  BY <1>1, FindsOwn
<1>. QED
  BY <1>1, <1>2

\* No other process has that process id.
LEMMA NoneKnown ==
    ASSUME NEW q \in Seq(Message), q # <<>>, NEW run, NEW out, Lives(q, run, out),
           NEW l, NEW order, Deaths(l, q, run, out), WellFormed(l, order),
           Head(q).kind # "stack", NEW p \in Actors(Head(q)), Find(l, order, p) = NULL,
           NEW n \in 1..Len(l)
    PROVE  l[n].pid # p
<1>. SUFFICES ASSUME l[n].pid = p PROVE FALSE
  OBVIOUS
<1>1. l[n].alive
  BY ActorAlive
<1>. QED
  BY <1>1, FindsSomething

\* Events of living objects.
Living(l, e) ==
    /\ e.proc \in 1..Len(l)
    /\ l[e.proc].alive
    /\ l[e.proc].pid = e.pid
    /\ e.type # "ProcessDestroy"

Tells(l, new) == \A k \in 1..Len(new) : Living(l, new[k])

\* The events of a list and of another one behind it.
LEMMA Behind ==
    ASSUME NEW ev, \E P : ev \in Seq(EventOf(P)), NEW new, \E P : new \in Seq(EventOf(P))
    PROVE  /\ Len(ev) \in Nat /\ Len(new) \in Nat /\ Len(ev \o new) = Len(ev) + Len(new)
           /\ \A k \in 1..Len(ev) : (ev \o new)[k] = ev[k]
           /\ \A k \in 1..Len(ev \o new) :
                \/ k \in 1..Len(ev)
                \/ k - Len(ev) \in 1..Len(new) /\ (ev \o new)[k] = new[k - Len(ev)]
<1>1. PICK P : ev \in Seq(EventOf(P))
  OBVIOUS
<1>2. PICK Q : new \in Seq(EventOf(Q))
  OBVIOUS
<1>3. EventOf(P) \subseteq EventOf(P \cup Q) /\ EventOf(Q) \subseteq EventOf(P \cup Q)
  BY DEF EventOf
<1>4. ev \in Seq(EventOf(P \cup Q)) /\ new \in Seq(EventOf(P \cup Q))
  BY <1>1, <1>2, <1>3, SeqSubset
<1>5. /\ Len(ev) \in Nat /\ Len(new) \in Nat /\ Len(ev \o new) = Len(ev) + Len(new)
      /\ \A k \in 1..(Len(ev) + Len(new)) :
           (ev \o new)[k] = IF k <= Len(ev) THEN ev[k] ELSE new[k - Len(ev)]
  BY <1>4, ConcatProperties, LenProperties
<1>. QED
  BY <1>5

LEMMA ToldMore ==
    ASSUME NEW ev, \E P : ev \in Seq(EventOf(P)), NEW new, \E P : new \in Seq(EventOf(P)),
           NEW l, Told(l, ev), Tells(l, new)
    PROVE  Told(l, ev \o new)
<1>. DEFINE ev2 == ev \o new
<1>1. /\ Len(ev) \in Nat /\ Len(new) \in Nat /\ Len(ev2) = Len(ev) + Len(new)
      /\ \A k \in 1..Len(ev) : ev2[k] = ev[k]
      /\ \A k \in 1..Len(ev2) :
           \/ k \in 1..Len(ev)
           \/ k - Len(ev) \in 1..Len(new) /\ ev2[k] = new[k - Len(ev)]
  BY Behind
<1>. HIDE DEF ev2
<1>2. \A k \in 1..Len(ev2) :
        \/ k \in 1..Len(ev) /\ ev2[k] = ev[k]
        \/ /\ ev2[k].proc \in 1..Len(l)
           /\ l[ev2[k].proc].alive
           /\ l[ev2[k].proc].pid = ev2[k].pid
           /\ ev2[k].type # "ProcessDestroy"
  <2>1. ASSUME NEW j \in 1..Len(new), NEW e, e = new[j]
        PROVE  /\ e.proc \in 1..Len(l) /\ l[e.proc].alive
               /\ l[e.proc].pid = e.pid /\ e.type # "ProcessDestroy"
    BY <2>1 DEF Tells, Living
  <2>. TAKE k \in 1..Len(ev2)
  <2>2. CASE k \in 1..Len(ev)
    BY ONLY <1>1, <2>2
  <2>3. CASE k - Len(ev) \in 1..Len(new) /\ ev2[k] = new[k - Len(ev)]
    <3>. DEFINE e == ev2[k]
    <3>1. /\ e.proc \in 1..Len(l) /\ l[e.proc].alive
          /\ l[e.proc].pid = e.pid /\ e.type # "ProcessDestroy"
      BY <2>1, <2>3
    <3>. QED
      BY <3>1, Zenon
  <2>. QED
    BY <1>1, <2>2, <2>3
<1>3. \A k \in 1..Len(ev2) :
        ev2[k].proc \in 1..Len(l) /\ l[ev2[k].proc].pid = ev2[k].pid
  BY <1>2 DEF Told
<1>4. ASSUME NEW k \in 1..Len(ev2), ev2[k].type = "ProcessDestroy"
      PROVE  /\ ~l[ev2[k].proc].alive
             /\ \A j \in 1..Len(ev2) : k < j => ev2[j].proc # ev2[k].proc
  <2>1. k \in 1..Len(ev) /\ ev2[k] = ev[k]
    BY <1>2, <1>4
  <2>2. ~l[ev2[k].proc].alive
    BY <1>4, <2>1 DEF Told
  <2>3. ASSUME NEW j \in 1..Len(ev2), k < j PROVE ev2[j].proc # ev2[k].proc
    <3>1. CASE j \in 1..Len(ev) /\ ev2[j] = ev[j]
      BY <1>4, <2>1, <2>3, <3>1 DEF Told
    <3>2. CASE l[ev2[j].proc].alive
      BY <2>2, <3>2
    <3>. QED
      BY <1>2, <3>1, <3>2
  <2>. QED
    BY <2>2, <2>3
<1>5. Told(l, ev2)
  BY <1>3, <1>4 DEF Told
<1>. QED
  BY <1>5 DEF ev2

\* An object that is added takes nothing back.
LEMMA ToldGrown ==
    ASSUME NEW l, NEW l2, NEW ev, Told(l, ev), 1..Len(l) \subseteq 1..Len(l2),
           \A n \in 1..Len(l) : l2[n].pid = l[n].pid /\ l2[n].alive = l[n].alive
    PROVE  Told(l2, ev)
<1>1. ASSUME NEW k \in 1..Len(ev)
      PROVE  /\ ev[k].proc \in 1..Len(l2)
             /\ l2[ev[k].proc].pid = ev[k].pid
             /\ ev[k].type = "ProcessDestroy" =>
                  /\ ~l2[ev[k].proc].alive
                  /\ \A j \in 1..Len(ev) : k < j => ev[j].proc # ev[k].proc
  <2>1. ev[k].proc \in 1..Len(l)
    BY DEF Told
  <2>. QED
    BY <2>1 DEF Told
<1>. QED
  BY <1>1 DEF Told

\* The exit's event is the last one of its object, which dies.
LEMMA ToldDeath ==
    ASSUME NEW ev, \E P : ev \in Seq(EventOf(P)), NEW l \in Seq(Process), Told(l, ev),
           NEW n \in 1..Len(l), l[n].alive, NEW id
    PROVE  Told(Kill(l, n), ev \o <<NewEvent(id, "ProcessDestroy", n, NULL, l[n].pid)>>)
<1>. DEFINE l2  == Kill(l, n)
            e   == NewEvent(id, "ProcessDestroy", n, NULL, l[n].pid)
            new == <<e>>
            ev2 == ev \o new
<1>1. /\ Len(l2) = Len(l)
      /\ \A m \in 1..Len(l) : /\ l2[m].pid = l[m].pid
                              /\ m # n => l2[m].alive = l[m].alive
                              /\ m = n => ~l2[m].alive
  <2>1. n \in 0..Len(l)
    OBVIOUS
  <2>. QED
    BY <2>1, KillEffect
<1>2. e.proc = n /\ e.pid = l[n].pid /\ e.type = "ProcessDestroy"
  BY DEF NewEvent
<1>3. /\ Len(ev) \in Nat /\ Len(ev2) = Len(ev) + 1
      /\ \A k \in 1..Len(ev) : ev2[k] = ev[k]
      /\ \A k \in 1..Len(ev2) : k \in 1..Len(ev) \/ (k = Len(ev) + 1 /\ ev2[k] = e)
  <2>1. Len(new) = 1 /\ new[1] = e
    OBVIOUS
  <2>2. new \in Seq({e})
    OBVIOUS
  <2>3. /\ Len(ev2) = Len(ev) + Len(new) /\ Len(ev) \in Nat
        /\ \A k \in 1..Len(ev2) : ev2[k] = IF k <= Len(ev) THEN ev[k] ELSE new[k - Len(ev)]
    <3>1. PICK P : ev \in Seq(EventOf(P))
      OBVIOUS
    <3>2. EventOf(P) \subseteq EventOf(P) \cup {e} /\ {e} \subseteq EventOf(P) \cup {e}
      OBVIOUS
    <3>3. ev \in Seq(EventOf(P) \cup {e}) /\ new \in Seq(EventOf(P) \cup {e})
      BY <2>2, <3>1, <3>2, SeqSubset
    <3>. QED
      BY <3>3, ConcatProperties, LenProperties
  <2>. HIDE DEF new, e, ev2
  <2>. QED
    BY <2>1, <2>3
<1>. HIDE DEF e, ev2, l2
<1>4. \A k \in 1..Len(ev) : /\ ev[k].proc \in 1..Len(l) /\ l[ev[k].proc].pid = ev[k].pid
                            /\ ev[k].type = "ProcessDestroy" => ev[k].proc # n
  BY DEF Told
<1>5. ASSUME NEW k \in 1..Len(ev2)
      PROVE  /\ ev2[k].proc \in 1..Len(l2)
             /\ l2[ev2[k].proc].pid = ev2[k].pid
             /\ ev2[k].type = "ProcessDestroy" =>
                  /\ ~l2[ev2[k].proc].alive
                  /\ \A j \in 1..Len(ev2) : k < j => ev2[j].proc # ev2[k].proc
  <2>1. CASE k \in 1..Len(ev)
    <3>1. ev2[k] = ev[k] /\ ev[k].proc \in 1..Len(l)
      BY <1>3, <1>4, <2>1
    <3>2. ev2[k].proc \in 1..Len(l2) /\ l2[ev2[k].proc].pid = ev2[k].pid
      BY <1>1, <1>4, <2>1, <3>1
    <3>3. ASSUME ev2[k].type = "ProcessDestroy"
          PROVE  ~l2[ev2[k].proc].alive /\ ev2[k].proc # n
      BY <1>1, <1>4, <2>1, <3>1, <3>3 DEF Told
    <3>4. ASSUME ev2[k].type = "ProcessDestroy", NEW j \in 1..Len(ev2), k < j
          PROVE  ev2[j].proc # ev2[k].proc
      <4>1. CASE j \in 1..Len(ev)
        BY <1>3, <2>1, <3>1, <3>4, <4>1 DEF Told
      <4>2. CASE ev2[j] = e
        BY <1>2, <3>3, <3>4, <4>2
      <4>. QED
        BY <1>3, <4>1, <4>2
    <3>. QED
      BY <3>2, <3>3, <3>4
  <2>2. CASE k = Len(ev) + 1 /\ ev2[k] = e
    <3>1. \A j \in 1..Len(ev2) : ~(k < j)
      BY <1>3, <2>2
    <3>. QED
      BY <1>1, <1>2, <2>2, <3>1
  <2>. QED
    BY <1>3, <2>1, <2>2
<1>6. Told(l2, ev2)
  BY <1>5 DEF Told
<1>. QED
  BY <1>6 DEF l2, ev2, e

-----------------------------------------------------------------------------
(* The history of every step. *)

\* The table the enumeration leaves: living objects of different processes.
LEMMA EnumeratedSound ==
    ASSUME NEW pids \in Seq(Pids), NEW system \in BOOLEAN,
           \A i, j \in 1..Len(pids) : pids[i] = pids[j] => i = j
    PROVE  LET l == Enumerated(system, pids)
           IN  l \in Seq(Process) /\ OnePerPid(l) /\ \A n \in 1..Len(l) : l[n].alive
<1>. DEFINE first == IF system
                     THEN <<[CUniqueProcess(SystemPid, 0, 1) EXCEPT
                               !.children = [k \in 1..Len(pids) |-> k + 1]]>>
                     ELSE <<>>
            rest == [n \in 1..Len(pids) |->
                      [CUniqueProcess(pids[n], SystemPid, 1) EXCEPT
                        !.parent = IF system THEN 1 ELSE NULL]]
            l == Enumerated(system, pids)
<1>1. Len(pids) \in Nat /\ \A n \in 1..Len(pids) : pids[n] \in Pids
  BY LenProperties
<1>2. l = first \o rest
  BY DEF Enumerated
<1>3. /\ rest \in Seq(Process) /\ Len(rest) = Len(pids)
      /\ \A n \in 1..Len(pids) : rest[n].pid = pids[n] /\ rest[n].alive
  <2>1. ASSUME NEW n \in 1..Len(pids)
        PROVE  rest[n] \in Process /\ rest[n].pid = pids[n] /\ rest[n].alive
    <3>1. pids[n] \in Ids /\ SystemPid \in Ids
      BY <1>1 DEF Ids
    <3>2. CUniqueProcess(pids[n], SystemPid, 1) \in Process
      BY <3>1, NewObject
    <3>3. (IF system THEN 1 ELSE NULL) \in Nat
      BY DEF NULL
    <3>4. rest[n] \in Process
      BY <3>2, <3>3, SetFields
    <3>. QED
      BY <3>4 DEF CUniqueProcess
  <2>. HIDE DEF rest
  <2>2. rest = [n \in 1..Len(pids) |-> rest[n]]
    BY DEF rest
  <2>. QED
    BY <1>1, <2>1, <2>2, IsASeq
<1>4. /\ first \in Seq(Process) /\ Len(first) \in {0, 1}
      /\ \A n \in 1..Len(first) : n = 1 /\ first[n].pid = SystemPid /\ first[n].alive
  <2>. DEFINE kids == [k \in 1..Len(pids) |-> k + 1]
              sysp == [CUniqueProcess(SystemPid, 0, 1) EXCEPT !.children = kids]
  <2>1. kids \in Seq(Nat)
    BY <1>1, IsASeq
  <2>2. 0 \in Ids /\ SystemPid \in Ids
    BY DEF Ids
  <2>3. CUniqueProcess(SystemPid, 0, 1) \in Process
    BY <2>2, NewObject
  <2>. HIDE DEF kids
  <2>4. sysp \in Process /\ sysp.pid = SystemPid /\ sysp.alive
    BY <2>1, <2>3 DEF Process, CUniqueProcess
  <2>. HIDE DEF sysp
  <2>5. first = IF system THEN <<sysp>> ELSE <<>>
    BY DEF sysp, kids
  <2>. HIDE DEF first
  <2>6. CASE system
    BY <2>4, <2>5, <2>6
  <2>7. CASE ~system
    BY <2>5, <2>7
  <2>. QED
    BY <2>6, <2>7
<1>. HIDE DEF first, rest, l
<1>5. /\ l \in Seq(Process) /\ Len(l) = Len(first) + Len(rest)
      /\ \A n \in 1..Len(l) : l[n] = IF n <= Len(first) THEN first[n] ELSE rest[n - Len(first)]
  BY <1>2, <1>3, <1>4, ConcatProperties
<1>6. \A n \in 1..Len(l) :
        \/ n = 1 /\ Len(first) = 1 /\ l[n].pid = SystemPid /\ l[n].alive
        \/ /\ n - Len(first) \in 1..Len(pids) /\ n > Len(first)
           /\ l[n].pid = pids[n - Len(first)] /\ l[n].alive
  <2>. SUFFICES ASSUME NEW n \in 1..Len(l)
                PROVE  \/ n = 1 /\ Len(first) = 1 /\ l[n].pid = SystemPid /\ l[n].alive
                       \/ /\ n - Len(first) \in 1..Len(pids) /\ n > Len(first)
                          /\ l[n].pid = pids[n - Len(first)] /\ l[n].alive
    OBVIOUS
  <2>1. CASE n <= Len(first)
    <3>1. n \in 1..Len(first) /\ l[n] = first[n] /\ Len(first) = 1
      BY <1>4, <1>5, <2>1
    <3>. QED
      BY <1>4, <3>1
  <2>2. CASE ~(n <= Len(first))
    <3>1. n - Len(first) \in 1..Len(pids) /\ n > Len(first) /\ l[n] = rest[n - Len(first)]
      BY <1>1, <1>3, <1>4, <1>5, <2>2
    <3>. QED
      BY <1>3, <3>1
  <2>. QED
    BY <2>1, <2>2
<1>7. ASSUME NEW m \in 1..Len(l), NEW n \in 1..Len(l), l[m].pid = l[n].pid
      PROVE  m = n
  <2>1. \A k \in 1..Len(pids) : pids[k] # SystemPid
    BY <1>1, PidsAssumption
  <2>2. CASE l[m].pid = SystemPid
    BY <1>6, <1>7, <2>1, <2>2
  <2>3. CASE l[m].pid # SystemPid
    <3>1. /\ m - Len(first) \in 1..Len(pids) /\ n - Len(first) \in 1..Len(pids)
          /\ pids[m - Len(first)] = pids[n - Len(first)]
      BY <1>6, <1>7, <2>3
    <3>2. m - Len(first) = n - Len(first)
      BY <3>1
    <3>. QED
      BY <1>4, <3>2
  <2>. QED
    BY <2>2, <2>3
<1>8. OnePerPid(l) /\ \A n \in 1..Len(l) : l[n].alive
  BY <1>6, <1>7 DEF OnePerPid
<1>. QED
  BY <1>5, <1>8 DEF l

\* An order of a set repeats nothing.
LEMMA OrdersOnce ==
    ASSUME NEW S, IsFiniteSet(S), NEW s \in Orders(S)
    PROVE  s \in Seq(S) /\ \A i, j \in 1..Len(s) : s[i] = s[j] => i = j
<1>. DEFINE D == 1..Cardinality(S)
<1>1. Cardinality(S) \in Nat
  BY FS_CardinalityType
<1>2. IsFiniteSet(D) /\ Cardinality(D) = Cardinality(S)
  BY <1>1, FS_Interval
<1>3. s \in [D -> S] /\ \A x \in S : \E n \in D : s[n] = x
  BY DEF Orders
<1>. HIDE DEF D
<1>4. s \in Surjection(D, S)
  BY <1>3 DEF Surjection
<1>5. s \in Injection(D, S)
  BY <1>2, <1>4, FS_SurjSameCardinalityImpliesInj
<1>6. s \in Seq(S) /\ Len(s) = Cardinality(S)
  BY <1>1, <1>3 DEF D
<1>. QED
  BY <1>5, <1>6 DEF D, Injection, IsInjective

LEMMA OrdersWellFormed ==
    ASSUME NEW l \in Seq(Process), NEW order \in IdMapOrders(l)
    PROVE  WellFormed(l, order)
<1>1. Len(l) \in Nat /\ order \in [1..Len(l) -> 1..Len(l)]
  BY LenProperties DEF IdMapOrders
<1>2. Len(order) = Len(l)
  BY <1>1
<1>3. \A n \in 1..Len(l) : \E i \in 1..Len(l) : order[i] = n
  BY DEF IdMapOrders
<1>. QED
  BY <1>1, <1>2, <1>3 DEF WellFormed

LEMMA InitHistory == Init => History
<1>. SUFFICES ASSUME Init PROVE History
  OBVIOUS
<1>1. live \subseteq Pids /\ used = live /\ events = <<>> /\ idMap \in IdMapOrders(list)
  BY DEF Init
<1>2. PICK pids \in UNION {Orders(S) : S \in SUBSET live}, system \in BOOLEAN, late \in SUBSET live :
        /\ list = Enumerated(system, pids)
        /\ queue = IF late = {} THEN <<>>
                   ELSE <<[kind |-> "process", id |-> FirstId, pid |-> CHOOSE p \in late : TRUE,
                           other |-> SystemPid, flag |-> TRUE]>>
  BY DEF Init
<1>3. PICK S \in SUBSET live : pids \in Orders(S)
  BY <1>2
<1>4. IsFiniteSet(S) /\ S \subseteq Pids
  BY <1>1, PidsAssumption, FS_Subset
<1>5. pids \in Seq(Pids) /\ \A i, j \in 1..Len(pids) : pids[i] = pids[j] => i = j
  BY <1>3, <1>4, OrdersOnce, SeqSubset
<1>6. list \in Seq(Process) /\ OnePerPid(list) /\ \A n \in 1..Len(list) : list[n].alive
  BY <1>2, <1>5, EnumeratedSound
<1>7. WellFormed(list, idMap)
  BY <1>1, <1>6, OrdersWellFormed
<1>8. Lives(queue, live, used)
  <2>. DEFINE m == [kind |-> "process", id |-> FirstId, pid |-> CHOOSE p \in late : TRUE,
                    other |-> SystemPid, flag |-> TRUE]
  <2>1. CASE late = {}
    <3>1. queue = <<>> /\ Len(queue) = 0
      BY <1>2, <2>1
    <3>. QED
      BY <1>1, <3>1 DEF Lives
  <2>2. CASE late # {}
    <3>1. queue = <<m>> /\ m.flag /\ m.pid \in live
      BY <1>2, <2>2
    <3>2. Actors(m) \ {SystemPid} \subseteq live
      BY <3>1 DEF Actors
    <3>. HIDE DEF m
    <3>3. Len(queue) = 1 /\ queue[1] = m
      BY <3>1
    <3>4. \A i \in 1..Len(queue) : queue[i] = m
      BY <3>3
    <3>5. \A i \in 1..Len(queue) : \A p : ~IsExit(queue[i], p)
      BY <3>1, <3>4 DEF IsExit
    <3>6. \A i \in 1..Len(queue) :
            \A p \in Actors(queue[i]) \ {SystemPid} : p \in used /\ ToCome(queue, live, p, i)
      BY <1>1, <3>2, <3>4 DEF ToCome
    <3>. QED
      BY <1>1, <3>5, <3>6 DEF Lives
  <2>. QED
    BY <2>1, <2>2
<1>9. Deaths(list, queue, live, used) /\ Told(list, events)
  BY <1>1, <1>6 DEF Deaths, Told
<1>. QED
  BY <1>6, <1>7, <1>8, <1>9 DEF History

LEMMA DriverHistory == IInv /\ History /\ Driver /\ ~reused' => History'
<1>. SUFFICES ASSUME IInv, History, Driver, ~reused' PROVE History'
  OBVIOUS
<1>1. /\ queue \in Seq(Message) /\ live \subseteq used /\ used \subseteq Pids
      /\ Lives(queue, live, used) /\ Deaths(list, queue, live, used)
  BY DEF IInv, Sound, Typed, History, Lives
<1>2. nextId \in Nat /\ pending \subseteq Nat
  BY DEF IInv, Sound, Typed
<1>3. \A kind, pid, other, flag :
        SendEvent(kind, pid, other, flag) =>
          /\ queue' = Append(queue, [kind |-> kind, id |-> nextId, pid |-> pid,
                                     other |-> other, flag |-> flag])
          /\ UNCHANGED <<list, keyMap, idMap, events>>
  BY DEF SendEvent, Send, table
<1>4. ASSUME UNCHANGED <<list, keyMap, idMap, events>>,
             Lives(queue', live', used'), Deaths(list, queue', live', used')
      PROVE  History'
  <2>1. /\ WellFormed(list', idMap') /\ OnePerPid(list') /\ Told(list', events')
        /\ Deaths(list', queue', live', used')
    BY <1>4 DEF History
  <2>. QED
    BY <1>4, <2>1 DEF History
<1>5. ASSUME NEW p \in Pids, NEW parent \in Parents, OsCreate(p, parent) PROVE History'
  <2>. DEFINE m == [kind |-> "process", id |-> nextId, pid |-> p, other |-> parent, flag |-> TRUE]
  <2>1. /\ p \notin live /\ parent \in live \cup {SystemPid}
        /\ live' = live \cup {p} /\ used' = used \cup {p} /\ p \notin used
        /\ queue' = Append(queue, m) /\ UNCHANGED <<list, keyMap, idMap, events>>
    BY <1>3, <1>5 DEF OsCreate
  <2>2. /\ m \in Message /\ (\A x : ~IsExit(m, x))
        /\ Actors(m) \ {SystemPid} \subseteq live'
    BY <1>2, <2>1 DEF Message, Kinds, Parents, IsExit, Actors
  <2>3. /\ live \subseteq live' /\ used \subseteq used' /\ live' \subseteq used' /\ used' \subseteq Pids
        /\ \A x \in used : x \in live' => x \in live
    BY <1>1, <2>1
  <2>. HIDE DEF m
  <2>4. Lives(Append(queue, m), live', used')
    BY <1>1, <2>2, <2>3, SendLives
  <2>5. Deaths(list, Append(queue, m), live', used')
    BY <1>1, <2>2, <2>3, SendDeaths
  <2>. QED
    BY <1>4, <2>1, <2>4, <2>5
<1>6. ASSUME NEW p \in Pids, OsExit(p) PROVE History'
  <2>. DEFINE m == [kind |-> "process", id |-> nextId, pid |-> p, other |-> SystemPid,
                    flag |-> FALSE]
  <2>1. /\ p \in live /\ live' = live \ {p} /\ used' = used
        /\ queue' = Append(queue, m) /\ UNCHANGED <<list, keyMap, idMap, events>>
    BY <1>3, <1>6 DEF OsExit
  <2>2. m \in Message /\ \A x : IsExit(m, x) <=> x = p
    BY <1>2 DEF Message, Kinds, Parents, IsExit
  <2>. HIDE DEF m
  <2>3. Lives(Append(queue, m), live', used')
    BY <1>1, <2>1, <2>2, SendExitLives
  <2>4. /\ used \subseteq used' /\ \A x \in used : x \in live' => x \in live
        /\ \A x : IsExit(m, x) => x \in live
    BY <2>1, <2>2
  <2>5. Deaths(list, Append(queue, m), live', used')
    BY <1>1, <2>2, <2>4, SendDeaths
  <2>. QED
    BY <1>4, <2>1, <2>3, <2>5
<1>7. ASSUME NEW m \in Message, queue' = Append(queue, m), UNCHANGED <<list, keyMap, idMap, events>>,
             live' = live, used' = used, m.kind # "process",
             m.kind # "stack" => Actors(m) \ {SystemPid} \subseteq live
      PROVE  History'
  <2>1. \A x : ~IsExit(m, x)
    BY <1>7 DEF IsExit
  <2>2. Lives(Append(queue, m), live, used)
    BY <1>1, <1>7, <2>1, SendLives
  <2>3. Deaths(list, Append(queue, m), live, used)
    BY <1>1, <2>1, SendDeaths
  <2>. QED
    BY <1>4, <1>7, <2>2, <2>3
<1>8. ASSUME NEW p \in Pids, NEW other \in Parents, NEW kind \in Kinds, NEW flag \in BOOLEAN,
             OsAct(p, kind, other, flag)
      PROVE  History'
  <2>. DEFINE m == [kind |-> kind, id |-> nextId, pid |-> p, other |-> other, flag |-> flag]
  <2>1. /\ p \in live /\ kind \notin {"process", "stack"} /\ (kind = "thread" => other \in live)
        /\ live' = live /\ used' = used
        /\ queue' = Append(queue, m) /\ UNCHANGED <<list, keyMap, idMap, events>>
    BY <1>3, <1>8 DEF OsAct
  <2>2. m \in Message /\ m.kind # "process" /\ Actors(m) \ {SystemPid} \subseteq live
    BY <1>2, <2>1 DEF Message, Parents, Actors
  <2>. HIDE DEF m
  <2>. QED
    BY <1>7, <2>1, <2>2
<1>9. ASSUME NEW p \in Pids, OsLoadSilently(p) PROVE History'
  <2>. DEFINE m == [kind |-> "image", id |-> 0, pid |-> p, other |-> SystemPid, flag |-> TRUE]
  <2>1. /\ p \in live /\ live' = live /\ used' = used
        /\ queue' = Append(queue, m) /\ UNCHANGED <<list, keyMap, idMap, events>>
    BY <1>9 DEF OsLoadSilently, Send, table, sys
  <2>2. m \in Message /\ m.kind # "process" /\ Actors(m) \ {SystemPid} \subseteq live
    BY <2>1 DEF Message, Kinds, Parents, Actors
  <2>. HIDE DEF m
  <2>. QED
    BY <1>7, <2>1, <2>2
<1>10. ASSUME NEW id \in pending, SendCallStack(id) PROVE History'
  <2>. DEFINE m == [kind |-> "stack", id |-> id, pid |-> SystemPid, other |-> SystemPid,
                    flag |-> TRUE]
  <2>1. /\ live' = live /\ used' = used
        /\ queue' = Append(queue, m) /\ UNCHANGED <<list, keyMap, idMap, events>>
    BY <1>10 DEF SendCallStack, Send, table
  <2>2. m \in Message /\ m.kind = "stack"
    BY <1>2 DEF Message, Kinds, Parents
  <2>. HIDE DEF m
  <2>. QED
    BY <1>7, <2>1, <2>2
<1>. QED
  BY <1>5, <1>6, <1>8, <1>9, <1>10 DEF Driver

\* What a handler does to the table and the list of events.
LEMMA HandlerHistory ==
    ASSUME IInv, History, NEW kind, kind # "stack", Dispatch(kind), UNCHANGED sys,
           WellFormed(list', idMap'), OnePerPid(list'), Told(list', events'),
           Deaths(list', Tail(queue), live, used)
    PROVE  History'
<1>1. /\ queue \in Seq(Message) /\ queue # <<>> /\ queue' = Tail(queue)
      /\ live' = live /\ used' = used
  BY DEF IInv, Sound, Typed, Dispatch, sys
<1>2. Lives(Tail(queue), live, used)
  BY <1>1, TailHistory DEF History
<1>. QED
  BY <1>1, <1>2 DEF History

\* A handler that adds nothing to the table and records of living objects.
LEMMA RecordHistory ==
    ASSUME IInv, History, NEW kind, kind # "stack", Dispatch(kind), UNCHANGED <<table, sys>>,
           NEW new, \E P : new \in Seq(EventOf(P)), Tells(list, new), events' = events \o new
    PROVE  History'
<1>1. /\ queue \in Seq(Message) /\ queue # <<>> /\ list' = list /\ idMap' = idMap
      /\ \E P : events \in Seq(EventOf(P))
  BY DEF IInv, Sound, Typed, Dispatch, table
<1>2. Deaths(list, Tail(queue), live, used)
  BY <1>1, TailHistory DEF History
<1>3. Told(list, events \o new)
  BY <1>1, ToldMore DEF History
<1>4. WellFormed(list', idMap') /\ OnePerPid(list')
  BY <1>1 DEF History
<1>. QED
  BY <1>1, <1>2, <1>3, <1>4, HandlerHistory

\* Events of objects that Find answered with.
LEMMA TellsNothing == \A l : Tells(l, <<>>) /\ \E P : <<>> \in Seq(EventOf(P))
<1>1. <<>> \in Seq(EventOf({})) /\ Len(<<>>) = 0
  OBVIOUS
<1>. QED
  BY <1>1 DEF Tells

LEMMA LivingEvent ==
    ASSUME NEW l, NEW id \in Nat, NEW type \in Types, type # "ProcessDestroy", NEW target,
           NEW p \in 1..Len(l), l[p].alive, NEW pid, pid = l[p].pid
    PROVE  /\ Living(l, NewEvent(id, type, p, target, pid))
           /\ NewEvent(id, type, p, target, pid) \in EventOf({p, target, pid})
  BY DEF NewEvent, EventOf, Living

LEMMA TellsOne ==
    ASSUME NEW l, NEW e, Living(l, e), \E P : e \in EventOf(P)
    PROVE  Tells(l, <<e>>) /\ \E P : <<e>> \in Seq(EventOf(P))
<1>1. PICK P : e \in EventOf(P)
  OBVIOUS
<1>2. /\ <<e>> \in Seq(EventOf(P)) /\ Len(<<e>>) = 1 /\ <<e>>[1] = e
      /\ \A k \in 1..Len(<<e>>) : <<e>>[k] = e
  BY <1>1
<1>. QED
  BY <1>2 DEF Tells

LEMMA TellsTwo ==
    ASSUME NEW l, NEW e1, Living(l, e1), \E P : e1 \in EventOf(P),
           NEW e2, Living(l, e2), \E P : e2 \in EventOf(P)
    PROVE  Tells(l, <<e1, e2>>) /\ \E P : <<e1, e2>> \in Seq(EventOf(P))
<1>1. PICK P : e1 \in EventOf(P)
  OBVIOUS
<1>2. PICK Q : e2 \in EventOf(Q)
  OBVIOUS
<1>3. e1 \in EventOf(P \cup Q) /\ e2 \in EventOf(P \cup Q)
  BY <1>1, <1>2 DEF EventOf
<1>4. /\ <<e1, e2>> \in Seq(EventOf(P \cup Q)) /\ Len(<<e1, e2>>) = 2
      /\ <<e1, e2>>[1] = e1 /\ <<e1, e2>>[2] = e2
      /\ \A k \in 1..Len(<<e1, e2>>) : <<e1, e2>>[k] = e1 \/ <<e1, e2>>[k] = e2
  BY <1>3
<1>. QED
  BY <1>4 DEF Tells

\* The message a handler takes, and the object of its process.
LEMMA TakenHistory ==
    ASSUME IInv, History, NEW kind, kind # "stack", Dispatch(kind), NEW m, m = Head(queue)
    PROVE  /\ queue \in Seq(Message) /\ queue # <<>> /\ m \in Message /\ m.kind = kind
           /\ m.id \in Nat /\ m.pid \in Parents /\ m.other \in Parents
           /\ m.pid \in Actors(m)
           /\ kind = "thread" \/ (kind = "process" /\ m.flag) => m.other \in Actors(m)
           /\ \A p \in Actors(m) : Find(list, idMap, p) # NULL =>
                LET n == Find(list, idMap, p)
                IN  n \in 1..Len(list) /\ list[n].pid = p /\ list[n].alive
<1>1. queue \in Seq(Message) /\ queue # <<>> /\ m.kind = kind
  BY DEF IInv, Sound, Typed, Dispatch
<1>2. 1 \in 1..Len(queue) /\ m = queue[1]
  BY <1>1, LenProperties, EmptySeq
<1>3. m \in Message
  BY <1>1, <1>2
<1>4. m.id \in Nat /\ m.pid \in Parents /\ m.other \in Parents
  BY <1>3 DEF Message
<1>5. /\ m.pid \in Actors(m)
      /\ kind = "thread" \/ (kind = "process" /\ m.flag) => m.other \in Actors(m)
  BY <1>1 DEF Actors
<1>6. ASSUME NEW p \in Actors(m), Find(list, idMap, p) # NULL
      PROVE  LET n == Find(list, idMap, p)
             IN  n \in 1..Len(list) /\ list[n].pid = p /\ list[n].alive
  BY <1>1, <1>6, FoundAlive DEF History
<1>. QED
  BY <1>1, <1>3, <1>4, <1>5, <1>6

\* OnPsCreateProcess: a new object has a process id of its own, and the two
\* events name the creator's object and the new process's.
LEMMA OnPsCreateProcessHistory == IInv /\ History /\ OnPsCreateProcess => History'
<1>. SUFFICES ASSUME IInv, History, OnPsCreateProcess PROVE History'
  OBVIOUS
<1>. DEFINE m == Head(queue)
            new(creator, p) == <<NewEvent(m.id, "CreateProcess", creator, p, m.other),
                                 NewEvent(m.id, "ProcessCreate", p, NULL, m.pid)>>
            creator(l, order) == Find(l, order, m.other)
            Recorded(l, order, p) ==
              events' = events \o (IF creator(l, order) = NULL THEN <<>>
                                   ELSE new(creator(l, order), p))
<1>1. Dispatch("process") /\ m.flag /\ UNCHANGED sys
  BY DEF OnPsCreateProcess
<1>2. /\ queue \in Seq(Message) /\ queue # <<>> /\ m.kind = "process"
      /\ m.id \in Nat /\ m.pid \in Parents /\ m.other \in Parents
      /\ m.pid \in Actors(m) /\ m.other \in Actors(m)
      /\ \A p \in Actors(m) : Find(list, idMap, p) # NULL =>
           LET n == Find(list, idMap, p)
           IN  n \in 1..Len(list) /\ list[n].pid = p /\ list[n].alive
  BY <1>1, TakenHistory
<1>3. /\ \E P : events \in Seq(EventOf(P))
      /\ Lives(queue, live, used) /\ Deaths(list, queue, live, used) /\ Told(list, events)
      /\ WellFormed(list, idMap) /\ OnePerPid(list)
      /\ list \in Seq(Process) /\ Len(list) \in Nat
  BY LenProperties DEF IInv, Sound, Typed, History, WellFormed
\* The table as it is when the creator is looked up.
<1>4. ASSUME WellFormed(list', idMap'), OnePerPid(list'), Told(list', events),
             Deaths(list', queue, live, used),
             NEW p \in 1..Len(list'), list'[p].alive, list'[p].pid = m.pid,
             Recorded(list', idMap', p)
      PROVE  History'
  <2>. DEFINE c == creator(list', idMap')
  <2>1. Deaths(list', Tail(queue), live, used)
    BY <1>2, <1>3, <1>4, TailHistory
  <2>2. CASE c = NULL
    <3>1. events' = events \o <<>>
      BY <1>4, <2>2
    <3>2. Told(list', events')
      BY <1>3, <1>4, <3>1, ToldMore, TellsNothing
    <3>. QED
      BY <1>1, <1>4, <2>1, <3>2, HandlerHistory
  <2>3. CASE c # NULL
    <3>1. c \in 1..Len(list') /\ list'[c].pid = m.other /\ list'[c].alive
      BY <1>2, <1>3, <1>4, <2>3, FoundAlive
    <3>2. Tells(list', new(c, p)) /\ \E P : new(c, p) \in Seq(EventOf(P))
      <4>1. "CreateProcess" \in Types /\ "ProcessCreate" \in Types
        BY DEF Types
      <4>. DEFINE e1 == NewEvent(m.id, "CreateProcess", c, p, m.other)
                  e2 == NewEvent(m.id, "ProcessCreate", p, NULL, m.pid)
      <4>2. new(c, p) = <<e1, e2>>
        OBVIOUS
      <4>3. Living(list', e1) /\ e1 \in EventOf({c, p, m.other})
        BY <1>2, <3>1, <4>1, LivingEvent
      <4>4. Living(list', e2) /\ e2 \in EventOf({p, NULL, m.pid})
        BY <1>2, <1>4, <4>1, LivingEvent
      <4>. HIDE DEF e1, e2, new
      <4>5. (\E P : e1 \in EventOf(P)) /\ (\E P : e2 \in EventOf(P))
        BY <4>3, <4>4
      <4>6. Tells(list', <<e1, e2>>) /\ \E P : <<e1, e2>> \in Seq(EventOf(P))
        BY <4>3, <4>4, <4>5, TellsTwo
      <4>. QED
        BY <4>2, <4>6
    <3>3. events' = events \o new(c, p)
      BY <1>4, <2>3
    <3>. HIDE DEF c, new
    <3>4. Told(list', events')
      BY <1>3, <1>4, <3>2, <3>3, ToldMore
    <3>. QED
      BY <1>1, <1>4, <2>1, <3>4, HandlerHistory
  <2>. QED
    BY <2>2, <2>3
<1>5. CASE Find(list, idMap, m.pid) # NULL
  <2>. DEFINE p == Find(list, idMap, m.pid)
  <2>1. UNCHANGED table /\ Recorded(list, idMap, p)
    BY <1>5, Zenon DEF OnPsCreateProcess, InsertEvents
  <2>2. list' = list /\ idMap' = idMap
    BY <2>1 DEF table
  <2>3. p \in 1..Len(list) /\ list[p].pid = m.pid /\ list[p].alive
    BY <1>2, <1>5
  <2>. HIDE DEF p, Recorded
  <2>. QED
    BY <1>3, <1>4, <2>1, <2>2, <2>3
<1>6. CASE Find(list, idMap, m.pid) = NULL
  <2>. DEFINE up == CUniqueProcess(m.pid, m.other, m.id)
              n == Len(list) + 1
              with == ListWith(list, up)
  <2>1. PICK order \in IdMapOrders(with) :
          /\ idMap' = order
          /\ list' = FillParent(with, order, n)
          /\ Recorded(list', order, n)
    BY <1>6, Zenon DEF OnPsCreateProcess, InsertEvents
  <2>2. up \in Process /\ up.pid = m.pid /\ up.alive
    <3>1. m.pid \in Ids /\ m.other \in Ids
      BY <1>2 DEF Parents, Ids
    <3>. HIDE DEF m
    <3>. QED
      BY <1>2, <3>1, NewObject DEF CUniqueProcess
  <2>. HIDE DEF up, Recorded
  <2>3. /\ Len(with) = n /\ WellFormed(with, order)
        /\ \A k \in 1..Len(list) : with[k] = list[k]
        /\ with[n] = up
    BY <1>3, <2>2, InsertWellFormed
  <2>4. n \in 1..n /\ 1..Len(list) \subseteq 1..n /\ \A k \in 1..n : k \in 1..Len(list) \/ k = n
    BY <1>3
  <2>. HIDE DEF with, n
  <2>5. /\ list' \in Seq(Process) /\ Len(list') = n
        /\ \A k \in 1..n : list'[k].pid = with[k].pid /\ list'[k].alive = with[k].alive
    BY <2>1, <2>3, <2>4, FillParentEffect
  <2>6. /\ \A k \in 1..Len(list) : list'[k].pid = list[k].pid /\ list'[k].alive = list[k].alive
        /\ list'[n].pid = m.pid /\ list'[n].alive
    <3>1. \A k \in 1..Len(list) : list'[k].pid = list[k].pid /\ list'[k].alive = list[k].alive
      BY <2>3, <2>4, <2>5
    <3>2. list'[n].pid = with[n].pid /\ list'[n].alive = with[n].alive
      BY <2>4, <2>5
    <3>. QED
      BY <2>2, <2>3, <3>1, <3>2, Zenon
  <2>7. WellFormed(list', idMap')
    <3>1. /\ order \in [1..n -> 1..n] /\ Len(order) = n
          /\ \A k \in 1..n : \E i \in 1..n : order[i] = k
      BY <2>3 DEF WellFormed
    <3>2. idMap' = order
      BY <2>1
    <3>. QED
      BY <2>5, <3>1, <3>2 DEF WellFormed
  <2>8. \A k \in 1..Len(list) : list[k].pid # m.pid
    BY <1>2, <1>3, <1>6, NoneKnown
  <2>. HIDE DEF m
  <2>9. OnePerPid(list')
    <3>. SUFFICES ASSUME NEW j \in 1..n, NEW k \in 1..n, list'[j].pid = list'[k].pid
                  PROVE  j = k
      BY <2>5 DEF OnePerPid
    <3>1. CASE j \in 1..Len(list) /\ k \in 1..Len(list)
      BY <1>3, <2>6, <3>1 DEF OnePerPid
    <3>. QED
      BY <2>4, <2>6, <2>8, <3>1
  <2>10. Told(list', events)
    BY <1>3, <2>4, <2>5, <2>6, ToldGrown
  <2>11. Deaths(list', queue, live, used)
    BY <1>3, <2>4, <2>5, <2>6 DEF Deaths
  <2>. QED
    BY <1>4, <2>1, <2>4, <2>5, <2>6, <2>7, <2>9, <2>10, <2>11
<1>. QED
  BY <1>5, <1>6

\* OnPsDestroyProcess: its object, the only one of its process id, dies.
LEMMA OnPsDestroyProcessHistory == IInv /\ History /\ OnPsDestroyProcess => History'
<1>. SUFFICES ASSUME IInv, History, OnPsDestroyProcess PROVE History'
  OBVIOUS
<1>. DEFINE m == Head(queue)
            p == Find(list, idMap, m.pid)
            e == <<NewEvent(m.id, "ProcessDestroy", p, NULL, m.pid)>>
<1>1. /\ Dispatch("process") /\ ~m.flag /\ UNCHANGED sys /\ idMap' = idMap
      /\ list' = Kill(list, p)
      /\ events' = events \o (IF p = NULL THEN <<>> ELSE e)
  BY DEF OnPsDestroyProcess, InsertEvents
<1>2. /\ queue \in Seq(Message) /\ queue # <<>> /\ m.kind = "process"
      /\ m.id \in Nat /\ m.pid \in Parents /\ m.pid \in Actors(m)
      /\ p # NULL => p \in 1..Len(list) /\ list[p].pid = m.pid /\ list[p].alive
  BY <1>1, TakenHistory
<1>3. /\ \E P : events \in Seq(EventOf(P))
      /\ Lives(queue, live, used) /\ Deaths(list, queue, live, used) /\ Told(list, events)
      /\ WellFormed(list, idMap) /\ OnePerPid(list)
      /\ list \in Seq(Process) /\ Len(list) \in Nat
  BY LenProperties DEF IInv, Sound, Typed, History, WellFormed
<1>4. CASE p = NULL
  <2>1. list' = list /\ events' = events \o <<>>
    BY <1>1, <1>4 DEF Kill
  <2>2. Told(list', events')
    BY <1>3, <2>1, ToldMore, TellsNothing
  <2>3. Deaths(list', Tail(queue), live, used)
    BY <1>2, <1>3, <2>1, TailHistory
  <2>4. WellFormed(list', idMap') /\ OnePerPid(list')
    BY <1>1, <1>3, <2>1
  <2>. QED
    BY <1>1, <2>2, <2>3, <2>4, HandlerHistory
<1>5. CASE p # NULL
  <2>1. p \in 1..Len(list) /\ list[p].pid = m.pid /\ list[p].alive /\ p \in 0..Len(list)
    BY <1>2, <1>3, <1>5
  <2>2. IsExit(queue[1], m.pid) /\ Len(queue) \in Nat \ {0}
    BY <1>1, <1>2, LenProperties, EmptySeq DEF IsExit
  <2>. HIDE DEF p
  <2>3. /\ list' \in Seq(Process) /\ Len(list') = Len(list)
        /\ \A n \in 1..Len(list) : /\ list'[n].pid = list[n].pid
                                   /\ n # p => list'[n].alive = list[n].alive
    BY <1>1, <1>3, <2>1, KillEffect
  <2>4. WellFormed(list', idMap') /\ OnePerPid(list')
    BY <1>1, <1>3, <2>3 DEF WellFormed, OnePerPid
  <2>5. Told(list', events')
    <3>1. events' = events \o e
      BY <1>1, <1>5
    <3>2. ASSUME NEW id, id = m.id, NEW pid, pid = m.pid
          PROVE  Told(Kill(list, p), events \o <<NewEvent(id, "ProcessDestroy", p, NULL, pid)>>)
      BY <1>3, <2>1, <3>2, ToldDeath
    <3>. QED
      BY <1>1, <3>1, <3>2
  <2>. HIDE DEF m, e
  <2>6. m.pid \in used \ live /\ \A j \in 1..Len(queue) : IsExit(queue[j], m.pid) => j = 1
    <3>1. m.pid \in used \cup {SystemPid}
      <4>1. queue[1].kind # "stack" /\ m.pid \in Actors(queue[1]) /\ 1 \in 1..Len(queue)
        BY <2>2 DEF IsExit, Actors
      <4>. QED
        BY <1>3, <4>1 DEF Lives
    <3>. QED
      BY <1>3, <2>2, <3>1 DEF Lives
  <2>7. Deaths(list', Tail(queue), live, used)
    <3>1. Deaths(list, Tail(queue), live, used)
      BY <1>2, <1>3, TailHistory
    <3>2. /\ Len(Tail(queue)) = Len(queue) - 1
          /\ \A i \in 1..Len(Tail(queue)) : Tail(queue)[i] = queue[i + 1]
      BY <1>2, <2>2, HeadTailProperties
    <3>3. \A i \in 1..Len(Tail(queue)) : i + 1 \in 1..Len(queue) /\ i + 1 # 1
      BY <2>2, <3>2
    <3>4. \A i \in 1..Len(Tail(queue)) : ~IsExit(Tail(queue)[i], m.pid)
      BY <2>6, <3>2, <3>3
    <3>5. ASSUME NEW n \in 1..Len(list'), ~list'[n].alive
          PROVE  /\ list'[n].pid \in used \ live
                 /\ \A i \in 1..Len(Tail(queue)) : ~IsExit(Tail(queue)[i], list'[n].pid)
      <4>1. CASE n = p
        BY <2>1, <2>3, <2>6, <3>4, <4>1
      <4>2. CASE n # p
        BY <2>3, <3>1, <3>5, <4>2 DEF Deaths
      <4>. QED
        BY <4>1, <4>2
    <3>. QED
      BY <3>5 DEF Deaths
  <2>. QED
    BY <1>1, <2>4, <2>5, <2>7, HandlerHistory
<1>. QED
  BY <1>4, <1>5

\* The handlers that only record.
LEMMA OnPsCreateThreadHistory == IInv /\ History /\ OnPsCreateThread => History'
<1>. SUFFICES ASSUME IInv, History, OnPsCreateThread PROVE History'
  OBVIOUS
<1>. SUFFICES ASSUME NEW m, m = Head(queue), NEW p, p = Find(list, idMap, m.pid),
                     NEW creator, creator = Find(list, idMap, m.other)
              PROVE  History'
  OBVIOUS
<1>1. /\ Dispatch("thread") /\ UNCHANGED <<table, sys>>
      /\ events' = events \o
           (IF p = NULL \/ (m.flag /\ creator = NULL) THEN <<>>
            ELSE IF m.flag
              THEN <<NewEvent(m.id, "CreateThread", creator, p, m.other),
                     NewEvent(m.id, "ThreadCreate", p, creator, m.pid)>>
              ELSE <<NewEvent(m.id, "ThreadDestroy", p, NULL, m.pid)>>)
  BY DEF OnPsCreateThread, InsertEvents
<1>2. /\ m.id \in Nat
      /\ p # NULL => p \in 1..Len(list) /\ m.pid = list[p].pid /\ list[p].alive
      /\ creator # NULL =>
           creator \in 1..Len(list) /\ m.other = list[creator].pid /\ list[creator].alive
  BY <1>1, TakenHistory
<1>3. CASE p = NULL \/ (m.flag /\ creator = NULL)
  <2>1. events' = events \o <<>>
    BY <1>1, <1>3
  <2>. QED
    BY <1>1, <2>1, TellsNothing, RecordHistory
<1>4. CASE p # NULL /\ m.flag /\ creator # NULL
  <2>. DEFINE e1 == NewEvent(m.id, "CreateThread", creator, p, m.other)
              e2 == NewEvent(m.id, "ThreadCreate", p, creator, m.pid)
  <2>1. events' = events \o <<e1, e2>>
    BY <1>1, <1>4
  <2>2. "CreateThread" \in Types /\ "ThreadCreate" \in Types
    BY DEF Types
  <2>3. Living(list, e1) /\ e1 \in EventOf({creator, p, m.other})
    BY <1>2, <1>4, <2>2, LivingEvent
  <2>4. Living(list, e2) /\ e2 \in EventOf({p, creator, m.pid})
    BY <1>2, <1>4, <2>2, LivingEvent
  <2>. HIDE DEF e1, e2
  <2>5. Tells(list, <<e1, e2>>) /\ \E P : <<e1, e2>> \in Seq(EventOf(P))
    BY <2>3, <2>4, TellsTwo
  <2>. QED
    BY <1>1, <2>1, <2>5, RecordHistory
<1>5. CASE p # NULL /\ ~m.flag
  <2>. DEFINE e == NewEvent(m.id, "ThreadDestroy", p, NULL, m.pid)
  <2>1. events' = events \o <<e>>
    BY <1>1, <1>5
  <2>2. "ThreadDestroy" \in Types
    BY DEF Types
  <2>3. Living(list, e) /\ e \in EventOf({p, NULL, m.pid})
    BY <1>2, <1>5, <2>2, LivingEvent
  <2>. HIDE DEF e
  <2>4. Tells(list, <<e>>) /\ \E P : <<e>> \in Seq(EventOf(P))
    BY <2>3, TellsOne
  <2>. QED
    BY <1>1, <2>1, <2>4, RecordHistory
<1>. QED
  BY <1>3, <1>4, <1>5

\* One event of the message's process, or none.
LEMMA OneHistory ==
    ASSUME IInv, History, NEW kind, kind # "stack", Dispatch(kind), UNCHANGED <<table, sys>>,
           NEW m, m = Head(queue), NEW p, p = Find(list, idMap, m.pid),
           NEW type \in Types, type # "ProcessDestroy", NEW target,
           \/ events' = events \o <<>>
           \/ /\ p # NULL
              /\ events' = events \o <<NewEvent(m.id, type, p, target, m.pid)>>
    PROVE  History'
<1>1. /\ m.id \in Nat
      /\ p # NULL => p \in 1..Len(list) /\ m.pid = list[p].pid /\ list[p].alive
  BY TakenHistory
<1>2. CASE events' = events \o <<>>
  BY <1>2, TellsNothing, RecordHistory
<1>3. CASE p # NULL /\ events' = events \o <<NewEvent(m.id, type, p, target, m.pid)>>
  <2>. DEFINE e == NewEvent(m.id, type, p, target, m.pid)
  <2>1. Living(list, e) /\ e \in EventOf({p, target, m.pid})
    BY <1>1, <1>3, LivingEvent
  <2>. HIDE DEF e
  <2>2. Tells(list, <<e>>) /\ \E P : <<e>> \in Seq(EventOf(P))
    BY <2>1, TellsOne
  <2>. QED
    BY <1>3, <2>2, RecordHistory DEF e
<1>. QED
  BY <1>2, <1>3

LEMMA WorkerHistory == IInv /\ History /\ Worker => History'
<1>. SUFFICES ASSUME IInv, History, Worker PROVE History'
  OBVIOUS
<1>. SUFFICES ASSUME NEW m, m = Head(queue), NEW p, p = Find(list, idMap, m.pid),
                     NEW target, target = Find(list, idMap, m.other)
              PROVE  History'
  OBVIOUS
<1>0. /\ "LoadImage" \in Types /\ "Target" \in Types /\ "Call" \in Types
      /\ NULL \in Nat
  BY DEF Types, NULL
<1>1. ASSUME OnPsLoadImage PROVE History'
  <2>1. /\ Dispatch("image") /\ UNCHANGED <<table, sys>>
        /\ events' = events \o (IF p = NULL \/ m.id = 0 THEN <<>>
                                ELSE <<NewEvent(m.id, "LoadImage", p, NULL, m.pid)>>)
    BY <1>1 DEF OnPsLoadImage, InsertEvents
  <2>2. \/ events' = events \o <<>>
        \/ p # NULL /\ events' = events \o <<NewEvent(m.id, "LoadImage", p, NULL, m.pid)>>
    BY <2>1
  <2>. QED
    BY <1>0, <2>1, <2>2, OneHistory
<1>2. ASSUME OnTargetCall PROVE History'
  <2>1. /\ Dispatch("target") /\ UNCHANGED <<table, sys>>
        /\ events' = events \o (IF p = NULL \/ target = NULL THEN <<>>
                                ELSE <<NewEvent(m.id, "Target", p, target, m.pid)>>)
    BY <1>2 DEF OnTargetCall, InsertEvents
  <2>2. \/ events' = events \o <<>>
        \/ p # NULL /\ events' = events \o <<NewEvent(m.id, "Target", p, target, m.pid)>>
    BY <2>1
  <2>. QED
    BY <1>0, <2>1, <2>2, OneHistory
<1>3. ASSUME OnCall PROVE History'
  <2>1. /\ Dispatch("call") /\ UNCHANGED <<table, sys>>
        /\ events' = events \o (IF p = NULL \/ ~m.flag THEN <<>>
                                ELSE <<NewEvent(m.id, "Call", p, NULL, m.pid)>>)
    BY <1>3 DEF OnCall, InsertEvents
  <2>2. \/ events' = events \o <<>>
        \/ p # NULL /\ events' = events \o <<NewEvent(m.id, "Call", p, NULL, m.pid)>>
    BY <2>1
  <2>. QED
    BY <1>0, <2>1, <2>2, OneHistory
\* A call stack changes only a count.
<1>4. ASSUME OnCallStack PROVE History'
  <2>1. /\ Dispatch("stack") /\ UNCHANGED <<table, sys>>
        /\ \/ events' = events
           \/ \E k : events' = [events EXCEPT ![k].stack = @ + 1]
    BY <1>4 DEF OnCallStack
  <2>2. /\ queue \in Seq(Message) /\ queue # <<>> /\ queue' = Tail(queue)
        /\ list' = list /\ idMap' = idMap /\ live' = live /\ used' = used
    BY <2>1 DEF IInv, Sound, Typed, Dispatch, table, sys
  <2>3. Lives(Tail(queue), live, used) /\ Deaths(list, Tail(queue), live, used)
    BY <2>2, TailHistory DEF History
  <2>4. /\ Len(events') = Len(events)
        /\ \A k \in 1..Len(events) : /\ events'[k].proc = events[k].proc
                                     /\ events'[k].pid = events[k].pid
                                     /\ events'[k].type = events[k].type
    <3>1. PICK P : events \in Seq(EventOf(P))
      BY DEF IInv, Sound, Typed
    <3>2. Len(events) \in Nat /\ \A k \in 1..Len(events) : events[k] \in EventOf(P)
      BY <3>1, LenProperties
    <3>3. ASSUME NEW n, events' = [events EXCEPT ![n].stack = @ + 1]
          PROVE  /\ Len(events') = Len(events)
                 /\ \A k \in 1..Len(events) : /\ events'[k].proc = events[k].proc
                                              /\ events'[k].pid = events[k].pid
                                              /\ events'[k].type = events[k].type
      <4>1. PICK new : new = [events[n] EXCEPT !.stack = @ + 1]
        OBVIOUS
      <4>2. events' = [events EXCEPT ![n] = new]
        BY <3>3, <4>1
      <4>3. \A k \in 1..Len(events) : events'[k] = IF k = n THEN new ELSE events[k]
        BY <3>1, <4>2
      <4>4. Len(events') = Len(events)
        BY <3>1, <3>2, <4>2
      <4>5. n \in 1..Len(events) =>
              new.proc = events[n].proc /\ new.pid = events[n].pid /\ new.type = events[n].type
        BY <3>2, <4>1 DEF EventOf
      <4>. QED
        BY <4>3, <4>4, <4>5
    <3>. QED
      BY <2>1, <3>3
  <2>5. Told(list, events')
    BY <2>4 DEF History, Told
  <2>. QED
    BY <2>2, <2>3, <2>5 DEF History
<1>5. ASSUME CallStackCrash PROVE History'
  BY <1>5 DEF CallStackCrash, History, table, sys
<1>. QED
  BY <1>1, <1>2, <1>3, <1>4, <1>5, OnPsCreateProcessHistory, OnPsDestroyProcessHistory,
     OnPsCreateThreadHistory DEF Worker

\* Process ids that are reused are the only thing that breaks it.
THEOREM HistoryInvariance == Spec => []HInv
<1>1. Init => HInv
  BY InitIInv, InitHistory DEF HInv
<1>2. HInv /\ [Next]_vars => HInv'
  <2>. SUFFICES ASSUME HInv, [Next]_vars PROVE HInv'
    OBVIOUS
  <2>1. CASE Next
    <3>1. IInv'
      BY <2>1, DriverIInv, WorkerIInv DEF HInv, Next
    <3>2. ASSUME ~reused' PROVE ~reused
      <4>1. CASE Driver
        BY <3>2, <4>1 DEF Driver, OsCreate, OsExit, OsAct, OsLoadSilently, SendCallStack, sys
      <4>2. CASE Worker
        BY <3>2, <4>2 DEF Worker, OnPsCreateProcess, OnPsDestroyProcess, OnPsCreateThread,
             OnPsLoadImage, OnTargetCall, OnCall, OnCallStack, CallStackCrash, sys
      <4>. QED
        BY <2>1, <4>1, <4>2 DEF Next
    <3>3. ~reused' => History'
      BY <2>1, <3>2, DriverHistory, WorkerHistory DEF HInv, Next
    <3>. QED
      BY <3>1, <3>3 DEF HInv
  <2>2. CASE UNCHANGED vars
    <3>1. IInv'
      BY <2>2 DEF vars, sys, HInv, IInv, Indices
    <3>2. ~reused' => History'
      BY <2>2 DEF vars, table, sys, HInv, History
    <3>. QED
      BY <3>1, <3>2 DEF HInv
  <2>. QED
    BY <2>1, <2>2
<1>. QED
  BY <1>1, <1>2, PTL DEF Spec

\* An event belongs to the process that caused it: Find (ProcessMgr.h), asked
\* for the process id of a message, answers with the object of that process,
\* because its exit is handled after everything it did.
THEOREM ActorIsRightCorrect == Spec => []ActorIsRight
<1>1. HInv => ActorIsRight
  BY DEF HInv, History, Told, ActorIsRight, Indices
<1>. QED
  BY <1>1, HistoryInvariance, PTL

\* After OnPsCreateProcess recorded the exit of a process no handler
\* attributes an event to its object.
THEOREM LastWordCorrect == Spec => []LastWord
<1>1. HInv => LastWord
  BY DEF HInv, History, Told, LastWord, Indices
<1>. QED
  BY <1>1, HistoryInvariance, PTL
=============================================================================
