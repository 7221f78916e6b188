------------------------------- MODULE BestFit ------------------------------
(***************************************************************************)
(* What the treebins of dlmalloc.c promise: the large free chunks wait in  *)
(* a queue for each size, and a request gets the oldest chunk of the least *)
(* size that fits.                                                         *)
(***************************************************************************)
EXTENDS Naturals, Sequences, FiniteSetsExt, SequencesExt

CONSTANTS Chunks, NULL,
          Sizes       \* of large chunks

VARIABLES free,     \* the queues of the sizes that have chunks, the oldest first
          answer    \* the last step's request, what is elsewhere, and what it got

NoAnswer == [nb |-> 0, elsewhere |-> 0, chunk |-> NULL]

Init == free = <<>> /\ answer = NoAnswer

Free(queues) == UNION {ToSet(queues[s]) : s \in DOMAIN queues}

\* The queues with another one for size s.
With(queues, s, queue) ==
    [t \in (DOMAIN queues \ {s}) \cup (IF queue = <<>> THEN {} ELSE {s}) |->
        IF t = s THEN queue ELSE queues[t]]

Add(queues, s, x) == With(queues, s, Append(IF s \in DOMAIN queues THEN queues[s] ELSE <<>>, x))

Insert(queues, next) ==
    \E s \in Sizes \cap DOMAIN next : \E x \in ToSet(next[s]) \ Free(queues) : next = Add(queues, s, x)

Unlink(queues, next) ==
    \E s \in DOMAIN queues : \E k \in DOMAIN queues[s] :
      next = With(queues, s, RemoveAt(queues[s], k))

Fits(queues, nb) == {s \in DOMAIN queues : s >= nb}

\* The rest of the chunk that is taken may be a free chunk again.
Take(queues, next) ==
    /\ answer'.chunk # NULL /\ Fits(queues, answer'.nb) # {}
    /\ LET s == Min(Fits(queues, answer'.nb))
           left == With(queues, s, Tail(queues[s]))
       IN /\ answer'.chunk = Head(queues[s])
          /\ \/ next = left
             \/ \E rest \in {s - answer'.nb} \cap Sizes \cap DOMAIN next, r \in Chunks \ Free(left) :
                  next = Add(left, rest, r)

\* Nothing is taken if nothing fits, or something elsewhere fits as well.
Refuse(queues, next) ==
    /\ answer'.chunk = NULL
    /\ \/ Fits(queues, answer'.nb) = {}
       \/ answer'.elsewhere >= answer'.nb /\ answer'.elsewhere <= Min(Fits(queues, answer'.nb))
    /\ next = queues

Next == \E queues \in {free}, next \in {free'} :
    \/ answer' = NoAnswer /\ (Insert(queues, next) \/ Unlink(queues, next))
    \/ answer'.nb > 0 /\ (Take(queues, next) \/ Refuse(queues, next))

Spec == Init /\ [][Next]_<<free, answer>>
=============================================================================
