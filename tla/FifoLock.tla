------------------------------ MODULE FifoLock ------------------------------
(***************************************************************************)
(* What a guest mutex promises, with nothing of how it is built: every     *)
(* lock is a queue of threads, the thread at the head holds it, the others *)
(* wait in the order in which they asked.  libkernel_sync.cpp keeps an     *)
(* owner field and a deque of waiters instead; GuestMutex is shown to      *)
(* implement this module.                                                  *)
(***************************************************************************)
EXTENDS Naturals, Sequences, SequencesExt

CONSTANTS Threads,  \* the guest threads
          Locks     \* the locks they share

VARIABLE queue      \* queue[l]: holder of l first, then the waiters in order

FifoInit == queue = [l \in Locks |-> <<>>]

\* A thread that is not queued yet asks for the lock: it gets it at once when
\* the queue is empty, and otherwise waits behind everybody already there.
Enter(t, l) ==
    /\ \A i \in 1 .. Len(queue[l]) : queue[l][i] # t
    /\ queue' = [queue EXCEPT ![l] = Append(@, t)]

\* The holder leaves; the next thread in line holds the lock from that moment.
Leave(l) ==
    /\ queue[l] # <<>>
    /\ queue' = [queue EXCEPT ![l] = Tail(@)]

\* A waiter (never the holder) stops waiting.
GiveUp(l) ==
    \E i \in 2 .. Len(queue[l]) : queue' = [queue EXCEPT ![l] = RemoveAt(@, i)]

FifoNext == \E l \in Locks : Leave(l) \/ GiveUp(l) \/ \E t \in Threads : Enter(t, l)

FifoSpec == FifoInit /\ [][FifoNext]_queue
=============================================================================
