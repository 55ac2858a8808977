---------------------------- MODULE AsyncLogger ----------------------------
(***************************************************************************)
(* AsyncLogger: a ring of records between the engine's thread, which emits *)
(* them, and the writer thread, which prints them.  A step is one access   *)
(* to an atomic.  An acquire load may miss the latest stores of the other  *)
(* thread, but never one it has seen already: unseenHead and unseenTail    *)
(* count the stores each thread may still miss.  A record is its call's    *)
(* number and level; published and printed are histories.                  *)
(***************************************************************************)
EXTENDS Integers, Sequences

CONSTANTS
    Capacity,  \* kRingCapacity
    Levels,    \* LogLevel, a set of numbers
    MinLevel,  \* min_level
    MaxCalls   \* bound: calls of Log

ASSUME RingAssumption ==
    /\ Capacity \in Nat \ {0}
    /\ Levels \subseteq Int
    /\ MinLevel \in Int
    /\ MaxCalls \in Nat

VARIABLES
    ring,        \* ring_
    head,        \* head_
    tail,        \* tail_
    dropped,     \* dropped_count_
    running,     \* running_
    emitting,    \* the engine's thread: where it is in Emit or in the destructor
    record,      \* the record it is emitting
    writing,     \* the writer thread: where it is in WriterLoop
    unseenHead,  \* stores to head_ the engine's thread may not see yet
    unseenTail,  \* stores to tail_ the writer thread may not see yet
    calls,       \* calls of Log so far
    emits,       \* those that reached Emit
    reported,    \* dropped records the writer has reported
    published,   \* records stored before tail_ moved past them
    printed      \* records written to stdout

vars == <<ring, head, tail, dropped, running, emitting, record, writing, unseenHead, unseenTail,
          calls, emits, reported, published, printed>>

engineVars == <<emitting, record, calls, emits>>
writerVars == <<writing, reported, printed>>

Records == [call : 1..MaxCalls, level : Levels]

(* What a slot holds while the engine's thread is writing it. *)
Torn == [call |-> 0, level |-> MinLevel]

Slots == 0..(Capacity - 1)

TypeOK ==
    /\ ring \in [Slots -> Records \cup {Torn}]
    /\ head \in Slots
    /\ tail \in Slots
    /\ dropped \in Nat
    /\ running \in BOOLEAN
    /\ emitting \in {"no", "unwritten", "written", "joining", "joined"}
    /\ record \in Records \cup {Torn}
    /\ writing \in {"report", "load", "empty", "print", "advance", "ended"}
    /\ unseenHead \in Nat
    /\ unseenTail \in Nat
    /\ calls \in 0..MaxCalls
    /\ emits \in Nat
    /\ reported \in Nat
    /\ published \in Seq(Records)
    /\ printed \in Seq(Records \cup {Torn})

Init ==
    /\ ring = [i \in Slots |-> Torn]
    /\ head = 0
    /\ tail = 0
    /\ dropped = 0
    /\ running = TRUE
    /\ emitting = "no"
    /\ record = Torn
    /\ writing = "report"
    /\ unseenHead = 0
    /\ unseenTail = 0
    /\ calls = 0
    /\ emits = 0
    /\ reported = 0
    /\ published = <<>>
    /\ printed = <<>>

-----------------------------------------------------------------------------

Following(slot) == (slot + 1) % Capacity

(* The value an index had n stores ago. *)
Earlier(slot, n) == (slot + (Capacity - n)) % Capacity

(* LogProxy: a call below the level does nothing. *)
Suppressed ==
    /\ emitting = "no"
    /\ calls < MaxCalls
    /\ \E level \in Levels : level < MinLevel
    /\ calls' = calls + 1
    /\ UNCHANGED <<ring, head, tail, dropped, running, emitting, record, writerVars, unseenHead,
                   unseenTail, emits, published>>

MutRingFull(h) == tail + 1 = h

RingFull(h) == Following(tail) = h

(* Emit up to the check for a full ring: it drops the record, or starts to
   write the slot at tail_. *)
EmitBegins ==
    /\ emitting = "no"
    /\ calls < MaxCalls
    /\ calls' = calls + 1
    /\ emits' = emits + 1
    /\ \E level \in Levels, n \in 0..unseenHead :
          /\ level >= MinLevel
          /\ unseenHead' = n
          /\ IF RingFull(Earlier(head, n))
             THEN /\ dropped' = dropped + 1
                  /\ UNCHANGED <<ring, emitting, record>>
             ELSE /\ emitting' = "unwritten"
                  /\ record' = [call |-> calls + 1, level |-> level]
                  /\ ring' = [ring EXCEPT ![tail] = Torn]
                  /\ UNCHANGED dropped
    /\ UNCHANGED <<head, tail, running, writerVars, unseenTail, published>>

EmitWrites ==
    /\ emitting = "unwritten"
    /\ emitting' = "written"
    /\ ring' = [ring EXCEPT ![tail] = record]
    /\ UNCHANGED <<head, tail, dropped, running, record, writerVars, unseenHead, unseenTail,
                   calls, emits, published>>

EmitPublishes ==
    /\ emitting = "written"
    /\ emitting' = "no"
    /\ tail' = Following(tail)
    /\ unseenTail' = unseenTail + 1
    /\ published' = Append(published, record)
    /\ UNCHANGED <<ring, head, dropped, running, record, writerVars, unseenHead, calls, emits>>

MutDestructorStops ==
    /\ emitting = "no"
    /\ emitting' = "joining"
    /\ UNCHANGED <<ring, head, tail, dropped, running, record, writerVars, unseenHead, unseenTail,
                   calls, emits, published>>

(* ~AsyncLogger runs on the engine's thread, when the program exits. *)
DestructorStops ==
    /\ emitting = "no"
    /\ emitting' = "joining"
    /\ running' = FALSE
    /\ UNCHANGED <<ring, head, tail, dropped, record, writerVars, unseenHead, unseenTail, calls,
                   emits, published>>

DestructorJoins ==
    /\ emitting = "joining"
    /\ writing = "ended"
    /\ emitting' = "joined"
    /\ UNCHANGED <<ring, head, tail, dropped, running, record, writerVars, unseenHead, unseenTail,
                   calls, emits, published>>

-----------------------------------------------------------------------------
(* WriterLoop. *)

MutWriterReports ==
    /\ writing = "report"
    /\ writing' = "load"
    /\ reported' = reported + dropped
    /\ UNCHANGED <<ring, head, tail, dropped, running, engineVars, unseenHead, unseenTail,
                   published, printed>>

(* dropped_count_.exchange(0). *)
WriterReports ==
    /\ writing = "report"
    /\ writing' = "load"
    /\ reported' = reported + dropped
    /\ dropped' = 0
    /\ UNCHANGED <<ring, head, tail, running, engineVars, unseenHead, unseenTail, published,
                   printed>>

(* tail_.load, missing the latest n stores. *)
WriterLoads(n) ==
    /\ writing = "load"
    /\ unseenTail' = n
    /\ writing' = IF head = Earlier(tail, n) THEN "empty" ELSE "print"
    /\ UNCHANGED <<ring, head, tail, dropped, running, engineVars, unseenHead, reported,
                   published, printed>>

MutWriterIdles(seen) ==
    /\ writing = "empty"
    /\ writing' = "ended"
    /\ UNCHANGED <<ring, head, tail, dropped, running, engineVars, unseenHead, unseenTail,
                   reported, published, printed>>

(* Nothing to print: running_.load, which may still see the first value, then
   the end of the thread or a sleep. *)
WriterIdles(seen) ==
    /\ writing = "empty"
    /\ writing' = IF seen THEN "report" ELSE "ended"
    /\ UNCHANGED <<ring, head, tail, dropped, running, engineVars, unseenHead, unseenTail,
                   reported, published, printed>>

WriterPrints ==
    /\ writing = "print"
    /\ writing' = "advance"
    /\ printed' = Append(printed, ring[head])
    /\ UNCHANGED <<ring, head, tail, dropped, running, engineVars, unseenHead, unseenTail,
                   reported, published>>

WriterAdvances ==
    /\ writing = "advance"
    /\ writing' = "report"
    /\ head' = Following(head)
    /\ unseenHead' = unseenHead + 1
    /\ UNCHANGED <<ring, tail, dropped, running, engineVars, unseenTail, reported, published,
                   printed>>

Engine == Suppressed \/ EmitBegins \/ EmitWrites \/ EmitPublishes \/ DestructorStops \/ DestructorJoins

Writer ==
    \/ WriterReports
    \/ \E n \in 0..unseenTail : WriterLoads(n)
    \/ \E seen \in {running, TRUE} : WriterIdles(seen)
    \/ WriterPrints
    \/ WriterAdvances

Terminated == emitting = "joined" /\ UNCHANGED vars

Next == Engine \/ Writer \/ Terminated

Spec == Init /\ [][Next]_vars

(* Both threads keep running once started.  A store becomes visible to the
   other thread's loads in finite time, so a load that is repeated for ever
   does not miss the latest store for ever. *)
Fairness ==
    /\ WF_vars(EmitWrites \/ EmitPublishes \/ DestructorJoins)
    /\ WF_vars(Writer)
    /\ SF_vars(WriterLoads(0))
    /\ SF_vars(WriterIdles(running))

FairSpec == Spec /\ Fairness

-----------------------------------------------------------------------------
(* What is printed is what was published, whole, once and in order: Emit never
   overwrites a record that is not printed yet, and the writer never prints a
   slot that Emit has not finished. *)
PrintedInOrder ==
    /\ Len(printed) <= Len(published)
    /\ \A i \in 1..Len(printed) : printed[i] = published[i]

(* The plain accesses to a record never race: while Emit writes a slot the
   writer is not reading it. *)
NoConcurrentAccess ==
    emitting \in {"unwritten", "written"} /\ writing \in {"print", "advance"} => head # tail

(* Every record given to Emit is published, or counted as dropped by the
   report that was printed or the one that is due. *)
Accounted ==
    emits = Len(published) + dropped + reported
              + IF emitting \in {"unwritten", "written"} THEN 1 ELSE 0

(* The records head_ still has to pass, the one being printed included. *)
Taken == Len(printed) - IF writing = "advance" THEN 1 ELSE 0

Unread == Len(published) - Taken

(* The slot k places after head_. *)
At(k) == (head + k) % Capacity

(* The slots from head_ up to tail_ hold the unread records in order, and with
   those the engine's thread may still believe unread they leave a slot free. *)
RingHoldsUnread ==
    /\ Unread + unseenHead < Capacity
    /\ unseenTail <= Unread
    /\ tail = At(Unread)
    /\ \A k \in 0..(Unread - 1) : ring[At(k)] = published[Taken + k + 1]

(* While Emit writes, one more slot is free; the writer prints a record that
   it has seen published. *)
StepsInRange ==
    /\ emitting \in {"unwritten", "written"} =>
          Unread + unseenHead + 1 < Capacity /\ record \in Records
    /\ emitting = "written" => ring[tail] = record
    /\ writing \in {"print", "advance"} => unseenTail < Unread
    /\ Taken >= 0

(* PrintedInOrder rests on what the ring holds, and that on how far apart the
   indices are, seen from each thread. *)
IInv == TypeOK /\ RingHoldsUnread /\ StepsInRange /\ PrintedInOrder /\ Accounted

(* While the logger lives every published record is printed in the end. *)
PublishedIsPrinted ==
    \A i \in 1..MaxCalls : Len(published) >= i ~> (Len(printed) >= i \/ ~running)

(* The destructor returns: the writer thread sees running_ and ends. *)
DestructorReturns == emitting = "joining" ~> emitting = "joined"

(* README.md, Architecture: "log calls go through an SPSC ring to a writer
   thread, then stdout".  Once the logger is destroyed whatever was put into
   the ring is on stdout. *)
EverythingReachesStdout == emitting = "joined" => Len(printed) = Len(published)
=============================================================================
