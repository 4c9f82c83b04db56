------------------------- MODULE LogindInhibitProofs -------------------------
(***************************************************************************)
(* Proofs about LogindInhibit, for any number of operations and session    *)
(* events, with or without faults and timeouts.                            *)
(*                                                                         *)
(* What the thread will do to a lock is decided by the signals that it has *)
(* not finished with: the one it handles and those in the queue.  The      *)
(* inductive invariant IInv is about this sequence, Pending, to which      *)
(* logind appends and from which the thread removes the head.              *)
(***************************************************************************)
EXTENDS LogindInhibit, TLAPS

-----------------------------------------------------------------------------
(* The inductive invariant                                                 *)

Handling == monitor \in {"handle", "lock"}

Pending == IF Handling THEN <<signal>> \o queue ELSE queue

\* Signal i announces that an operation of kind k starts, or that it is over.
Starts(k, i) == Pending[i].name = k /\ Pending[i].starting
Stops(k, i) == Pending[i].name = k /\ ~Pending[i].starting

NoFault == "fault" \notin upsets

\* A descriptor in a field is open.
HeldIsOpen == \A k \in Kinds : held[k] => locks[k] > 0

SignalInv ==
    /\ action = "none" <=> phase = "idle"
    /\ monitor = "lock" => signal.name \in Kinds
    /\ \A i \in 1..Len(Pending) : /\ Pending[i].name \in subscribed
                                  /\ Pending[i].name = "session" => Pending[i].starting

\* What has been done when, in setup_bus_monitoring and at the end.
Unlocked(k) == ~held[k] /\ locks[k] = 0
SetupInv ==
    /\ monitor \in {"bus_open", "match_sleep"} => "sleep" \notin subscribed
    /\ monitor \in {"bus_open", "match_sleep", "match_shutdown"}
           => "shutdown" \notin subscribed
    /\ monitor \in Setup \ {"inhibit_shutdown", "attach"} => Unlocked("sleep")
    /\ monitor \in Setup \ {"attach"} => Unlocked("shutdown")
    /\ monitor = "done" => queue = <<>> /\ subscribed = {} /\ \A k \in Kinds : ~held[k]
    /\ NoFault =>
          /\ monitor \notin {"bus_open", "match_sleep", "done"}
                 => "sleep" \in subscribed
          /\ monitor \notin {"bus_open", "match_sleep", "match_shutdown", "done"}
                 => "shutdown" \in subscribed
    /\ upsets = {} /\ monitor \in Setup =>
          /\ action = "none"
          /\ \A i \in 1..Len(Pending) : Pending[i].name = "session"

\* As long as no signal is lost, starts and stops of suspends take turns, and
\* the lock is not held when a stop is handled.
TurnsInv ==
    upsets = {} =>
        /\ \A i, j \in 1..Len(Pending) :
              i < j /\ Stops("sleep", i) /\ Stops("sleep", j)
              => \E m \in (i + 1)..(j - 1) : Starts("sleep", m)
        /\ \A i \in 1..Len(Pending) :
              Stops("sleep", i) /\ (\A m \in 1..(i - 1) : ~Starts("sleep", m))
              => ~held["sleep"]
        /\ action = "sleep" =>
              /\ \A i \in 1..Len(Pending) : Stops("sleep", i)
                     => \E m \in (i + 1)..Len(Pending) : Starts("sleep", m)
              /\ (\A m \in 1..Len(Pending) : ~Starts("sleep", m)) => ~held["sleep"]

\* A lock that is not held will be taken: its operation is under way, or the
\* signal that it is over is pending.
Past(k) == monitor \in {"loop", "handle", "lock", "attach"}
              \cup (IF k = "sleep" THEN {"inhibit_shutdown"} ELSE {})
ArmedInv ==
    NoFault => \A k \in Kinds :
        /\ Past(k) => \/ held[k]
                      \/ action = k
                      \/ \E i \in 1..Len(Pending) : Stops(k, i)
        /\ \A i \in 1..Len(Pending) : Starts(k, i) =>
              \/ action = k
              \/ \E j \in (i + 1)..Len(Pending) : Stops(k, j)

\* The lock of an operation that found the service ready is held until
\* on_event has returned for it.
ToldInv ==
    action # "none" /\ expected /\ ~timed_out /\ monitor \notin {"cleanup", "done"} =>
        /\ monitor \in {"loop", "handle", "lock"}
        /\ \A i \in 1..Len(Pending) :
              Pending[i].name = "session"
              \/ (Starts(action, i) /\ Pending[i].op = operations)
        /\ \/ told[action] = operations
           \/ phase = "preparing" /\ locks[action] > 0 /\ monitor # "lock"

IInv == /\ TypeOK /\ HeldIsOpen /\ SignalInv /\ SetupInv
        /\ NoLeakedLock /\ TurnsInv /\ ArmedInv /\ ToldInv
-----------------------------------------------------------------------------
(* How a step changes the pending signals                                  *)

Kept == Pending' = Pending

Removed ==
    /\ Len(Pending) \in Nat \ {0} /\ Len(Pending') \in Nat
    /\ Pending[1] = signal
    /\ Len(Pending) = Len(Pending') + 1
    /\ \A i \in 1..Len(Pending') : Pending'[i] = Pending[i + 1]

Appended(s) ==
    /\ Len(Pending) \in Nat /\ Len(Pending') = Len(Pending) + 1
    /\ \A i \in 1..Len(Pending) : Pending'[i] = Pending[i]
    /\ Pending'[Len(Pending) + 1] = s

\* Pending signals are signals.
LEMMA PendingType ==
    ASSUME TypeOK
    PROVE  Pending \in Seq(Signals) /\ Len(Pending) \in Nat
BY DEF TypeOK, Pending

\* Outside of the handlers the queue is all there is.
LEMMA QueueKept ==
    ASSUME ~Handling, ~Handling', queue' = queue
    PROVE  Kept
BY DEF Kept, Pending

\* Taking a signal from the queue into a handler leaves it pending.
LEMMA DispatchKept ==
    ASSUME TypeOK, queue # <<>>, ~Handling, Handling',
           queue' = Tail(queue), signal' = Head(queue)
    PROVE  Kept
<1>1. queue \in Seq(Signals)
      BY DEF TypeOK
<1>2. queue = <<Head(queue)>> \o Tail(queue)
      BY <1>1
<1>3. QED
      BY <1>2 DEF Kept, Pending

\* A handler that returns is done with its signal.
LEMMA HandledRemoved ==
    ASSUME TypeOK, Handling, ~Handling', queue' = queue
    PROVE  Removed
<1>1. queue \in Seq(Signals) /\ signal \in Signals /\ Len(queue) \in Nat
      BY DEF TypeOK
<1>2. Pending = <<signal>> \o queue /\ Pending' = queue
      BY DEF Pending
<1>3. Len(Pending) = Len(queue) + 1 /\ Pending[1] = signal
      BY <1>1, <1>2
<1>4. \A i \in 1..Len(queue) : Pending[i + 1] = queue[i]
      BY <1>1, <1>2
<1>5. QED
      BY <1>1, <1>2, <1>3, <1>4 DEF Removed

\* logind appends, or the signal is not subscribed to.
LEMMA EmitAppends ==
    ASSUME TypeOK, NEW s \in Signals, Emit(s), monitor' = monitor, signal' = signal
    PROVE  IF s.name \in subscribed THEN Appended(s) ELSE Kept
<1>1. queue \in Seq(Signals) /\ signal \in Signals /\ Len(queue) \in Nat
      BY DEF TypeOK
<1>2. Handling' <=> Handling
      BY DEF Handling
<1>3. CASE s.name \notin subscribed
      BY <1>2, <1>3 DEF Emit, Kept, Pending
<1>4. CASE s.name \in subscribed /\ ~Handling
      BY <1>1, <1>2, <1>4 DEF Emit, Appended, Pending
<1>5. CASE s.name \in subscribed /\ Handling
  <2>1. Pending = <<signal>> \o queue /\ Pending' = <<signal>> \o Append(queue, s)
        BY <1>2, <1>5 DEF Pending, Emit
  <2>2. Len(Pending) = Len(queue) + 1 /\ Len(Pending') = Len(queue) + 2
        BY <1>1, <2>1
  <2>3. Pending'[Len(Pending) + 1] = s
        BY <1>1, <2>1, <2>2
  <2>4. \A i \in 1..Len(Pending) : Pending'[i] = Pending[i]
        BY <1>1, <2>1, <2>2
  <2>5. QED
        BY <1>1, <1>5, <2>2, <2>3, <2>4 DEF Appended
<1>6. QED
      BY <1>3, <1>4, <1>5
-----------------------------------------------------------------------------
(* TurnsInv: suspends                                                      *)

LEMMA TurnsKept ==
    ASSUME TurnsInv, Kept, action' = "sleep" => action = "sleep", upsets \subseteq upsets',
           held'["sleep"] => held["sleep"]
    PROVE  TurnsInv'
BY DEF TurnsInv, Kept, Starts, Stops

\* The lock is released for a start; it is taken again only for a stop, which
\* the next start follows before the next stop.
LEMMA TurnsRemoved ==
    ASSUME TurnsInv, Removed, action' = action, upsets \subseteq upsets',
           Starts("sleep", 1) => ~held'["sleep"],
           ~Stops("sleep", 1) => (held'["sleep"] => held["sleep"])
    PROVE  TurnsInv'
<1> SUFFICES ASSUME upsets = {}, upsets' = {}
             PROVE  TurnsInv'
    BY DEF TurnsInv
<1> DEFINE n == Len(Pending')
<1>1. n \in Nat /\ Len(Pending) = n + 1
      BY DEF Removed
<1>2. \A i \in 1..n : /\ Starts("sleep", i)' <=> Starts("sleep", i + 1)
                      /\ Stops("sleep", i)' <=> Stops("sleep", i + 1)
      BY <1>1 DEF Removed, Starts, Stops
<1> HIDE DEF n
<1>3. ASSUME NEW i \in 1..n, NEW j \in 1..n, i < j,
             Stops("sleep", i)', Stops("sleep", j)'
      PROVE  \E m \in (i + 1)..(j - 1) : Starts("sleep", m)'
  <2>1. /\ i + 1 \in 1..(n + 1) /\ j + 1 \in 1..(n + 1) /\ i + 1 < j + 1
        /\ Stops("sleep", i + 1) /\ Stops("sleep", j + 1)
        BY <1>1, <1>2, <1>3
  <2>2. PICK m \in (i + 1 + 1)..(j + 1 - 1) : Starts("sleep", m)
        BY <1>1, <2>1 DEF TurnsInv
  <2>3. m - 1 \in (i + 1)..(j - 1) /\ m - 1 \in 1..n /\ (m - 1) + 1 = m
        BY <1>1, <2>2
  <2>4. QED
        BY <1>2, <2>2, <2>3
<1>4. ASSUME NEW i \in 1..n, Stops("sleep", i)',
             \A m \in 1..(i - 1) : ~Starts("sleep", m)'
      PROVE  ~held'["sleep"]
  <2>1. i + 1 \in 1..(n + 1) /\ Stops("sleep", i + 1)
        BY <1>1, <1>2, <1>4
  <2>2. ASSUME NEW m \in 2..i PROVE ~Starts("sleep", m)
    <3>1. m - 1 \in 1..(i - 1) /\ m - 1 \in 1..n /\ (m - 1) + 1 = m
          BY <1>1
    <3>2. QED
          BY <1>2, <1>4, <3>1
  <2>3. CASE Starts("sleep", 1)
        BY <2>3
  <2>4. CASE Stops("sleep", 1)
    <3>1. 1 \in 1..(n + 1) /\ 1 < i + 1
          BY <1>1
    <3>2. \E m \in 2..((i + 1) - 1) : Starts("sleep", m)
          BY <1>1, <2>1, <2>4, <3>1 DEF TurnsInv
    <3>3. QED
          BY <2>2, <3>2
  <2>5. CASE ~Starts("sleep", 1) /\ ~Stops("sleep", 1)
    <3>1. \A m \in 1..((i + 1) - 1) : ~Starts("sleep", m)
          BY <2>2, <2>5
    <3>2. ~held["sleep"]
          BY <1>1, <2>1, <3>1 DEF TurnsInv
    <3>3. QED
          BY <2>5, <3>2
  <2>6. QED
        BY <2>3, <2>4, <2>5
<1>5. ASSUME action' = "sleep", NEW i \in 1..n, Stops("sleep", i)'
      PROVE  \E m \in (i + 1)..n : Starts("sleep", m)'
  <2>1. i + 1 \in 1..(n + 1) /\ Stops("sleep", i + 1)
        BY <1>1, <1>2, <1>5
  <2>2. PICK m \in (i + 1 + 1)..(n + 1) : Starts("sleep", m)
        BY <1>1, <1>5, <2>1 DEF TurnsInv
  <2>3. m - 1 \in (i + 1)..n /\ m - 1 \in 1..n /\ (m - 1) + 1 = m
        BY <1>1, <2>2
  <2>4. QED
        BY <1>2, <2>2, <2>3
<1>6. ASSUME action' = "sleep", \A m \in 1..n : ~Starts("sleep", m)'
      PROVE  ~held'["sleep"]
  <2>1. ASSUME NEW m \in 2..(n + 1) PROVE ~Starts("sleep", m)
    <3>1. m - 1 \in 1..n /\ (m - 1) + 1 = m
          BY <1>1
    <3>2. QED
          BY <1>2, <1>6, <3>1
  <2>2. CASE Starts("sleep", 1)
        BY <2>2
  <2>3. CASE Stops("sleep", 1)
        BY <1>1, <1>6, <2>1, <2>3 DEF TurnsInv
  <2>4. CASE ~Starts("sleep", 1) /\ ~Stops("sleep", 1)
    <3>1. \A m \in 1..(n + 1) : ~Starts("sleep", m)
          BY <1>1, <2>1, <2>4
    <3>2. QED
          BY <1>1, <1>6, <2>4, <3>1 DEF TurnsInv
  <2>5. QED
        BY <2>2, <2>3, <2>4
<1>7. QED
      BY <1>3, <1>4, <1>5, <1>6 DEF TurnsInv, n

\* logind appends what takes turns with what it has sent before.
LEMMA TurnsAppended ==
    ASSUME TurnsInv, NEW s, Appended(s), upsets \subseteq upsets',
           held'["sleep"] = held["sleep"],
           \/ s.name # "sleep" /\ (action' = "sleep" <=> action = "sleep")
           \/ s.name = "sleep" /\ s.starting
           \/ s.name = "sleep" /\ ~s.starting /\ action = "sleep" /\ action' = "none"
    PROVE  TurnsInv'
<1> SUFFICES ASSUME upsets = {}, upsets' = {}
             PROVE  TurnsInv'
    BY DEF TurnsInv
<1>0. PICK n \in Nat : n = Len(Pending)
      BY DEF Appended
<1>1. n = Len(Pending) /\ Len(Pending') = n + 1
      BY <1>0 DEF Appended
<1>2. \A i \in 1..n : /\ Starts("sleep", i)' <=> Starts("sleep", i)
                      /\ Stops("sleep", i)' <=> Stops("sleep", i)
      BY <1>1 DEF Appended, Starts, Stops
<1>3. /\ Starts("sleep", n + 1)' <=> s.name = "sleep" /\ s.starting
      /\ Stops("sleep", n + 1)' <=> s.name = "sleep" /\ ~s.starting
      BY <1>1 DEF Appended, Starts, Stops
<1>4. ASSUME NEW i \in 1..(n + 1), NEW j \in 1..(n + 1), i < j,
             Stops("sleep", i)', Stops("sleep", j)'
      PROVE  \E m \in (i + 1)..(j - 1) : Starts("sleep", m)'
  <2>1. i \in 1..n /\ Stops("sleep", i)
        BY <1>1, <1>2, <1>4
  <2>2. CASE j = n + 1
    <3>1. PICK m \in (i + 1)..n : Starts("sleep", m)
          BY <1>1, <1>3, <1>4, <2>1, <2>2 DEF TurnsInv
    <3>2. m \in 1..n /\ m \in (i + 1)..(j - 1)
          BY <1>1, <2>2, <3>1
    <3>3. QED
          BY <1>2, <3>1, <3>2
  <2>3. CASE j # n + 1
    <3>1. j \in 1..n /\ Stops("sleep", j)
          BY <1>1, <1>2, <1>4, <2>3
    <3>2. PICK m \in (i + 1)..(j - 1) : Starts("sleep", m)
          BY <1>1, <1>4, <2>1, <3>1 DEF TurnsInv
    <3>3. m \in 1..n
          BY <1>1, <3>1, <3>2
    <3>4. QED
          BY <1>2, <3>2, <3>3
  <2>4. QED
        BY <2>2, <2>3
<1>5. ASSUME NEW i \in 1..(n + 1), Stops("sleep", i)',
             \A m \in 1..(i - 1) : ~Starts("sleep", m)'
      PROVE  ~held'["sleep"]
  <2>1. \A m \in 1..(i - 1) : m \in 1..n /\ ~Starts("sleep", m)
        BY <1>1, <1>2, <1>5
  <2>2. CASE i = n + 1
        BY <1>1, <1>3, <1>5, <2>1, <2>2 DEF TurnsInv
  <2>3. CASE i # n + 1
        BY <1>1, <1>2, <1>5, <2>1, <2>3 DEF TurnsInv
  <2>4. QED
        BY <2>2, <2>3
<1>6. CASE action' = "sleep"
  <2>1. CASE s.name = "sleep" /\ s.starting
        BY <1>1, <1>2, <1>3, <2>1 DEF TurnsInv
  <2>2. CASE s.name # "sleep" /\ action = "sleep"
    <3>1. \A i \in 1..(n + 1) : Stops("sleep", i)' => i \in 1..n /\ Stops("sleep", i)
          BY <1>1, <1>2, <1>3, <2>2
    <3>2. ASSUME NEW i \in 1..n, Stops("sleep", i)
          PROVE  \E m \in (i + 1)..(n + 1) : Starts("sleep", m)'
      <4>1. PICK m \in (i + 1)..n : Starts("sleep", m)
            BY <1>1, <2>2, <3>2 DEF TurnsInv
      <4>2. m \in 1..n /\ m \in (i + 1)..(n + 1)
            BY <1>1, <4>1
      <4>3. QED
            BY <1>2, <4>1, <4>2
    <3>3. (\A m \in 1..(n + 1) : ~Starts("sleep", m)') => ~held'["sleep"]
          BY <1>1, <1>2, <2>2 DEF TurnsInv
    <3>4. QED
          BY <1>1, <1>4, <1>5, <3>1, <3>2, <3>3 DEF TurnsInv
  <2>3. QED
        BY <1>6, <2>1, <2>2
<1>7. CASE action' # "sleep"
      BY <1>1, <1>4, <1>5, <1>7 DEF TurnsInv
<1>8. QED
      BY <1>6, <1>7
-----------------------------------------------------------------------------
(* ArmedInv: locks that are not held                                       *)

LEMMA ArmedKept ==
    ASSUME ArmedInv, Kept, \A k \in Kinds : action = k => action' = k,
           upsets \subseteq upsets',
           NoFault' => \A k \in Kinds : /\ held[k] => held'[k]
                                        /\ Past(k)' => Past(k) \/ held'[k] \/ action = k
    PROVE  ArmedInv'
BY DEF ArmedInv, Kept, Starts, Stops, NoFault

\* A start is followed by a stop, or its operation goes on; a stop has the
\* lock taken again unless the next operation has begun.
LEMMA ArmedRemoved ==
    ASSUME ArmedInv, Removed, action' = action, upsets \subseteq upsets',
           NoFault' => \A k \in Kinds :
               /\ Past(k)' => Past(k)
               /\ held[k] => held'[k] \/ Starts(k, 1) \/ action = k
               /\ Stops(k, 1) => held'[k] \/ action = k
    PROVE  ArmedInv'
<1> SUFFICES ASSUME NoFault', NEW k \in Kinds
             PROVE  /\ Past(k)' => \/ held'[k]
                                   \/ action' = k
                                   \/ \E i \in 1..Len(Pending') : Stops(k, i)'
                    /\ \A i \in 1..Len(Pending') : Starts(k, i)' =>
                          \/ action' = k
                          \/ \E j \in (i + 1)..Len(Pending') : Stops(k, j)'
    BY DEF ArmedInv
<1>0. NoFault
      BY DEF NoFault
<1>1. PICK n \in Nat : n = Len(Pending')
      BY DEF Removed
<1>2. Len(Pending) = n + 1
      BY <1>1 DEF Removed
<1>3. \A i \in 1..n : /\ Starts(k, i)' <=> Starts(k, i + 1)
                      /\ Stops(k, i)' <=> Stops(k, i + 1)
      BY <1>1, <1>2 DEF Removed, Starts, Stops
<1>4. ASSUME NEW i \in 1..(n + 1), Starts(k, i), action # k
      PROVE  \E j \in i..n : Stops(k, j)'
  <2>1. PICK j \in (i + 1)..(n + 1) : Stops(k, j)
        BY <1>0, <1>2, <1>4 DEF ArmedInv
  <2>2. j - 1 \in i..n /\ j - 1 \in 1..n /\ (j - 1) + 1 = j
        BY <1>1, <2>1
  <2>3. QED
        BY <1>3, <2>1, <2>2
<1>5. ASSUME Past(k)', action' # k, ~held'[k]
      PROVE  \E i \in 1..n : Stops(k, i)'
  <2>1. CASE Starts(k, 1)
        BY <1>1, <1>4, <1>5, <2>1
  <2>2. CASE ~Starts(k, 1)
    <3>1. ~held[k] /\ Past(k) /\ ~Stops(k, 1)
          BY <1>5, <2>2
    <3>2. PICK i \in 1..(n + 1) : Stops(k, i)
          BY <1>0, <1>2, <1>5, <3>1 DEF ArmedInv
    <3>3. i - 1 \in 1..n /\ (i - 1) + 1 = i
          BY <1>1, <3>1, <3>2
    <3>4. QED
          BY <1>3, <3>2, <3>3
  <2>3. QED
        BY <2>1, <2>2
<1>6. ASSUME NEW i \in 1..n, Starts(k, i)', action' # k
      PROVE  \E j \in (i + 1)..n : Stops(k, j)'
      BY <1>1, <1>3, <1>4, <1>6
<1>7. QED
      BY <1>1, <1>5, <1>6

\* logind appends the stop of what it has started.
LEMMA ArmedAppended ==
    ASSUME ArmedInv, NEW s, Appended(s), upsets' = upsets, held' = held,
           \A k \in Kinds : Past(k)' => Past(k),
           \/ action' = action
           \/ action = "none" /\ s.starting /\ s.name = action'
           \/ action' = "none" /\ ~s.starting /\ s.name = action,
           s.name \in Kinds => action' = s.name \/ ~s.starting
    PROVE  ArmedInv'
<1> SUFFICES ASSUME NoFault', NEW k \in Kinds
             PROVE  /\ Past(k)' => \/ held'[k]
                                   \/ action' = k
                                   \/ \E i \in 1..Len(Pending') : Stops(k, i)'
                    /\ \A i \in 1..Len(Pending') : Starts(k, i)' =>
                          \/ action' = k
                          \/ \E j \in (i + 1)..Len(Pending') : Stops(k, j)'
    BY DEF ArmedInv
<1>0. NoFault
      BY DEF NoFault
<1>1. PICK n \in Nat : n = Len(Pending) /\ Len(Pending') = n + 1
      BY DEF Appended
<1>2. \A i \in 1..n : /\ Starts(k, i)' <=> Starts(k, i)
                      /\ Stops(k, i)' <=> Stops(k, i)
      BY <1>1 DEF Appended, Starts, Stops
<1>3. /\ Starts(k, n + 1)' <=> s.name = k /\ s.starting
      /\ Stops(k, n + 1)' <=> s.name = k /\ ~s.starting
      BY <1>1 DEF Appended, Starts, Stops
<1>4. CASE action' = k
      BY <1>4
<1>5. CASE action' # k /\ action = k
  <2>1. Stops(k, n + 1)' /\ ~Starts(k, n + 1)'
        BY <1>3, <1>5 DEF Kinds
  <2>2. n + 1 \in 1..(n + 1) /\ \A i \in 1..(n + 1) : Starts(k, i)' => n + 1 \in (i + 1)..(n + 1)
        BY <1>1, <2>1
  <2>3. QED
        BY <1>1, <2>1, <2>2
<1>6. CASE action' # k /\ action # k
  <2>1. Past(k)' => held'[k] \/ \E i \in 1..(n + 1) : Stops(k, i)'
    <3>1. ASSUME Past(k)', ~held[k]
          PROVE  \E i \in 1..n : Stops(k, i)
          BY <1>0, <1>1, <1>6, <3>1 DEF ArmedInv
    <3>2. \A i \in 1..n : i \in 1..(n + 1)
          BY <1>1
    <3>3. QED
          BY <1>2, <3>1, <3>2
  <2>2. ASSUME NEW i \in 1..(n + 1), Starts(k, i)'
        PROVE  \E j \in (i + 1)..(n + 1) : Stops(k, j)'
    <3>1. i \in 1..n /\ Starts(k, i)
          BY <1>1, <1>2, <1>3, <1>6, <2>2
    <3>2. PICK j \in (i + 1)..n : Stops(k, j)
          BY <1>0, <1>1, <1>6, <3>1 DEF ArmedInv
    <3>3. j \in 1..n /\ j \in (i + 1)..(n + 1)
          BY <1>1, <3>1, <3>2
    <3>4. QED
          BY <1>2, <3>2, <3>3
  <2>3. QED
        BY <1>1, <2>1, <2>2
<1>7. QED
      BY <1>4, <1>5, <1>6
-----------------------------------------------------------------------------
(* setup_bus_monitoring                                                    *)

\* The two kinds of operation.
LEMMA KindsAre == /\ Kinds = {"sleep", "shutdown"}
                  /\ "session" \notin Kinds /\ "none" \notin Kinds
BY DEF Kinds

\* What acquire_inhibit_lock does to fields and locks.
LEMMA Acquired ==
    ASSUME TypeOK, HeldIsOpen, NEW k \in Kinds, acquire_inhibit_lock(k)
    PROVE  /\ held' \in [Kinds -> BOOLEAN] /\ locks' \in [Kinds -> Nat]
           /\ HeldIsOpen'
           /\ \A m \in Kinds \ {k} : held'[m] = held[m] /\ locks'[m] = locks[m]
           /\ upsets \subseteq upsets' /\ upsets' \subseteq {"fault", "setup"}
           /\ Unlocked(k) => Accounted(k)'
           /\ NoFault' => held'[k] \/ action = k
<1>1. held \in [Kinds -> BOOLEAN] /\ locks \in [Kinds -> Nat]
      /\ upsets \subseteq {"fault", "setup"}
      BY DEF TypeOK
<1>2. CASE /\ action # k /\ Works
           /\ held' = [held EXCEPT ![k] = TRUE]
           /\ locks' = [locks EXCEPT ![k] = @ + 1]
  <2>1. /\ held' \in [Kinds -> BOOLEAN] /\ locks' \in [Kinds -> Nat]
        /\ held'[k] = TRUE /\ locks'[k] = locks[k] + 1 /\ upsets' = upsets
        /\ \A m \in Kinds \ {k} : held'[m] = held[m] /\ locks'[m] = locks[m]
        BY <1>1, <1>2 DEF Works
  <2>2. HeldIsOpen'
        BY <1>1, <2>1 DEF HeldIsOpen
  <2>3. Unlocked(k) => Accounted(k)'
        BY <1>1, <2>1 DEF Unlocked, Accounted
  <2>4. QED
        BY <1>1, <2>1, <2>2, <2>3
<1>3. CASE /\ Fails \/ (action = k /\ Works)
           /\ held' = [held EXCEPT ![k] = FALSE]
           /\ UNCHANGED locks
  <2>1. /\ held' \in [Kinds -> BOOLEAN] /\ held'[k] = FALSE /\ locks' = locks
        /\ \A m \in Kinds \ {k} : held'[m] = held[m]
        /\ upsets \subseteq upsets' /\ upsets' \subseteq {"fault", "setup"}
        /\ NoFault' => action = k
        BY <1>1, <1>3 DEF Works, Fails, NoFault
  <2>2. HeldIsOpen'
        BY <1>1, <2>1 DEF HeldIsOpen
  <2>3. Unlocked(k) => Accounted(k)'
        BY <2>1 DEF Unlocked, Accounted
  <2>4. QED
        BY <1>1, <2>1, <2>2, <2>3
<1>4. QED
      BY <1>2, <1>3 DEF acquire_inhibit_lock

\* What closing descriptors does to them.
LEMMA Closed ==
    ASSUME TypeOK, HeldIsOpen, NEW K, CloseLocks(K)
    PROVE  /\ held' \in [Kinds -> BOOLEAN] /\ locks' \in [Kinds -> Nat]
           /\ HeldIsOpen'
           /\ \A m \in Kinds : Accounted(m) => Accounted(m)'
           /\ \A m \in Kinds : m \notin K => held'[m] = held[m] /\ locks'[m] = locks[m]
           /\ \A m \in Kinds : m \in K => ~held'[m]
<1>1. /\ held \in [Kinds -> BOOLEAN] /\ locks \in [Kinds -> Nat]
      /\ \A m \in Kinds : held[m] => locks[m] - 1 \in Nat
      BY DEF TypeOK, HeldIsOpen
<1>2. held' \in [Kinds -> BOOLEAN] /\ locks' \in [Kinds -> Nat]
      BY <1>1 DEF CloseLocks
<1>3. ASSUME NEW m \in Kinds
      PROVE  /\ m \in K => ~held'[m]
             /\ m \notin K \/ ~held[m] => held'[m] = held[m] /\ locks'[m] = locks[m]
             /\ m \in K /\ held[m] => locks'[m] = locks[m] - 1
      BY <1>1 DEF CloseLocks
<1>4. HeldIsOpen'
      BY <1>3 DEF HeldIsOpen
<1>5. ASSUME NEW m \in Kinds, Accounted(m)
      PROVE  Accounted(m)'
  <2>1. CASE m \in K /\ held[m]
        BY <1>1, <1>3, <1>5, <2>1 DEF Accounted
  <2>2. CASE m \notin K \/ ~held[m]
        BY <1>3, <1>5, <2>2 DEF Accounted
  <2>3. QED
        BY <2>1, <2>2
<1>6. QED
      BY <1>2, <1>3, <1>4, <1>5

\* During the setup no operation is one that the service was ready for.
LEMMA ToldInSetup ==
    ASSUME ToldInv, monitor \in Setup, UNCHANGED <<action, expected, timed_out>>
    PROVE  ToldInv'
BY DEF ToldInv, Setup

\* The first steps take no lock.
LEMMA SubscribeStep ==
    ASSUME IInv, BusOpen \/ MatchSleep \/ MatchShutdown \/ MatchSession
    PROVE  IInv'
<1> USE DEF BusOpen, MatchSleep, MatchShutdown, MatchSession, MatchSignal,
            MonitorAt, setupFrame, logindVars
<1>1. /\ monitor \in Setup /\ ~Handling /\ ~Handling' /\ queue' = queue
      /\ UNCHANGED <<signal, told, held, locks, logindVars, sessions>>
      /\ upsets \subseteq upsets'
      BY DEF Setup, Handling, Works, Fails
<1>2. Kept
      BY <1>1, QueueKept
<1>3. TypeOK'
  <2>1. monitor' \in MonitorPC
        BY DEF MonitorPC, Setup
  <2>2. subscribed' \subseteq Kinds \cup {"session"}
        BY DEF IInv, TypeOK, Kinds
  <2>3. upsets' \subseteq {"fault", "setup"}
        BY DEF IInv, TypeOK, Works, Fails
  <2>4. QED
        BY <1>1, <2>1, <2>2, <2>3 DEF IInv, TypeOK
<1>4. HeldIsOpen'
      BY <1>1 DEF IInv, HeldIsOpen
<1>5. SignalInv'
      BY <1>1, <1>2 DEF IInv, SignalInv, Kept, Handling
<1>6. SetupInv'
      BY <1>1, <1>2 DEF IInv, SetupInv, Kept, Unlocked, Setup, NoFault, Works, Fails
<1>7. NoLeakedLock'
      BY <1>1 DEF IInv, NoLeakedLock, Accounted
<1>8. TurnsInv'
      BY <1>1, <1>2, TurnsKept DEF IInv
<1>9. ArmedInv'
  <2>1. NoFault' => \A k \in Kinds : Past(k)' => Past(k)
        BY DEF Past, Works, Fails, NoFault
  <2>2. QED
        BY <1>1, <1>2, <2>1, ArmedKept DEF IInv
<1>10. ToldInv'
       BY <1>1, ToldInSetup DEF IInv
<1>11. QED
       BY <1>3, <1>4, <1>5, <1>6, <1>7, <1>8, <1>9, <1>10 DEF IInv

\* The first lock of each kind goes into an empty field.
LEMMA InhibitStep ==
    ASSUME IInv, InhibitSleep \/ InhibitShutdown
    PROVE  IInv'
<1>0. PICK k \in Kinds : k = IF monitor = "inhibit_sleep" THEN "sleep" ELSE "shutdown"
      BY DEF Kinds
<1>1. /\ monitor \in Setup /\ ~Handling /\ ~Handling' /\ queue' = queue
      /\ monitor' = IF monitor = "inhibit_sleep" THEN "inhibit_shutdown" ELSE "attach"
      /\ monitor \in {"inhibit_sleep", "inhibit_shutdown"}
      /\ UNCHANGED <<subscribed, signal, told, logindVars, sessions>>
      /\ k = (IF monitor = "inhibit_sleep" THEN "sleep" ELSE "shutdown")
      /\ acquire_inhibit_lock(k)
      BY <1>0 DEF InhibitSleep, InhibitShutdown, MonitorAt, setupFrame, Setup,
             Handling, Kinds
<1>2. Kept
      BY <1>1, QueueKept
<1>3. Unlocked(k)
      BY <1>1 DEF IInv, SetupInv, Setup
<1>4. /\ held' \in [Kinds -> BOOLEAN] /\ locks' \in [Kinds -> Nat] /\ HeldIsOpen'
      /\ \A m \in Kinds \ {k} : held'[m] = held[m] /\ locks'[m] = locks[m]
      /\ upsets \subseteq upsets' /\ upsets' \subseteq {"fault", "setup"}
      /\ Accounted(k)'
      /\ NoFault' => held'[k] \/ action = k
      BY <1>1, <1>3, Acquired DEF IInv
<1>5. TypeOK'
      BY <1>1, <1>4 DEF IInv, TypeOK, MonitorPC, Setup, logindVars
<1>6. SignalInv'
      BY <1>1, <1>2 DEF IInv, SignalInv, Kept, Handling, logindVars
<1>7. SetupInv'
      BY <1>1, <1>2, <1>4, KindsAre
      DEF IInv, SetupInv, Kept, Unlocked, Setup, NoFault, logindVars
<1>8. NoLeakedLock'
      BY <1>1, <1>4, KindsAre DEF IInv, NoLeakedLock, Accounted
<1>9. TurnsInv'
  <2>1. ASSUME upsets' = {}
        PROVE  action' # "sleep" /\ \A i \in 1..Len(Pending') : ~Stops("sleep", i)'
        BY <1>1, <1>2, <1>4, <2>1 DEF IInv, SetupInv, Kept, Stops, logindVars
  <2>2. QED
        BY <2>1 DEF TurnsInv
<1>10. ArmedInv'
  <2>1. NoFault' => \A m \in Kinds : /\ held[m] => held'[m]
                                     /\ Past(m)' => Past(m) \/ held'[m] \/ action = m
        BY <1>1, <1>3, <1>4, KindsAre DEF Past, Unlocked
  <2>2. QED
        BY <1>1, <1>2, <1>4, <2>1, ArmedKept DEF IInv, logindVars
<1>11. ToldInv'
       BY <1>1, ToldInSetup DEF IInv, logindVars
<1>12. QED
       BY <1>4, <1>5, <1>6, <1>7, <1>8, <1>9, <1>10, <1>11 DEF IInv

\* The loop is entered, with all that has been set up or with nothing.
LEMMA AttachStep ==
    ASSUME IInv, AttachEvent
    PROVE  IInv'
<1>1. /\ monitor = "attach" /\ monitor' = "loop" /\ ~Handling /\ ~Handling'
      /\ UNCHANGED <<signal, told, logindVars, sessions>>
      BY DEF AttachEvent, MonitorAt, setupFrame, Handling
<1>2. ToldInv'
      BY <1>1, ToldInSetup DEF IInv, Setup, logindVars
<1>3. CASE Works /\ UNCHANGED <<subscribed, held, locks, queue>>
  <2>1. Kept
        BY <1>1, <1>3, QueueKept
  <2>2. TypeOK'
        BY <1>1, <1>3 DEF IInv, TypeOK, MonitorPC, logindVars, Works
  <2>3. HeldIsOpen' /\ SignalInv' /\ SetupInv' /\ NoLeakedLock'
        BY <1>1, <1>3, <2>1
        DEF IInv, HeldIsOpen, SignalInv, SetupInv, NoLeakedLock, Accounted, Kept,
            Setup, NoFault, logindVars, Works
  <2>4. TurnsInv'
        BY <1>1, <1>3, <2>1, TurnsKept DEF IInv, logindVars, Works
  <2>5. ArmedInv'
    <3>1. \A m \in Kinds : Past(m)' => Past(m)
          BY <1>1 DEF Past
    <3>2. QED
          BY <1>1, <1>3, <2>1, <3>1, ArmedKept DEF IInv, logindVars, Works
  <2>6. QED
        BY <1>2, <2>2, <2>3, <2>4, <2>5 DEF IInv
<1>4. CASE Fails /\ release_inhibit_locks /\ subscribed' = {} /\ queue' = <<>>
  <2>1. Pending' = <<>> /\ ~NoFault' /\ upsets' = upsets \cup {"fault"}
        BY <1>1, <1>4 DEF Pending, Fails, NoFault
  <2>2. /\ held' \in [Kinds -> BOOLEAN] /\ locks' \in [Kinds -> Nat] /\ HeldIsOpen'
        /\ \A m \in Kinds : Accounted(m) => Accounted(m)'
        BY <1>4, Closed DEF IInv, release_inhibit_locks
  <2>3. TypeOK'
        BY <1>1, <1>4, <2>1, <2>2 DEF IInv, TypeOK, MonitorPC, logindVars
  <2>4. SignalInv' /\ SetupInv'
        BY <1>1, <2>1 DEF IInv, SignalInv, SetupInv, Setup, logindVars
  <2>5. NoLeakedLock'
        BY <2>1, <2>2, KindsAre DEF IInv, NoLeakedLock
  <2>6. TurnsInv' /\ ArmedInv'
        BY <2>1 DEF TurnsInv, ArmedInv
  <2>7. QED
        BY <1>2, <2>2, <2>3, <2>4, <2>5, <2>6 DEF IInv
<1>5. QED
      BY <1>3, <1>4 DEF AttachEvent
-----------------------------------------------------------------------------
(* The loop and the handlers                                               *)

\* A signal that is still pending, or is dropped, and nothing else.
LEMMA DispatchStep ==
    ASSUME IInv, Dispatch
    PROVE  IInv'
<1>1. /\ monitor = "loop" /\ ~Handling
      /\ queue # <<>> /\ queue' = Tail(queue) /\ signal' = Head(queue)
      /\ UNCHANGED <<subscribed, held, locks, told, logindVars, sessions>>
      BY DEF Dispatch, MonitorAt, Handling
<1>2. queue \in Seq(Signals) /\ signal' \in Signals /\ queue' \in Seq(Signals)
      BY <1>1 DEF IInv, TypeOK
<1>3. CASE Works /\ monitor' = "handle"
  <2>1. Kept
        BY <1>1, <1>3, DispatchKept DEF IInv, Handling
  <2>2. TypeOK'
        BY <1>1, <1>2, <1>3 DEF IInv, TypeOK, MonitorPC, logindVars, Works
  <2>3. HeldIsOpen' /\ SignalInv' /\ SetupInv' /\ NoLeakedLock'
        BY <1>1, <1>3, <2>1
        DEF IInv, HeldIsOpen, SignalInv, SetupInv, NoLeakedLock, Accounted, Kept,
            Setup, NoFault, logindVars, Works
  <2>4. TurnsInv'
        BY <1>1, <1>3, <2>1, TurnsKept DEF IInv, logindVars, Works
  <2>5. ArmedInv'
    <3>1. \A m \in Kinds : Past(m)' => Past(m)
          BY <1>1, <1>3 DEF Past
    <3>2. QED
          BY <1>1, <1>3, <2>1, <3>1, ArmedKept DEF IInv, logindVars, Works
  <2>6. ToldInv'
        BY <1>1, <1>3, <2>1 DEF IInv, ToldInv, Kept, Starts, logindVars
  <2>7. QED
        BY <2>2, <2>3, <2>4, <2>5, <2>6 DEF IInv
<1>4. CASE Fails /\ monitor' = "loop"
  <2>1. /\ Pending = queue /\ Pending' = Tail(queue) /\ ~NoFault'
        /\ upsets' = upsets \cup {"fault"}
        BY <1>1, <1>4 DEF Pending, Handling, Fails, NoFault
  <2>2. /\ Len(Pending) \in Nat /\ Len(Pending') \in Nat /\ Len(Pending) = Len(Pending') + 1
        /\ \A i \in 1..Len(Pending') : Pending'[i] = Pending[i + 1]
        BY <1>1, <1>2, <2>1
  <2>3. TypeOK'
        BY <1>1, <1>2, <1>4, <2>1 DEF IInv, TypeOK, MonitorPC, logindVars
  <2>4. HeldIsOpen' /\ SignalInv' /\ SetupInv' /\ NoLeakedLock'
        BY <1>1, <1>4, <2>1, <2>2
        DEF IInv, HeldIsOpen, SignalInv, SetupInv, NoLeakedLock, Accounted,
            Setup, logindVars
  <2>5. TurnsInv' /\ ArmedInv'
        BY <2>1 DEF TurnsInv, ArmedInv
  <2>6. ToldInv'
        BY <1>1, <1>4, <2>2 DEF IInv, ToldInv, Starts, logindVars
  <2>7. QED
        BY <2>3, <2>4, <2>5, <2>6 DEF IInv
<1>5. QED
      BY <1>3, <1>4 DEF Dispatch

\* on_event has returned: the operation of the signal has been told.
LEMMA OnEventStep ==
    ASSUME IInv, OnEvent
    PROVE  IInv'
<1>1. /\ monitor = "handle" /\ Handling
      /\ UNCHANGED <<held, locks, subscribed, queue, signal, logindVars, sessions, upsets>>
      /\ monitor' = IF signal.name = "session" THEN "loop" ELSE "lock"
      BY DEF OnEvent, MonitorAt, Handling, handlerFrame, Works
<1>2. signal \in Signals
      BY DEF IInv, TypeOK
<1>3. TypeOK'
  <2>1. told' \in [Kinds -> 0..MaxOperations]
        BY <1>2, InhibitAssumption DEF IInv, TypeOK, OnEvent, Signals
  <2>2. QED
        BY <1>1, <2>1 DEF IInv, TypeOK, MonitorPC, logindVars
<1>4. HeldIsOpen' /\ NoLeakedLock'
      BY <1>1 DEF IInv, HeldIsOpen, NoLeakedLock, Accounted
<1>5. \A m \in Kinds : Past(m)' => Past(m)
      BY <1>1 DEF Past
<1>6. CASE signal.name = "session"
  <2>1. Removed
        BY <1>1, <1>6, HandledRemoved DEF IInv, Handling
  <2>2. told' = told /\ ~Starts("sleep", 1) /\ ~Stops("sleep", 1)
        /\ \A k \in Kinds : ~Stops(k, 1)
        BY <1>1, <1>6, <2>1, KindsAre DEF OnEvent, Removed, Starts, Stops
  <2>3. SignalInv' /\ SetupInv'
        BY <1>1, <1>6, <2>1
        DEF IInv, SignalInv, SetupInv, Removed, Setup, NoFault, logindVars
  <2>4. TurnsInv'
        BY <1>1, <2>1, <2>2, TurnsRemoved DEF IInv, logindVars
  <2>5. ArmedInv'
        BY <1>1, <1>5, <2>1, <2>2, ArmedRemoved DEF IInv, logindVars
  <2>6. ToldInv'
        BY <1>1, <1>6, <2>1, <2>2 DEF IInv, ToldInv, Removed, Starts, logindVars
  <2>7. QED
        BY <1>3, <1>4, <2>3, <2>4, <2>5, <2>6 DEF IInv
<1>7. CASE signal.name # "session"
  <2>1. Kept
        BY <1>1, <1>7 DEF Kept, Pending, Handling
  <2>2. SignalInv' /\ SetupInv'
        BY <1>1, <1>2, <1>7, <2>1
        DEF IInv, SignalInv, SetupInv, Kept, Setup, NoFault, Signals, logindVars
  <2>3. TurnsInv'
        BY <1>1, <2>1, TurnsKept DEF IInv, logindVars
  <2>4. ArmedInv'
        BY <1>1, <1>5, <2>1, ArmedKept DEF IInv, logindVars
  <2>5. ToldInv'
    <3> SUFFICES ASSUME action' # "none", expected', ~timed_out'
                 PROVE  ToldInv'
        BY DEF ToldInv
    <3>1. Len(Pending) \in Nat \ {0} /\ Pending[1] = signal
          BY <1>1, PendingType DEF IInv, TypeOK, Pending
    <3>2. Starts(action, 1) /\ Pending[1].op = operations
          BY <1>1, <1>7, <3>1 DEF IInv, ToldInv, logindVars
    <3>3. told'[action] = operations
          BY <1>1, <1>2, <1>7, <3>1, <3>2 DEF OnEvent, Starts, IInv, TypeOK, logindVars
    <3>4. QED
          BY <1>1, <1>7, <2>1, <3>3 DEF IInv, ToldInv, Kept, Starts, logindVars
  <2>6. QED
        BY <1>3, <1>4, <2>2, <2>3, <2>4, <2>5 DEF IInv
<1>8. QED
      BY <1>6, <1>7

\* What the handlers of all signals have in common when they are done.
LEMMA HandlerEnds ==
    ASSUME IInv, monitor = "lock", monitor' = "loop", told' = told, handlerFrame
    PROVE  /\ Handling /\ Removed /\ signal \in Signals /\ signal.name \in Kinds
           /\ Len(Pending) \in Nat \ {0}
           /\ \A k \in Kinds : /\ Starts(k, 1) <=> signal.name = k /\ signal.starting
                               /\ Stops(k, 1) <=> signal.name = k /\ ~signal.starting
           /\ \A k \in Kinds : Past(k)' => Past(k)
           /\ SignalInv'
           /\ (upsets \subseteq upsets') => SetupInv'
           /\ locks' = locks \/ told[action] = operations \/ action = "none"
                  \/ ~expected \/ timed_out => ToldInv'
<1>1. Handling /\ Removed /\ Len(Pending) \in Nat \ {0}
      BY HandledRemoved DEF IInv, Handling, handlerFrame, Removed
<1>2. signal \in Signals /\ signal.name \in Kinds
      BY DEF IInv, TypeOK, SignalInv
<1>3. \A k \in Kinds : /\ Starts(k, 1) <=> signal.name = k /\ signal.starting
                       /\ Stops(k, 1) <=> signal.name = k /\ ~signal.starting
      BY <1>1 DEF Removed, Starts, Stops
<1>4. \A k \in Kinds : Past(k)' => Past(k)
      BY DEF Past
<1>5. SignalInv'
      BY <1>1 DEF IInv, SignalInv, Removed, handlerFrame, logindVars
<1>6. (upsets \subseteq upsets') => SetupInv'
      BY <1>1 DEF IInv, SetupInv, Removed, Setup, NoFault, handlerFrame, logindVars
<1>7. locks' = locks \/ told[action] = operations \/ action = "none"
          \/ ~expected \/ timed_out => ToldInv'
      BY <1>1 DEF IInv, ToldInv, Removed, Starts, handlerFrame, logindVars
<1>8. QED
      BY <1>1, <1>2, <1>3, <1>4, <1>5, <1>6, <1>7

\* An operation that starts gets its lock released.
LEMMA ReleaseStep ==
    ASSUME IInv, ReleaseLock
    PROVE  IInv'
<1>1. /\ monitor = "lock" /\ monitor' = "loop" /\ told' = told /\ handlerFrame
      /\ signal.starting /\ CloseLocks({signal.name}) /\ upsets' = upsets
      BY DEF ReleaseLock, MonitorAt, Works
<1>2. /\ Removed /\ signal \in Signals /\ signal.name \in Kinds
      /\ Len(Pending) \in Nat \ {0}
      /\ \A k \in Kinds : /\ Starts(k, 1) <=> signal.name = k /\ signal.starting
                          /\ Stops(k, 1) <=> signal.name = k /\ ~signal.starting
      /\ \A k \in Kinds : Past(k)' => Past(k)
      /\ SignalInv' /\ SetupInv'
      BY <1>1, HandlerEnds
<1>3. /\ held' \in [Kinds -> BOOLEAN] /\ locks' \in [Kinds -> Nat] /\ HeldIsOpen'
      /\ \A m \in Kinds : Accounted(m) => Accounted(m)'
      /\ \A m \in Kinds : m # signal.name => held'[m] = held[m]
      /\ ~held'[signal.name]
      BY <1>1, <1>2, Closed DEF IInv
<1>4. TypeOK'
      BY <1>1, <1>3 DEF IInv, TypeOK, MonitorPC, handlerFrame, logindVars
<1>5. NoLeakedLock'
      BY <1>1, <1>3, KindsAre DEF IInv, NoLeakedLock
<1>6. TurnsInv'
      BY <1>1, <1>2, <1>3, TurnsRemoved, KindsAre DEF IInv, handlerFrame, logindVars
<1>7. ArmedInv'
  <2>1. \A k \in Kinds : /\ held[k] => held'[k] \/ Starts(k, 1)
                         /\ ~Stops(k, 1)
        BY <1>1, <1>2, <1>3
  <2>2. QED
        BY <1>1, <1>2, <2>1, ArmedRemoved DEF IInv, handlerFrame, logindVars
<1>8. ToldInv'
  <2>1. action = "none" \/ ~expected \/ timed_out \/ told[action] = operations
        BY <1>1 DEF IInv, ToldInv
  <2>2. QED
        BY <1>1, <2>1, HandlerEnds
<1>9. QED
      BY <1>2, <1>3, <1>4, <1>5, <1>6, <1>7, <1>8 DEF IInv

\* An operation that is over gets its lock taken again.
LEMMA ReacquireStep ==
    ASSUME IInv, NEW k \in Kinds,
           monitor = "lock", monitor' = "loop", told' = told, handlerFrame,
           signal.name = k, ~signal.starting, acquire_inhibit_lock(k),
           k = "shutdown" => ~held[k]
    PROVE  IInv'
<1>1. /\ Removed /\ Len(Pending) \in Nat \ {0}
      /\ \A m \in Kinds : /\ Starts(m, 1) <=> signal.name = m /\ signal.starting
                          /\ Stops(m, 1) <=> signal.name = m /\ ~signal.starting
      /\ \A m \in Kinds : Past(m)' => Past(m)
      /\ SignalInv'
      BY HandlerEnds
<1>2. /\ held' \in [Kinds -> BOOLEAN] /\ locks' \in [Kinds -> Nat] /\ HeldIsOpen'
      /\ \A m \in Kinds \ {k} : held'[m] = held[m] /\ locks'[m] = locks[m]
      /\ upsets \subseteq upsets' /\ upsets' \subseteq {"fault", "setup"}
      /\ Unlocked(k) => Accounted(k)'
      /\ NoFault' => held'[k] \/ action = k
      BY Acquired DEF IInv
<1>3. upsets = {} => ~held["sleep"] \/ k # "sleep"
      BY <1>1 DEF IInv, TurnsInv
<1>4. TypeOK'
      BY <1>2 DEF IInv, TypeOK, MonitorPC, handlerFrame, logindVars
<1>5. SetupInv'
      BY <1>2, HandlerEnds
<1>6. NoLeakedLock'
  <2>1. upsets' = {} => upsets = {}
        BY <1>2
  <2>2. ~held[k] /\ Accounted(k) => Accounted(k)'
        BY <1>2 DEF Accounted, Unlocked
  <2>3. \A m \in Kinds \ {k} : Accounted(m) => Accounted(m)'
        BY <1>2 DEF Accounted
  <2>4. CASE k = "sleep"
        BY <1>3, <2>1, <2>2, <2>3, <2>4, KindsAre DEF IInv, NoLeakedLock
  <2>5. CASE k = "shutdown"
        BY <2>1, <2>2, <2>3, <2>5, KindsAre DEF IInv, NoLeakedLock
  <2>6. QED
        BY <2>4, <2>5, KindsAre
<1>7. TurnsInv'
  <2>1. ~Starts("sleep", 1) /\ (~Stops("sleep", 1) => k # "sleep")
        BY <1>1, KindsAre
  <2>2. QED
        BY <1>1, <1>2, <2>1, TurnsRemoved, KindsAre DEF IInv, handlerFrame, logindVars
<1>8. ArmedInv'
  <2>1. NoFault' => \A m \in Kinds :
            /\ held[m] => held'[m] \/ Starts(m, 1) \/ action = m
            /\ Stops(m, 1) => held'[m] \/ action = m
        BY <1>1, <1>2
  <2>2. QED
        BY <1>1, <1>2, <2>1, ArmedRemoved DEF IInv, handlerFrame, logindVars
<1>9. ToldInv'
      BY HandlerEnds DEF IInv, ToldInv
<1>10. QED
       BY <1>1, <1>2, <1>4, <1>5, <1>6, <1>7, <1>8, <1>9 DEF IInv

\* The thread leaves the loop; what it has still to do does not matter.
LEMMA LeaveStep ==
    ASSUME IInv, LeaveLoop
    PROVE  IInv'
<1>1. /\ monitor = "loop" /\ monitor' = "cleanup" /\ ~Handling /\ ~Handling'
      /\ UNCHANGED <<held, locks, told, subscribed, queue, signal, logindVars,
                     sessions, upsets>>
      BY DEF LeaveLoop, MonitorAt, Handling, handlerFrame, Works
<1>2. Kept
      BY <1>1, QueueKept
<1>3. TypeOK' /\ HeldIsOpen' /\ SignalInv' /\ SetupInv' /\ NoLeakedLock'
      BY <1>1, <1>2
      DEF IInv, TypeOK, HeldIsOpen, SignalInv, SetupInv, NoLeakedLock, Accounted,
          Kept, MonitorPC, Setup, NoFault, logindVars
<1>4. TurnsInv'
      BY <1>1, <1>2, TurnsKept DEF IInv, logindVars
<1>5. ArmedInv'
  <2>1. \A m \in Kinds : Past(m)' => Past(m)
        BY <1>1 DEF Past
  <2>2. QED
        BY <1>1, <1>2, <2>1, ArmedKept DEF IInv, logindVars
<1>6. ToldInv'
      BY <1>1 DEF ToldInv
<1>7. QED
      BY <1>3, <1>4, <1>5, <1>6 DEF IInv

\* All locks are given up, and no signal comes in any more.
LEMMA CleanupStep ==
    ASSUME IInv, Cleanup
    PROVE  IInv'
<1>1. /\ monitor = "cleanup" /\ monitor' = "done" /\ ~Handling'
      /\ subscribed' = {} /\ queue' = <<>> /\ CloseLocks(Kinds)
      /\ UNCHANGED <<signal, told, logindVars, sessions, upsets>>
      BY DEF Cleanup, MonitorAt, Handling, release_inhibit_locks
<1>2. Pending' = <<>> /\ Len(Pending') = 0
      BY <1>1 DEF Pending
<1>3. /\ held' \in [Kinds -> BOOLEAN] /\ locks' \in [Kinds -> Nat] /\ HeldIsOpen'
      /\ \A m \in Kinds : Accounted(m) => Accounted(m)'
      /\ \A m \in Kinds : ~held'[m]
      BY <1>1, Closed DEF IInv
<1>4. TypeOK'
      BY <1>1, <1>3 DEF IInv, TypeOK, MonitorPC, logindVars
<1>5. SignalInv' /\ SetupInv'
      BY <1>1, <1>2, <1>3 DEF IInv, SignalInv, SetupInv, Setup, logindVars
<1>6. NoLeakedLock'
      BY <1>1, <1>3, KindsAre DEF IInv, NoLeakedLock
<1>7. TurnsInv' /\ ArmedInv' /\ ToldInv'
      BY <1>1, <1>2, <1>3, KindsAre DEF TurnsInv, ArmedInv, ToldInv, Past
<1>8. QED
      BY <1>3, <1>4, <1>5, <1>6, <1>7 DEF IInv

\* Every step of the monitoring thread.
LEMMA MonitorStep ==
    ASSUME IInv, Monitor \/ LeaveLoop
    PROVE  IInv'
<1>1. CASE ReacquireSleep
      BY <1>1, ReacquireStep, KindsAre DEF ReacquireSleep, MonitorAt
<1>2. CASE ReacquireShutdown /\ ~held["shutdown"]
      BY <1>2, ReacquireStep, KindsAre DEF ReacquireShutdown, MonitorAt
<1>3. CASE ReacquireShutdown /\ held["shutdown"]
  <2>1. /\ monitor = "lock" /\ monitor' = "loop" /\ told' = told /\ handlerFrame
        /\ signal.name = "shutdown" /\ ~signal.starting
        /\ UNCHANGED <<held, locks, upsets>>
        BY <1>3 DEF ReacquireShutdown, MonitorAt, Works
  <2>2. /\ Removed /\ SignalInv' /\ SetupInv' /\ ToldInv'
        /\ \A k \in Kinds : /\ Starts(k, 1) <=> signal.name = k /\ signal.starting
                            /\ Stops(k, 1) <=> signal.name = k /\ ~signal.starting
        /\ \A k \in Kinds : Past(k)' => Past(k)
        BY <2>1, HandlerEnds
  <2>3. TypeOK' /\ HeldIsOpen' /\ NoLeakedLock'
        BY <2>1 DEF IInv, TypeOK, HeldIsOpen, NoLeakedLock, Accounted, MonitorPC,
                    handlerFrame, logindVars
  <2>4. TurnsInv'
        BY <2>1, <2>2, TurnsRemoved, KindsAre DEF IInv, handlerFrame, logindVars
  <2>5. ArmedInv'
        BY <1>3, <2>1, <2>2, ArmedRemoved, KindsAre DEF IInv, handlerFrame, logindVars
  <2>6. QED
        BY <2>2, <2>3, <2>4, <2>5 DEF IInv
<1>4. QED
      BY <1>1, <1>2, <1>3, SubscribeStep, InhibitStep, AttachStep, DispatchStep,
         OnEventStep, ReleaseStep, LeaveStep, CleanupStep
      DEF Monitor
-----------------------------------------------------------------------------
(* systemd-logind                                                          *)

\* An operation begins, and its start is announced.
LEMMA BeginStep ==
    ASSUME IInv, NEW k \in Kinds, Begin(k)
    PROVE  IInv'
<1>1. /\ action = "none" /\ action' = k /\ phase' = "preparing"
      /\ operations < MaxOperations /\ operations' = operations + 1
      /\ expected' = (locks[k] > 0 /\ monitor = "loop" /\ queue = <<>>)
      /\ timed_out' = FALSE
      /\ UNCHANGED <<threadVars, sessions>>
      /\ upsets' = IF monitor \in Setup THEN upsets \cup {"setup"} ELSE upsets
      BY DEF Begin
<1>2. PICK s \in Signals : /\ s.name = k /\ s.starting /\ s.op = operations'
                           /\ Emit(s)
  <2>1. operations' \in 0..MaxOperations
        BY <1>1, InhibitAssumption DEF IInv, TypeOK
  <2>2. [name |-> k, starting |-> TRUE, op |-> operations'] \in Signals
        BY <2>1 DEF Signals
  <2>3. QED
        BY <2>2 DEF Begin
<1>3. IF k \in subscribed THEN Appended(s) ELSE Kept
      BY <1>1, <1>2, EmitAppends DEF IInv, threadVars
<1>4. TypeOK'
  <2>1. queue' \in Seq(Signals)
        BY <1>2 DEF Emit, IInv, TypeOK
  <2>2. operations' \in 0..MaxOperations /\ expected' \in BOOLEAN
        BY <1>1, InhibitAssumption DEF IInv, TypeOK
  <2>3. upsets' \subseteq {"fault", "setup"}
        BY <1>1 DEF IInv, TypeOK
  <2>4. QED
        BY <1>1, <2>1, <2>2, <2>3, KindsAre DEF IInv, TypeOK, threadVars
<1>5. HeldIsOpen' /\ NoLeakedLock'
      BY <1>1 DEF IInv, HeldIsOpen, NoLeakedLock, Accounted, threadVars
<1>6. SignalInv'
      BY <1>1, <1>2, <1>3, KindsAre DEF IInv, SignalInv, Appended, Kept, threadVars
<1>7. SetupInv'
  <2>1. monitor = "done" => queue' = queue
        BY <1>1, <1>2 DEF IInv, SetupInv, Emit
  <2>2. ~(upsets' = {} /\ monitor' \in Setup)
        BY <1>1 DEF threadVars
  <2>3. NoFault' => NoFault
        BY <1>1 DEF NoFault
  <2>4. QED
        BY <1>1, <2>1, <2>2, <2>3 DEF IInv, SetupInv, Unlocked, threadVars
<1>8. TurnsInv'
  <2>1. CASE k \in subscribed
        BY <1>1, <1>2, <1>3, <2>1, TurnsAppended, KindsAre DEF IInv, threadVars
  <2>2. CASE k \notin subscribed /\ k # "sleep"
        BY <1>1, <1>3, <2>2, TurnsKept DEF IInv, threadVars
  <2>3. CASE k \notin subscribed /\ k = "sleep" /\ upsets' = {}
    <3>1. monitor \notin Setup /\ upsets = {}
          BY <1>1, <2>3
    <3>2. monitor = "done"
          BY <2>3, <3>1 DEF IInv, SetupInv, NoFault, Setup
    <3>3. Pending = <<>> /\ ~held["sleep"]
          BY <3>2, KindsAre DEF IInv, SetupInv, Pending, Handling
    <3>4. QED
          BY <1>1, <1>3, <2>3, <3>3 DEF TurnsInv, Kept, Starts, Stops, threadVars
  <2>4. QED
        BY <2>1, <2>2, <2>3 DEF TurnsInv
<1>9. ArmedInv'
  <2>1. \A m \in Kinds : Past(m)' => Past(m)
        BY <1>1 DEF Past, threadVars
  <2>2. CASE k \in subscribed
    <3>1. NoFault' => NoFault
          BY <1>1 DEF NoFault
    <3>2. PICK n \in Nat : n = Len(Pending) /\ Len(Pending') = n + 1
          BY <1>2, <1>3, <2>2 DEF Appended
    <3>3. /\ \A i \in 1..n : \A m \in Kinds : /\ Starts(m, i)' <=> Starts(m, i)
                                              /\ Stops(m, i)' <=> Stops(m, i)
          /\ \A m \in Kinds : Starts(m, n + 1)' => m = k
          BY <1>2, <1>3, <2>2, <3>2 DEF Appended, Starts, Stops
    <3>4. ASSUME NoFault', NEW m \in Kinds, action' # m, Past(m)', ~held'[m]
          PROVE  \E i \in 1..Len(Pending') : Stops(m, i)'
      <4>1. PICK i \in 1..n : Stops(m, i)
            BY <1>1, <2>1, <3>1, <3>2, <3>4, KindsAre DEF IInv, ArmedInv, threadVars
      <4>2. QED
            BY <3>2, <3>3, <4>1
    <3>5. ASSUME NoFault', NEW m \in Kinds, action' # m,
                 NEW i \in 1..Len(Pending'), Starts(m, i)'
          PROVE  \E j \in (i + 1)..Len(Pending') : Stops(m, j)'
      <4>1. i \in 1..n /\ Starts(m, i)
            BY <1>1, <3>2, <3>3, <3>5
      <4>2. PICK j \in (i + 1)..n : Stops(m, j)
            BY <1>1, <3>1, <3>2, <3>5, <4>1, KindsAre DEF IInv, ArmedInv
      <4>3. j \in 1..n
            BY <4>1, <4>2
      <4>4. QED
            BY <3>2, <3>3, <4>2, <4>3
    <3>6. QED
          BY <3>4, <3>5 DEF ArmedInv
  <2>3. CASE k \notin subscribed
    <3>1. upsets \subseteq upsets' /\ \A m \in Kinds : action # m
          BY <1>1, KindsAre
    <3>2. QED
          BY <1>1, <1>3, <2>1, <2>3, <3>1, ArmedKept DEF IInv, threadVars
  <2>4. QED
        BY <2>2, <2>3
<1>10. ToldInv'
  <2> SUFFICES ASSUME expected'
               PROVE  ToldInv'
      BY DEF ToldInv
  <2>1. monitor = "loop" /\ Pending = <<>> /\ Len(Pending) = 0 /\ locks[k] > 0
        BY <1>1 DEF Pending, Handling
  <2>2. \A i \in 1..Len(Pending') : Pending'[i] = s
        BY <1>2, <1>3, <2>1 DEF Appended, Kept
  <2>3. QED
        BY <1>1, <1>2, <2>1, <2>2 DEF ToldInv, Starts, threadVars
<1>11. QED
       BY <1>4, <1>5, <1>6, <1>7, <1>8, <1>9, <1>10 DEF IInv

\* A session comes or goes: no lock is concerned.
LEMMA SessionStep ==
    ASSUME IInv, SessionChange
    PROVE  IInv'
<1>1. /\ sessions < MaxSessions /\ sessions' = sessions + 1
      /\ UNCHANGED <<threadVars, logindVars, upsets>>
      BY DEF SessionChange
<1>2. PICK s \in Signals : s.name = "session" /\ s.starting /\ Emit(s)
  <2>1. [name |-> "session", starting |-> TRUE, op |-> 0] \in Signals
        BY InhibitAssumption DEF Signals
  <2>2. QED
        BY <2>1 DEF SessionChange
<1>3. IF "session" \in subscribed THEN Appended(s) ELSE Kept
      BY <1>1, <1>2, EmitAppends DEF IInv, threadVars
<1>4. TypeOK'
  <2>1. queue' \in Seq(Signals)
        BY <1>2 DEF Emit, IInv, TypeOK
  <2>2. sessions' \in 0..MaxSessions
        BY <1>1, InhibitAssumption DEF IInv, TypeOK
  <2>3. QED
        BY <1>1, <2>1, <2>2 DEF IInv, TypeOK, threadVars, logindVars
<1>5. HeldIsOpen' /\ NoLeakedLock'
      BY <1>1 DEF IInv, HeldIsOpen, NoLeakedLock, Accounted, threadVars
<1>6. SignalInv'
      BY <1>1, <1>2, <1>3 DEF IInv, SignalInv, Appended, Kept, threadVars, logindVars
<1>7. SetupInv'
  <2>1. monitor = "done" => queue' = queue
        BY <1>2 DEF IInv, SetupInv, Emit
  <2>2. NoFault' <=> NoFault
        BY <1>1 DEF NoFault
  <2>3. upsets' = {} /\ monitor' \in Setup =>
            \A i \in 1..Len(Pending') : Pending'[i].name = "session"
        BY <1>1, <1>2, <1>3 DEF IInv, SetupInv, Appended, Kept, threadVars
  <2>4. QED
        BY <1>1, <2>1, <2>2, <2>3 DEF IInv, SetupInv, Unlocked, threadVars, logindVars
<1>8. TurnsInv'
  <2>1. CASE "session" \in subscribed
        BY <1>1, <1>2, <1>3, <2>1, TurnsAppended DEF IInv, threadVars, logindVars
  <2>2. CASE "session" \notin subscribed
        BY <1>1, <1>3, <2>2, TurnsKept DEF IInv, threadVars, logindVars
  <2>3. QED
        BY <2>1, <2>2
<1>9. ArmedInv'
  <2>1. \A m \in Kinds : Past(m)' => Past(m)
        BY <1>1 DEF Past, threadVars
  <2>2. CASE "session" \in subscribed
        BY <1>1, <1>2, <1>3, <2>1, <2>2, ArmedAppended, KindsAre
        DEF IInv, threadVars, logindVars
  <2>3. CASE "session" \notin subscribed
        BY <1>1, <1>3, <2>1, <2>3, ArmedKept DEF IInv, threadVars, logindVars
  <2>4. QED
        BY <2>2, <2>3
<1>10. ToldInv'
       BY <1>1, <1>2, <1>3 DEF IInv, ToldInv, Appended, Kept, Starts, threadVars, logindVars
<1>11. QED
       BY <1>4, <1>5, <1>6, <1>7, <1>8, <1>9, <1>10 DEF IInv

\* The operation is over, and this is announced.
LEMMA EndStep ==
    ASSUME IInv, End
    PROVE  IInv'
<1>1. /\ action \in Kinds /\ action' = "none" /\ phase' = "idle"
      /\ UNCHANGED <<threadVars, operations, expected, timed_out, sessions, upsets>>
      BY DEF End, IInv, TypeOK, SignalInv
<1>2. PICK s \in Signals : s.name = action /\ ~s.starting /\ Emit(s)
  <2>1. [name |-> action, starting |-> FALSE, op |-> operations] \in Signals
        BY <1>1 DEF Signals, IInv, TypeOK
  <2>2. QED
        BY <2>1 DEF End
<1>3. IF action \in subscribed THEN Appended(s) ELSE Kept
      BY <1>1, <1>2, EmitAppends DEF IInv, threadVars
<1>4. TypeOK'
  <2>1. queue' \in Seq(Signals)
        BY <1>2 DEF Emit, IInv, TypeOK
  <2>2. QED
        BY <1>1, <2>1 DEF IInv, TypeOK, threadVars
<1>5. HeldIsOpen' /\ NoLeakedLock'
      BY <1>1 DEF IInv, HeldIsOpen, NoLeakedLock, Accounted, threadVars
<1>6. SignalInv'
      BY <1>1, <1>2, <1>3, KindsAre DEF IInv, SignalInv, Appended, Kept, threadVars
<1>7. SetupInv'
  <2>1. monitor = "done" => queue' = queue
        BY <1>2 DEF IInv, SetupInv, Emit
  <2>2. NoFault' <=> NoFault
        BY <1>1 DEF NoFault
  <2>3. ~(upsets' = {} /\ monitor' \in Setup)
        BY <1>1, KindsAre DEF IInv, SetupInv, threadVars
  <2>4. QED
        BY <1>1, <2>1, <2>2, <2>3 DEF IInv, SetupInv, Unlocked, threadVars
<1>8. TurnsInv'
  <2>1. CASE action \in subscribed
        BY <1>1, <1>2, <1>3, <2>1, TurnsAppended, KindsAre DEF IInv, threadVars
  <2>2. CASE action \notin subscribed
        BY <1>1, <1>3, <2>2, TurnsKept DEF IInv, threadVars
  <2>3. QED
        BY <2>1, <2>2
<1>9. ArmedInv'
  <2>1. \A m \in Kinds : Past(m)' => Past(m)
        BY <1>1 DEF Past, threadVars
  <2>2. CASE action \in subscribed
        BY <1>1, <1>2, <1>3, <2>1, <2>2, ArmedAppended, KindsAre DEF IInv, threadVars
  <2>3. CASE action \notin subscribed
    <3>1. NoFault' <=> NoFault
          BY <1>1 DEF NoFault
    <3>2. NoFault => ~Past(action)
          BY <2>3, <1>1, KindsAre DEF IInv, SetupInv, Past
    <3>3. \A i \in 1..Len(Pending) : ~Starts(action, i)
          BY <2>3 DEF IInv, SignalInv, Starts
    <3>4. /\ Len(Pending') = Len(Pending)
          /\ \A i \in 1..Len(Pending) : \A m \in Kinds :
                /\ Starts(m, i)' <=> Starts(m, i)
                /\ Stops(m, i)' <=> Stops(m, i)
          BY <1>3, <2>3 DEF Kept, Starts, Stops
    <3>5. \A m \in Kinds \ {action} : action # m /\ action' # m
          BY <1>1, KindsAre
    <3>6. held' = held
          BY <1>1 DEF threadVars
    <3>7. QED
          BY <1>1, <2>1, <3>1, <3>2, <3>3, <3>4, <3>5, <3>6 DEF IInv, ArmedInv
  <2>4. QED
        BY <2>2, <2>3
<1>10. ToldInv'
       BY <1>1 DEF ToldInv
<1>11. QED
       BY <1>4, <1>5, <1>6, <1>7, <1>8, <1>9, <1>10 DEF IInv

\* logind goes ahead with the operation, or finds its end.
LEMMA PhaseStep ==
    ASSUME IInv, Proceed \/ DelayTimeout \/ Resume
    PROVE  IInv'
<1>1. /\ UNCHANGED <<threadVars, queue, action, operations, expected, sessions, upsets>>
      /\ phase # "idle" /\ phase' \in {"executing", "resuming"}
      /\ timed_out' = timed_out \/ timed_out' = TRUE
      BY DEF Proceed, DelayTimeout, Resume
<1>2. Kept
      BY <1>1 DEF Kept, Pending, Handling, threadVars
<1>3. TypeOK' /\ HeldIsOpen' /\ SignalInv' /\ SetupInv' /\ NoLeakedLock'
      BY <1>1, <1>2
      DEF IInv, TypeOK, HeldIsOpen, SignalInv, SetupInv, NoLeakedLock, Accounted,
          Kept, NoFault, Unlocked, threadVars
<1>4. TurnsInv'
      BY <1>1, <1>2, TurnsKept DEF IInv, threadVars
<1>5. ArmedInv'
  <2>1. \A m \in Kinds : Past(m)' => Past(m)
        BY <1>1 DEF Past, threadVars
  <2>2. QED
        BY <1>1, <1>2, <2>1, ArmedKept DEF IInv, threadVars
<1>6. ToldInv'
  <2> SUFFICES ASSUME action # "none", expected, ~timed_out', 
                      monitor \notin {"cleanup", "done"}
               PROVE  ToldInv'
      BY <1>1 DEF ToldInv, threadVars
  <2>1. ~timed_out
        BY DEF Proceed, DelayTimeout, Resume
  <2>2. told[action] = operations
    <3>1. CASE Proceed
          BY <2>1, <3>1 DEF IInv, ToldInv, Proceed
    <3>2. CASE Resume
          BY <2>1, <3>2 DEF IInv, ToldInv, Resume
    <3>3. CASE DelayTimeout
          BY <3>3 DEF DelayTimeout
    <3>4. QED
          BY <3>1, <3>2, <3>3
  <2>3. QED
        BY <1>1, <1>2, <2>1, <2>2 DEF IInv, ToldInv, Kept, Starts, threadVars
<1>7. QED
      BY <1>3, <1>4, <1>5, <1>6 DEF IInv

\* A step that changes nothing.
LEMMA StutterStep ==
    ASSUME IInv, UNCHANGED vars
    PROVE  IInv'
<1>1. UNCHANGED <<threadVars, queue, logindVars, sessions, upsets>>
      BY DEF vars
<1>2. Kept
      BY <1>1 DEF Kept, Pending, Handling, threadVars
<1>3. TypeOK' /\ HeldIsOpen' /\ SignalInv' /\ SetupInv' /\ NoLeakedLock' /\ ToldInv'
      BY <1>1, <1>2
      DEF IInv, TypeOK, HeldIsOpen, SignalInv, SetupInv, NoLeakedLock, Accounted,
          ToldInv, Kept, Starts, NoFault, Unlocked, threadVars, logindVars
<1>4. TurnsInv'
      BY <1>1, <1>2, TurnsKept DEF IInv, threadVars, logindVars
<1>5. ArmedInv'
  <2>1. \A m \in Kinds : Past(m)' => Past(m)
        BY <1>1 DEF Past, threadVars
  <2>2. QED
        BY <1>1, <1>2, <2>1, ArmedKept DEF IInv, threadVars, logindVars
<1>6. QED
      BY <1>3, <1>4, <1>5 DEF IInv
-----------------------------------------------------------------------------
(* The invariant and what it says                                          *)

\* The thread has not subscribed to anything when it starts.
LEMMA InitInv ==
    Init => IInv
<1> SUFFICES ASSUME Init
             PROVE  IInv
    OBVIOUS
<1>1. ~Handling /\ Pending = <<>> /\ Len(Pending) = 0 /\ queue \in Seq(Signals)
      BY DEF Init, Handling, Pending
<1>2. NoSignal \in Signals
      BY InhibitAssumption DEF NoSignal, Signals
<1>3. TypeOK
  <2>1. 0 \in Nat /\ 0 \in 0..MaxOperations /\ 0 \in 0..MaxSessions
        BY InhibitAssumption
  <2>2. /\ held \in [Kinds -> BOOLEAN] /\ locks \in [Kinds -> Nat]
        /\ told \in [Kinds -> 0..MaxOperations]
        BY <2>1 DEF Init
  <2>3. monitor \in MonitorPC
        BY DEF Init, MonitorPC, Setup
  <2>4. QED
        BY <1>1, <1>2, <2>1, <2>2, <2>3 DEF Init, TypeOK
<1>4. HeldIsOpen /\ SignalInv /\ SetupInv /\ NoLeakedLock
      BY <1>1, KindsAre DEF Init, HeldIsOpen, SignalInv, SetupInv, Unlocked, NoLeakedLock,
                            Accounted, Setup
<1>5. TurnsInv /\ ArmedInv /\ ToldInv
      BY <1>1, KindsAre DEF Init, TurnsInv, ArmedInv, ToldInv, Past
<1>6. QED
      BY <1>3, <1>4, <1>5 DEF IInv

\* The inductive invariant holds in every state of the specification.
THEOREM InductiveInvariant == Spec => []IInv
<1>1. IInv /\ [Next]_vars => IInv'
      BY MonitorStep, BeginStep, SessionStep, EndStep, PhaseStep, StutterStep
      DEF Next, Logind, Quiescent
<1>2. QED
      BY InitInv, <1>1, PTL DEF Spec

\* Every variable keeps its type.
THEOREM TypeCorrect == Spec => []TypeOK
<1>1. IInv => TypeOK
      BY DEF IInv
<1>2. QED
      BY <1>1, InductiveInvariant, PTL

\* Every lock that is open is in its field, where the thread can release it,
\* as long as signals were neither lost nor sent before the loop was entered
\* (the shutdown lock: always).
THEOREM NoLeakedLockHolds == Spec => []NoLeakedLock
<1>1. IInv => NoLeakedLock
      BY DEF IInv
<1>2. QED
      BY <1>1, InductiveInvariant, PTL

\* In the loop with nothing left to handle and no operation under way, both
\* locks are held, unless a call has failed.
THEOREM ArmedWhenIdleHolds == Spec => []ArmedWhenIdle
<1>1. IInv => ArmedWhenIdle
  <2> SUFFICES ASSUME IInv, monitor = "loop", queue = <<>>, action = "none", NoFault,
                      NEW k \in Kinds
               PROVE  held[k]
      BY DEF ArmedWhenIdle, NoFault
  <2>1. Len(Pending) = 0 /\ Past(k) /\ action # k
        BY KindsAre DEF Pending, Handling, Past
  <2>2. QED
        BY <2>1 DEF IInv, ArmedInv
<1>2. QED
      BY <1>1, InductiveInvariant, PTL

\* A machine that was asked to sleep or shut down when the service was ready
\* does so after on_event has returned for it, whatever else happens meanwhile
\* and however often.
THEOREM CallbackBeforeOperationHolds == Spec => []CallbackBeforeOperation
<1>1. IInv => CallbackBeforeOperation
  <2>1. IInv /\ phase = "executing" => action # "none"
        BY DEF IInv, SignalInv
  <2>2. QED
        BY <2>1 DEF IInv, ToldInv, CallbackBeforeOperation
<1>2. QED
      BY <1>1, InductiveInvariant, PTL
=============================================================================
