-------------------------- MODULE EventPollProofs ---------------------------
(***************************************************************************)
(* The safety properties of module EventPoll, for every set of sockets and *)
(* every queue size.  Their conjunction is inductive; TypeOK and           *)
(* QueueSound are what the other three rest on.                            *)
(***************************************************************************)
EXTENDS EventPoll, TLAPS

IInv == TypeOK /\ NoLostWakeup /\ QueueSound /\ ReaderNotStranded /\ WriterNotForgotten

\* Pushing a socket that is not queued yet keeps the fifo free of
\* duplicates and loses nobody.
LEMMA PushFacts ==
    ASSUME NEW q \in Seq(Sock), NEW s \in Sock,
           \A i, j \in 1 .. Len(q) : q[i] = q[j] => i = j
    PROVE  LET p == push_if_not_exist(q, s)
           IN  /\ p \in Seq(Sock)
               /\ \A i, j \in 1 .. Len(p) : p[i] = p[j] => i = j
               /\ \A t \in Sock : queued(p, t) <=> queued(q, t) \/ t = s
<1>1. CASE queued(q, s)
  BY <1>1 DEF push_if_not_exist
<1>2. CASE ~ queued(q, s)
  <2> DEFINE p == Append(q, s)
  <2>1. p \in Seq(Sock) /\ Len(p) = Len(q) + 1 /\ p[Len(q) + 1] = s
    OBVIOUS
  <2>2. \A i \in 1 .. Len(q) : p[i] = q[i] /\ q[i] # s
    BY <1>2 DEF queued
  <2>3. \A i, j \in 1 .. Len(p) : p[i] = p[j] => i = j
    BY <2>1, <2>2
  <2>4. \A t \in Sock : queued(p, t) <=> queued(q, t) \/ t = s
    BY <2>1, <2>2 DEF queued
  <2> QED
    BY <1>2, <2>1, <2>3, <2>4 DEF push_if_not_exist
<1> QED
  BY <1>1, <1>2

\* Removing a socket takes out that one and nobody else.
LEMMA RemoveFacts ==
    ASSUME NEW q \in Seq(Sock), NEW s \in Sock,
           \A i, j \in 1 .. Len(q) : q[i] = q[j] => i = j
    PROVE  LET p == remove(q, s)
           IN  /\ p \in Seq(Sock)
               /\ \A i, j \in 1 .. Len(p) : p[i] = p[j] => i = j
               /\ \A t \in Sock : queued(p, t) <=> queued(q, t) /\ t # s
<1>1. CASE ~ queued(q, s)
  BY <1>1 DEF remove, queued
<1>2. CASE queued(q, s)
  <2> DEFINE at == CHOOSE i \in 1 .. Len(q) : q[i] = s
             p == [i \in 1 .. Len(q) - 1 |-> IF i < at THEN q[i] ELSE q[i + 1]]
  <2>1. at \in 1 .. Len(q) /\ q[at] = s
    BY <1>2 DEF queued
  <2> HIDE DEF at
  <2>2. \A i \in 1 .. Len(q) : q[i] \in Sock
    OBVIOUS
  <2>3. p \in Seq(Sock) /\ Len(p) = Len(q) - 1
    BY <2>1, <2>2
  <2>4. \A i \in 1 .. Len(q) - 1 : p[i] = IF i < at THEN q[i] ELSE q[i + 1]
    OBVIOUS
  <2> HIDE DEF p
  <2>5. ASSUME NEW i \in 1 .. Len(p), NEW j \in 1 .. Len(p), p[i] = p[j]
        PROVE  i = j
    <3> DEFINE old(k) == IF k < at THEN k ELSE k + 1
    <3>1. old(i) \in 1 .. Len(q) /\ old(j) \in 1 .. Len(q)
      BY <2>1, <2>3
    <3>2. p[i] = q[old(i)] /\ p[j] = q[old(j)]
      BY <2>3, <2>4
    <3>3. old(i) = old(j)
      BY <3>1, <3>2, <2>5
    <3> QED
      BY <3>3, <2>1, <2>3
  <2>6. \A t \in Sock : queued(p, t) => queued(q, t) /\ t # s
    BY <2>1, <2>3, <2>4 DEF queued
  <2>7. ASSUME NEW t \in Sock, queued(q, t), t # s
        PROVE  queued(p, t)
    <3>1. PICK k \in 1 .. Len(q) : q[k] = t
      BY <2>7 DEF queued
    <3>2. CASE k < at
      BY <3>1, <3>2, <2>1, <2>3, <2>4 DEF queued
    <3>3. CASE k > at
      <4>1. k - 1 \in 1 .. Len(q) - 1 /\ ~ (k - 1 < at) /\ (k - 1) + 1 = k
        BY <3>1, <3>3, <2>1
      <4> QED
        BY <4>1, <3>1, <2>3, <2>4 DEF queued
    <3> QED
      BY <3>1, <3>2, <3>3, <2>1, <2>7
  <2>8. remove(q, s) = p
    BY <1>2 DEF remove, p, at
  <2> QED
    BY <2>3, <2>5, <2>6, <2>7, <2>8
<1> QED
  BY <1>1, <1>2

----------------------------------------------------------------------------
LEMMA InitIInv == Init => IInv
BY EventPollAssumption
   DEF Init, IInv, TypeOK, NoLostWakeup, QueueSound, ReaderNotStranded,
       WriterNotForgotten, Nothing, EventBits, queued

\* Raising events on a live socket keeps the event queue complete and sound
\* and takes no event away.
LEMMA EventAddFacts ==
    ASSUME TypeOK, NoLostWakeup, QueueSound,
           NEW s \in Sock, live[s],
           NEW E \in SUBSET EventBits,
           tsock_event_add(s, E, interested'[s]),
           interested' \in [Sock -> SUBSET EventBits],
           \A t \in Sock : t # s => interested'[t] = interested[t],
           live' = live, close_issued' = close_issued
    PROVE  /\ events' \in [Sock -> SUBSET EventBits]
           /\ queue' \in Seq(Sock)
           /\ \A t \in Sock : events'[t] = IF t = s THEN events[t] \union E ELSE events[t]
           /\ NoLostWakeup' /\ QueueSound'
<1>1. events' = [events EXCEPT ![s] = @ \union E]
  BY DEF tsock_event_add
<1>2. /\ events' \in [Sock -> SUBSET EventBits]
      /\ \A t \in Sock : events'[t] = IF t = s THEN events[t] \union E ELSE events[t]
  BY <1>1 DEF TypeOK
<1>3. queue \in Seq(Sock) /\ \A i, j \in 1 .. Len(queue) : queue[i] = queue[j] => i = j
  BY DEF TypeOK, QueueSound
<1>4. CASE (events[s] \union E) \intersect interested'[s] # {}
  <2>1. queue' = push_if_not_exist(queue, s)
    BY <1>4 DEF tsock_event_add
  <2>2. /\ queue' \in Seq(Sock)
        /\ \A i, j \in 1 .. Len(queue') : queue'[i] = queue'[j] => i = j
        /\ \A t \in Sock : queued(queue', t) <=> queued(queue, t) \/ t = s
    BY <2>1, <1>3, PushFacts
  <2> QED
    BY <1>2, <2>2 DEF NoLostWakeup, QueueSound
<1>5. CASE (events[s] \union E) \intersect interested'[s] = {}
  <2>1. queue' = queue
    BY <1>5 DEF tsock_event_add
  <2> QED
    BY <1>2, <1>3, <1>5, <2>1 DEF NoLostWakeup, QueueSound, queued
<1> QED
  BY <1>4, <1>5

\* Releasing a socket: the rest of the queue stays as it is.
LEMMA ReleaseIInv == ASSUME IInv, NEW s \in Sock, release(s) PROVE IInv'
<1>1. queue \in Seq(Sock) /\ \A i, j \in 1 .. Len(queue) : queue[i] = queue[j] => i = j
  BY DEF IInv, TypeOK, QueueSound
<1>2. /\ queue' \in Seq(Sock)
      /\ \A i, j \in 1 .. Len(queue') : queue'[i] = queue'[j] => i = j
      /\ \A t \in Sock : queued(queue', t) <=> queued(queue, t) /\ t # s
  BY <1>1, RemoveFacts DEF release
<1>3. /\ live' = [live EXCEPT ![s] = FALSE]
      /\ unread' = [unread EXCEPT ![s] = 0]
      /\ unfinished' = [unfinished EXCEPT ![s] = 0]
      /\ UNCHANGED <<close_issued, events, interested, rd_wait, wr_wait>>
  BY DEF release
<1>4. TypeOK'
  BY <1>2, <1>3, EventPollAssumption DEF IInv, TypeOK
<1>5. NoLostWakeup' /\ QueueSound'
  BY <1>2, <1>3 DEF IInv, TypeOK, NoLostWakeup, QueueSound
<1>6. ReaderNotStranded' /\ WriterNotForgotten'
  BY <1>3 DEF IInv, TypeOK, ReaderNotStranded, WriterNotForgotten
<1> QED
  BY <1>4, <1>5, <1>6 DEF IInv

\* tpa_event_poll: a popped socket keeps no event that was asked for, an
\* application that is told of IN (OUT) waits no longer.
LEMMA PollIInv == ASSUME IInv, NEW max \in 1 .. PollMax, tpa_event_poll(max) PROVE IInv'
<1>1. PICK n \in 0 .. Len(queue) :
        /\ queue' = SubSeq(queue, n + 1, Len(queue))
        /\ events' = [s \in Sock |-> IF s \in {queue[i] : i \in 1 .. n} THEN cleared(s)
                                     ELSE events[s]]
        /\ rd_wait' = [s \in Sock |-> rd_wait[s] /\
               ~ (s \in {queue[i] : i \in 1 .. n} /\ reportable(s)
                    /\ "IN" \in events[s] \intersect interested[s])]
        /\ wr_wait' = [s \in Sock |-> wr_wait[s] /\
               ~ (s \in {queue[i] : i \in 1 .. n} /\ reportable(s)
                    /\ "OUT" \in events[s] \intersect interested[s])]
        /\ UNCHANGED <<sockVars, unread, unfinished>>
  BY DEF tpa_event_poll
<1> DEFINE popped == {queue[i] : i \in 1 .. n}
<1>2. UNCHANGED <<live, close_issued, interested, unread, unfinished>>
  BY <1>1 DEF sockVars
<1>3. \A s \in Sock : events'[s] = IF s \in popped THEN cleared(s) ELSE events[s]
  BY <1>1
<1>4. \A s \in Sock : events'[s] \subseteq events[s]
  BY <1>3 DEF cleared
<1>5. queue \in Seq(Sock)
  BY DEF IInv, TypeOK
<1>6. /\ queue' \in Seq(Sock)
      /\ Len(queue') = Len(queue) - n
      /\ \A i \in 1 .. Len(queue') : queue'[i] = queue[n + i]
  BY <1>1, <1>5
<1>7. TypeOK'
  <2>1. events' \in [Sock -> SUBSET EventBits]
    BY <1>1, <1>3, <1>4 DEF IInv, TypeOK
  <2>2. rd_wait' \in [Sock -> BOOLEAN] /\ wr_wait' \in [Sock -> BOOLEAN]
    BY <1>1, Zenon DEF IInv, TypeOK
  <2> QED
    BY <1>2, <1>6, <2>1, <2>2 DEF IInv, TypeOK
<1>8. NoLostWakeup'
  <2> SUFFICES ASSUME NEW s \in Sock, live[s], ~ close_issued[s],
                      events'[s] \intersect interested[s] # {}
               PROVE  queued(queue', s)
    BY <1>2 DEF NoLostWakeup
  <2>1. s \notin popped
    BY <1>3 DEF cleared
  <2>2. PICK k \in 1 .. Len(queue) : queue[k] = s
    BY <1>4 DEF IInv, NoLostWakeup, queued
  <2>3. k > n
    BY <2>1, <2>2, <1>5
  <2>4. k - n \in 1 .. Len(queue') /\ n + (k - n) = k
    BY <2>3, <1>5, <1>6
  <2> QED
    BY <2>2, <2>4, <1>6 DEF queued
<1>9. QueueSound'
  <2>1. ASSUME NEW s \in Sock, queued(queue', s)
        PROVE  live'[s]
    <3>1. PICK i \in 1 .. Len(queue') : queue'[i] = s
      BY <2>1 DEF queued
    <3>2. n + i \in 1 .. Len(queue) /\ queue[n + i] = s
      BY <3>1, <1>5, <1>6
    <3> QED
      BY <3>2, <1>2 DEF IInv, QueueSound, queued
  <2>2. ASSUME NEW i \in 1 .. Len(queue'), NEW j \in 1 .. Len(queue'), queue'[i] = queue'[j]
        PROVE  i = j
    <3>1. n + i \in 1 .. Len(queue) /\ n + j \in 1 .. Len(queue)
      BY <1>5, <1>6
    <3>2. n + i = n + j
      BY <3>1, <2>2, <1>6 DEF IInv, QueueSound
    <3> QED
      BY <3>2, <1>5, <1>6
  <2> QED
    BY <2>1, <2>2 DEF QueueSound
<1>10. ReaderNotStranded'
  <2> SUFFICES ASSUME NEW s \in Sock, live[s], rd_wait'[s], unread[s] > 0
               PROVE  "IN" \in events'[s]
    BY <1>2 DEF ReaderNotStranded
  <2>1. rd_wait[s] /\ ~ (s \in popped /\ reportable(s) /\ "IN" \in events[s] \intersect interested[s])
    BY <1>1, Zenon
  <2>2. "IN" \in events[s]
    BY <2>1 DEF IInv, ReaderNotStranded
  <2> QED
    BY <2>1, <2>2, <1>3 DEF cleared, reportable
<1>11. WriterNotForgotten'
  <2> SUFFICES ASSUME NEW s \in Sock, live[s], wr_wait'[s], ~ unfinished[s] > 0
               PROVE  "OUT" \in events'[s]
    BY <1>2 DEF WriterNotForgotten
  <2>1. wr_wait[s] /\ ~ (s \in popped /\ reportable(s) /\ "OUT" \in events[s] \intersect interested[s])
    BY <1>1, Zenon
  <2>2. "OUT" \in events[s]
    BY <2>1 DEF IInv, WriterNotForgotten
  <2> QED
    BY <2>1, <2>2, <1>3 DEF cleared, reportable
<1> QED
  BY <1>7, <1>8, <1>9, <1>10, <1>11 DEF IInv

----------------------------------------------------------------------------
\* A step that raises E on a live socket s and otherwise touches only the
\* counters and waits of s, which it leaves in order.
LEMMA RaiseIInv ==
    ASSUME IInv, NEW s \in Sock, live[s], NEW E \in SUBSET EventBits,
           tsock_event_add(s, E, interested[s]),
           UNCHANGED sockVars,
           unread' \in [Sock -> 0 .. RxqSize], unfinished' \in [Sock -> 0 .. TxqSize],
           rd_wait' \in [Sock -> BOOLEAN], wr_wait' \in [Sock -> BOOLEAN],
           \A t \in Sock : t # s => /\ unread'[t] = unread[t] /\ unfinished'[t] = unfinished[t]
                                    /\ rd_wait'[t] = rd_wait[t] /\ wr_wait'[t] = wr_wait[t],
           rd_wait'[s] /\ unread'[s] > 0 => "IN" \in events[s] \union E,
           wr_wait'[s] => "OUT" \in events[s] \union E \/ unfinished'[s] > 0
    PROVE  IInv'
<1>1. UNCHANGED <<live, close_issued, interested>>
  BY DEF sockVars
<1>2. /\ events' \in [Sock -> SUBSET EventBits]
      /\ queue' \in Seq(Sock)
      /\ \A t \in Sock : events'[t] = IF t = s THEN events[t] \union E ELSE events[t]
      /\ NoLostWakeup' /\ QueueSound'
  BY <1>1, EventAddFacts DEF IInv, TypeOK
<1>3. TypeOK'
  BY <1>1, <1>2 DEF IInv, TypeOK
<1>4. ReaderNotStranded' /\ WriterNotForgotten'
  BY <1>1, <1>2 DEF IInv, ReaderNotStranded, WriterNotForgotten
<1> QED
  BY <1>2, <1>3, <1>4 DEF IInv

\* A step that leaves the sockets, the events and the queue alone.
LEMMA QuietIInv ==
    ASSUME IInv, UNCHANGED <<sockVars, events, queue>>,
           unread' \in [Sock -> 0 .. RxqSize], unfinished' \in [Sock -> 0 .. TxqSize],
           rd_wait' \in [Sock -> BOOLEAN], wr_wait' \in [Sock -> BOOLEAN],
           \A s \in Sock : live[s] /\ rd_wait'[s] /\ unread'[s] > 0 => "IN" \in events[s],
           \A s \in Sock : live[s] /\ wr_wait'[s] => "OUT" \in events[s] \/ unfinished'[s] > 0
    PROVE  IInv'
<1>1. UNCHANGED <<live, close_issued, interested, events, queue>>
  BY DEF sockVars
<1> QED
  BY <1>1 DEF IInv, TypeOK, NoLostWakeup, QueueSound, ReaderNotStranded, WriterNotForgotten, queued

LEMMA NextIInv == IInv /\ [Next]_vars => IInv'
<1> SUFFICES ASSUME IInv, [Next]_vars PROVE IInv'
  OBVIOUS
<1> USE EventPollAssumption
<1>1. ASSUME NEW s \in Sock, sock_create(s) PROVE IInv'
  <2>1. ~ queued(queue, s)
    BY <1>1 DEF IInv, QueueSound, sock_create
  <2>2. TypeOK'
    BY <1>1 DEF IInv, TypeOK, sock_create
  <2>3. NoLostWakeup' /\ QueueSound'
    BY <1>1, <2>1 DEF IInv, TypeOK, NoLostWakeup, QueueSound, sock_create, queued
  <2>4. ReaderNotStranded' /\ WriterNotForgotten'
    BY <1>1 DEF IInv, TypeOK, ReaderNotStranded, WriterNotForgotten, sock_create
  <2> QED
    BY <2>2, <2>3, <2>4 DEF IInv
<1>2. ASSUME NEW s \in Sock, tsock_free(s) PROVE IInv'
  BY <1>2, ReleaseIInv DEF tsock_free
<1>3. ASSUME NEW s \in Sock, tpa_close(s) PROVE IInv'
  BY <1>3 DEF tpa_close, ioVars, IInv, TypeOK, NoLostWakeup, QueueSound, ReaderNotStranded,
              WriterNotForgotten, queued
<1>4. ASSUME NEW s \in Sock, event_ctrl_del(s) PROVE IInv'
  BY <1>4 DEF event_ctrl_del, ioVars, IInv, TypeOK, NoLostWakeup, QueueSound, ReaderNotStranded,
              WriterNotForgotten, queued
<1>5. ASSUME NEW s \in Sock, NEW E \in SUBSET {"IN", "OUT"}, event_ctrl_mod(s, E) PROVE IInv'
  <2>1. /\ interested' \in [Sock -> SUBSET EventBits]
        /\ interested'[s] = E \union {"HUP", "ERR"}
        /\ \A t \in Sock : t # s => interested'[t] = interested[t]
    BY <1>5 DEF event_ctrl_mod, IInv, TypeOK, EventBits
  <2>2. /\ live[s] /\ tsock_event_add(s, events[s], interested'[s])
        /\ UNCHANGED <<live, close_issued, unread, unfinished, rd_wait, wr_wait>>
    BY <1>5, <2>1 DEF event_ctrl_mod, ioVars
  <2>3. events[s] \in SUBSET EventBits
    BY DEF IInv, TypeOK
  <2>4. /\ events' \in [Sock -> SUBSET EventBits]
        /\ queue' \in Seq(Sock)
        /\ \A t \in Sock : events'[t] = IF t = s THEN events[t] \union events[s] ELSE events[t]
        /\ NoLostWakeup' /\ QueueSound'
    BY <2>1, <2>2, <2>3, EventAddFacts DEF IInv
  <2>5. TypeOK'
    BY <2>1, <2>2, <2>4 DEF IInv, TypeOK
  <2>6. ReaderNotStranded' /\ WriterNotForgotten'
    BY <2>2, <2>4 DEF IInv, ReaderNotStranded, WriterNotForgotten
  <2> QED
    BY <2>4, <2>5, <2>6 DEF IInv
<1>6. ASSUME NEW s \in Sock, tcp_rcv_enqueue(s) PROVE IInv'
  <2>1. /\ live[s] /\ tsock_event_add(s, {"IN"}, interested[s]) /\ UNCHANGED sockVars
        /\ UNCHANGED <<unfinished, rd_wait, wr_wait>>
        /\ unread' = [unread EXCEPT ![s] = @ + 1] /\ unread[s] < RxqSize
    BY <1>6 DEF tcp_rcv_enqueue
  <2>2. unread' \in [Sock -> 0 .. RxqSize]
    BY <2>1 DEF IInv, TypeOK
  <2>3. wr_wait[s] => "OUT" \in events[s] \/ unfinished[s] > 0
    BY <2>1 DEF IInv, WriterNotForgotten
  <2> QED
    BY <2>1, <2>2, <2>3, RaiseIInv DEF IInv, TypeOK, EventBits
<1>7. ASSUME NEW s \in Sock, tsock_zreadv(s) PROVE IInv'
  <2>1. /\ UNCHANGED <<sockVars, events, queue>> /\ UNCHANGED <<unfinished, wr_wait>>
    BY <1>7 DEF tsock_zreadv
  <2>2. /\ unread' \in [Sock -> 0 .. RxqSize] /\ rd_wait' \in [Sock -> BOOLEAN]
        /\ \A t \in Sock : live[t] /\ rd_wait'[t] /\ unread'[t] > 0 => "IN" \in events[t]
    <3>1. CASE rd_wait' = rd_wait /\ \E n \in 0 .. unread[s] - 1 : unread' = [unread EXCEPT ![s] = n]
      <4>1. PICK n \in 0 .. unread[s] - 1 : unread' = [unread EXCEPT ![s] = n]
        BY <3>1
      <4>2. unread[s] \in 0 .. RxqSize
        BY DEF IInv, TypeOK
      <4>3. unread' \in [Sock -> 0 .. RxqSize]
        BY <4>1, <4>2 DEF IInv, TypeOK
      <4>4. \A t \in Sock : unread'[t] > 0 => unread[t] > 0
        BY <4>1, <4>2 DEF IInv, TypeOK
      <4> QED
        BY <3>1, <4>3, <4>4 DEF IInv, TypeOK, ReaderNotStranded
    <3>2. CASE /\ unread[s] = 0 /\ unread' = unread
               /\ rd_wait' = [rd_wait EXCEPT ![s] = TRUE]
      <4>1. rd_wait' \in [Sock -> BOOLEAN] /\ \A t \in Sock : t # s => rd_wait'[t] = rd_wait[t]
        BY <3>2 DEF IInv, TypeOK
      <4> QED
        BY <3>2, <4>1 DEF IInv, TypeOK, ReaderNotStranded
    <3> QED
      BY <1>7, <3>1, <3>2 DEF tsock_zreadv
  <2> QED
    BY <2>1, <2>2, QuietIInv DEF IInv, TypeOK, WriterNotForgotten
<1>8. ASSUME NEW s \in Sock, tsock_zwritev(s) PROVE IInv'
  <2>1. live[s] /\ UNCHANGED sockVars /\ UNCHANGED <<unread, rd_wait>>
    BY <1>8 DEF tsock_zwritev
  <2>2. ASSUME NEW n \in 1 .. TxqSize - unfinished[s],
               unfinished' = [unfinished EXCEPT ![s] = @ + n],
               UNCHANGED <<events, queue, wr_wait>>
        PROVE  IInv'
    <3>1. unfinished[s] \in 0 .. TxqSize
      BY DEF IInv, TypeOK
    <3>2. unfinished' \in [Sock -> 0 .. TxqSize]
      BY <2>2, <3>1 DEF IInv, TypeOK
    <3>3. \A t \in Sock : live[t] /\ wr_wait'[t] => "OUT" \in events[t] \/ unfinished'[t] > 0
      BY <2>2, <3>1 DEF IInv, TypeOK, WriterNotForgotten
    <3> QED
      BY <2>1, <2>2, <3>2, <3>3, QuietIInv DEF IInv, TypeOK, ReaderNotStranded
  <2>3. ASSUME wr_wait' = [wr_wait EXCEPT ![s] = TRUE], refire_out_event_if_needed(s),
               UNCHANGED unfinished
        PROVE  IInv'
    <3>1. wr_wait' \in [Sock -> BOOLEAN] /\ \A t \in Sock : t # s => wr_wait'[t] = wr_wait[t]
      BY <2>3 DEF IInv, TypeOK
    <3>2. CASE unfinished[s] = 0
      <4>1. tsock_event_add(s, {"OUT"}, interested[s])
        BY <2>3, <3>2 DEF refire_out_event_if_needed
      <4>2. rd_wait[s] /\ unread[s] > 0 => "IN" \in events[s]
        BY <2>1 DEF IInv, ReaderNotStranded
      <4> QED
        BY <2>1, <2>3, <3>1, <4>1, <4>2, RaiseIInv DEF IInv, TypeOK, EventBits
    <3>3. CASE unfinished[s] # 0
      <4>1. UNCHANGED <<events, queue>>
        BY <2>3, <3>3 DEF refire_out_event_if_needed
      <4>2. unfinished[s] > 0
        BY <3>3 DEF IInv, TypeOK
      <4>3. \A t \in Sock : live[t] /\ wr_wait'[t] => "OUT" \in events[t] \/ unfinished'[t] > 0
        BY <2>3, <3>1, <4>2 DEF IInv, WriterNotForgotten
      <4> QED
        BY <2>1, <2>3, <3>1, <4>1, <4>3, QuietIInv DEF IInv, TypeOK, ReaderNotStranded
    <3> QED
      BY <3>2, <3>3
  <2> QED
    BY <1>8, <2>2, <2>3 DEF tsock_zwritev
<1>9. ASSUME NEW s \in Sock, ack_sent_data(s) PROVE IInv'
  <2>1. PICK n \in 0 .. unfinished[s] :
          /\ unfinished' = [unfinished EXCEPT ![s] = @ - n]
          /\ IF TxqSize - (unfinished[s] - n) > 0
             THEN tsock_event_add(s, {"OUT"}, interested[s])
             ELSE UNCHANGED <<events, queue>>
    BY <1>9 DEF ack_sent_data
  <2>2. live[s] /\ UNCHANGED sockVars /\ UNCHANGED <<unread, rd_wait, wr_wait>>
    BY <1>9 DEF ack_sent_data
  <2>3. unfinished[s] \in 0 .. TxqSize
    BY DEF IInv, TypeOK
  <2>4. unfinished' \in [Sock -> 0 .. TxqSize] /\ unfinished'[s] = unfinished[s] - n
    BY <2>1, <2>3 DEF IInv, TypeOK
  <2>5. CASE TxqSize - (unfinished[s] - n) > 0
    <3>1. tsock_event_add(s, {"OUT"}, interested[s])
      BY <2>1, <2>5
    <3>2. rd_wait[s] /\ unread[s] > 0 => "IN" \in events[s]
      BY <2>2 DEF IInv, ReaderNotStranded
    <3>3. \A t \in Sock : t # s => unfinished'[t] = unfinished[t]
      BY <2>1 DEF IInv, TypeOK
    <3> QED
      BY <2>2, <2>4, <3>1, <3>2, <3>3, RaiseIInv DEF IInv, TypeOK, EventBits
  <2>6. CASE ~ (TxqSize - (unfinished[s] - n) > 0)
    <3>0. UNCHANGED <<events, queue>>
      BY <2>1, <2>6
    <3>1. unfinished[s] - n = TxqSize
      BY <2>3, <2>6
    <3>2. \A t \in Sock : live[t] /\ wr_wait'[t] => "OUT" \in events[t] \/ unfinished'[t] > 0
      BY <2>1, <2>2, <2>4, <3>0, <3>1 DEF IInv, TypeOK, WriterNotForgotten
    <3> QED
      BY <2>2, <2>4, <3>0, <3>2, QuietIInv DEF IInv, TypeOK, ReaderNotStranded
  <2> QED
    BY <2>5, <2>6
<1>10. ASSUME NEW s \in Sock, connection_lost(s) PROVE IInv'
  <2>1. CASE close_issued[s]
    BY <1>10, <2>1, ReleaseIInv DEF connection_lost
  <2>2. CASE ~ close_issued[s]
    <3>1. /\ live[s] /\ tsock_event_add(s, {"ERR"}, interested[s]) /\ UNCHANGED sockVars
          /\ UNCHANGED <<unread, unfinished, rd_wait, wr_wait>>
      BY <1>10, <2>2 DEF connection_lost, ioVars
    <3>2. /\ rd_wait[s] /\ unread[s] > 0 => "IN" \in events[s]
          /\ wr_wait[s] => "OUT" \in events[s] \/ unfinished[s] > 0
      BY <3>1 DEF IInv, ReaderNotStranded, WriterNotForgotten
    <3> QED
      BY <3>1, <3>2, RaiseIInv DEF IInv, TypeOK, EventBits
  <2> QED
    BY <2>1, <2>2
<1>11. ASSUME NEW s \in Sock, tsock_established(s) \/ tcp_rcv_fin(s) PROVE IInv'
  <2>1. PICK E \in {{"OUT"}, {"IN"}} : live[s] /\ tsock_event_add(s, E, interested[s])
    BY <1>11 DEF tsock_established, tcp_rcv_fin
  <2>2. UNCHANGED sockVars /\ UNCHANGED <<unread, unfinished, rd_wait, wr_wait>>
    BY <1>11 DEF tsock_established, tcp_rcv_fin, ioVars
  <2>3. /\ rd_wait[s] /\ unread[s] > 0 => "IN" \in events[s]
        /\ wr_wait[s] => "OUT" \in events[s] \/ unfinished[s] > 0
    BY <2>1 DEF IInv, ReaderNotStranded, WriterNotForgotten
  <2> QED
    BY <2>1, <2>2, <2>3, RaiseIInv DEF IInv, TypeOK, EventBits
<1>12. CASE UNCHANGED vars
  BY <1>12 DEF vars, sockVars, ioVars, IInv, TypeOK, NoLostWakeup, QueueSound, ReaderNotStranded,
              WriterNotForgotten, queued
<1> QED
  BY <1>1, <1>2, <1>3, <1>4, <1>5, <1>6, <1>7, <1>8, <1>9, <1>10, <1>11, <1>12, PollIInv
     DEF Next, tpa_event_ctrl

LEMMA SpecIInv == Spec => []IInv
BY InitIInv, NextIInv, PTL DEF Spec

\* The event layer keeps its state well formed: no queue of a socket grows
\* past its size, only the four events are ever raised or asked for.
THEOREM TypeCorrect == Spec => []TypeOK
<1>1. IInv => TypeOK
  BY DEF IInv
<1> QED
  BY <1>1, SpecIInv, PTL

\* tpa_event_ctrl, tpa_event_poll and tsock_event_add together lose no
\* wakeup, however many sockets there are and whatever the poll budget.
THEOREM WakeupsKept == Spec => []NoLostWakeup
<1>1. IInv => NoLostWakeup
  BY DEF IInv
<1> QED
  BY <1>1, SpecIInv, PTL

\* tsock_free leaves no freed socket in the event queue, and no socket is
\* queued twice: the next user of the slot starts with a free node.
THEOREM QueueStaysSound == Spec => []QueueSound
<1>1. IInv => QueueSound
  BY DEF IInv
<1> QED
  BY <1>1, SpecIInv, PTL

\* Neither a reader nor a writer that was sent away with EAGAIN waits for an
\* event that nothing is going to raise.
THEOREM WaitersServed == Spec => [](ReaderNotStranded /\ WriterNotForgotten)
<1>1. IInv => ReaderNotStranded /\ WriterNotForgotten
  BY DEF IInv
<1> QED
  BY <1>1, SpecIInv, PTL
=============================================================================
