------------------------- MODULE LiveStreamsProofs -------------------------
(***************************************************************************)
(* Proof that streams are never duplicated, for every number of streams    *)
(* and whatever the panels and the connection do.  Only the main thread    *)
(* fills and empties the slot, so the argument is about it alone.          *)
(***************************************************************************)
EXTENDS LiveStreams, SequenceTheorems, TLAPS

SlotTypeOK ==
    /\ slot \in Stream \cup {NoStream}
    /\ next \in 1..(MaxStream + 1)
    /\ client \in [Stream -> {"none", "running", "exited"}]

\* Streams that were not numbered yet are not installed and have no client.
FreshStreams ==
    /\ slot < next
    /\ \A s \in Stream : s >= next => client[s] = "none"

SInv == SlotTypeOK /\ FreshStreams /\ OneClient

USE DEF Stream, NoStream, SlotTypeOK, FreshStreams, OneClient

\* The application starts with empty slots (lib.rs 41-49).
LEMMA StreamsInitEstablishes == StreamsInit => SInv
BY StreamsAssumption DEF StreamsInit, SInv

\* Stopping kills the one client that may run (lib.rs 841-848, 1115-1122).
LEMMA StopStreamPreserves ==
  ASSUME SInv, StopStream
  PROVE  SInv'
<1>1. client' = [s \in Stream |-> IF s = slot THEN "exited" ELSE client[s]]
  BY DEF StopStream, KilledClient
<1>2. \A s \in Stream : client'[s] # "running"
  BY <1>1 DEF SInv
<1>3. SlotTypeOK' /\ FreshStreams'
  BY <1>1, StreamsAssumption DEF SInv, StopStream
<1>4. QED
  BY <1>2, <1>3 DEF SInv

\* Starting kills it before the new client is installed (lib.rs 851-948,
\* 1037-1112).
LEMMA StartStreamPreserves ==
  ASSUME SInv, StartStream
  PROVE  SInv'
<1>1. \A s \in Stream : client'[s] = "running" => s = next
  BY DEF SInv, StartStream, KilledClient
<1>2. SlotTypeOK' /\ FreshStreams'
  BY StreamsAssumption DEF SInv, StartStream, KilledClient
<1>3. QED
  BY <1>1, <1>2 DEF SInv, StartStream

\* A request changes the slot by a start or a stop, or not at all.
LEMMA ServeRequestPreserves ==
  ASSUME SInv, ServeRequest
  PROVE  SInv'
<1>1. StopStream \/ StartStream \/ UNCHANGED native
  BY DEF ServeRequest, StartStreamFails
<1>2. CASE UNCHANGED native
  BY <1>2 DEF SInv, native
<1>3. QED
  BY <1>1, <1>2, StopStreamPreserves, StartStreamPreserves

\* Threads, clients that end, and everything the webview does.
LEMMA StreamsStepPreserves == SInv /\ [StreamsNext]_svars => SInv'
<1> SUFFICES ASSUME SInv, [StreamsNext]_svars PROVE SInv'
  OBVIOUS
<1> USE DEF SInv, native
<1>1. CASE ServeRequest
  BY <1>1, ServeRequestPreserves
<1>2. ASSUME NEW s \in Stream, EndOfOutput(s) \/ ClientExit(s) PROVE SInv'
  BY <1>2 DEF EndOfOutput, ClientExit
<1>3. CASE ToggleLive \/ ChooseLogs \/ LeavePage \/ GoOnline \/ LoseConnection \/ Disconnect
  BY <1>3 DEF ToggleLive, ChooseLogs, LeavePage, GoOnline, LoseConnection, Disconnect, Step
<1>4. CASE DeliverReply \/ DeliverNews
  BY <1>4 DEF DeliverReply, DeliverNews
<1>5. CASE UNCHANGED svars
  BY <1>5 DEF svars
<1>6. QED
  BY <1>1, <1>2, <1>3, <1>4, <1>5 DEF StreamsNext

\* At most one client of a kind runs, and it is the installed one, however the
\* panel calls interleave (lib.rs 841-948, 1037-1123).
THEOREM StreamsAreNotDuplicated == StreamsSpec => []OneClient
<1>1. SInv => OneClient
  BY DEF SInv
<1>2. QED
  BY <1>1, StreamsInitEstablishes, StreamsStepPreserves, PTL DEF StreamsSpec

-----------------------------------------------------------------------------
(* Every call awaits one answer *)

\* Some message of s is about call c; no two are about the same one.
Asks(s, c) == \E i \in 1..Len(s) : s[i].call = c
Once(s) == \A i, j \in 1..Len(s) : s[i].call = s[j].call /\ s[i].call # NoCall => i = j

\* A call that is asked or answered for on the wire is suspended, and is
\* awaiting that one message.
CallsAwait ==
    /\ Once(inbox) /\ Once(replies)
    /\ \A c \in Call : Asks(inbox, c) => call[c] # "idle" /\ ~Asks(replies, c)
    /\ \A c \in Call : Asks(replies, c) => call[c] # "idle"

CInv == StreamsTypeOK /\ CallsAwait

LEMMA AsksOfAppend ==
  ASSUME NEW S, NEW s \in Seq(S), NEW m \in S
  PROVE  /\ Append(s, m) \in Seq(S) /\ Len(Append(s, m)) = Len(s) + 1
         /\ Append(s, m)[Len(s) + 1] = m
         /\ \A i \in 1..Len(s) : Append(s, m)[i] = s[i]
         /\ \A c : Asks(Append(s, m), c) <=> Asks(s, c) \/ m.call = c
         /\ Once(s) /\ (m.call = NoCall \/ ~Asks(s, m.call)) => Once(Append(s, m))
<1> DEFINE t == Append(s, m)
<1>1. /\ t \in Seq(S) /\ Len(t) = Len(s) + 1 /\ Len(s) \in Nat
      /\ \A i \in 1..Len(s) : t[i] = s[i]
      /\ t[Len(s) + 1] = m
  BY AppendProperties
<1> HIDE DEF t
<1>2. ASSUME NEW i \in 1..Len(t) PROVE i \in 1..Len(s) \/ i = Len(s) + 1
  BY <1>1
<1>3. ASSUME NEW c PROVE Asks(t, c) <=> Asks(s, c) \/ m.call = c
  <2>1. ASSUME Asks(t, c) PROVE Asks(s, c) \/ m.call = c
    BY <1>1, <1>2, <2>1 DEF Asks
  <2>2. ASSUME Asks(s, c) \/ m.call = c PROVE Asks(t, c)
    <3>1. Len(s) + 1 \in 1..Len(t) /\ \A i \in 1..Len(s) : i \in 1..Len(t)
      BY <1>1
    <3> QED
      BY <1>1, <2>2, <3>1 DEF Asks
  <2> QED
    BY <2>1, <2>2
<1>4. ASSUME Once(s), m.call = NoCall \/ ~Asks(s, m.call) PROVE Once(t)
  <2>1. ASSUME NEW i \in 1..Len(t), NEW j \in 1..Len(t), t[i].call = t[j].call, t[i].call # NoCall
        PROVE  i = j
    <3>1. \A k \in 1..Len(s) : s[k].call = m.call => m.call = NoCall
      BY <1>4 DEF Asks
    <3> QED
      BY <1>1, <1>2, <1>4, <2>1, <3>1 DEF Once
  <2> QED
    BY <2>1 DEF Once
<1> QED
  BY <1>1, <1>3, <1>4 DEF t

LEMMA AsksOfTail ==
  ASSUME NEW S, NEW s \in Seq(S), s # <<>>
  PROVE  /\ Tail(s) \in Seq(S) /\ Head(s) \in S /\ Head(s) = s[1] /\ Len(s) \in Nat \ {0}
         /\ Len(Tail(s)) = Len(s) - 1
         /\ \A i \in 1..(Len(s) - 1) : Tail(s)[i] = s[i + 1]
         /\ \A c : Asks(s, c) <=> Asks(Tail(s), c) \/ Head(s).call = c
         /\ Once(s) => /\ Once(Tail(s))
                       /\ Head(s).call # NoCall => ~Asks(Tail(s), Head(s).call)
<1> DEFINE t == Tail(s)
           h == Head(s)
<1>1. /\ t \in Seq(S) /\ h \in S /\ h = s[1] /\ Len(s) \in Nat \ {0}
      /\ Len(t) = Len(s) - 1
      /\ \A i \in 1..(Len(s) - 1) : t[i] = s[i + 1]
  BY HeadTailProperties
<1> HIDE DEF t, h
<1>2. ASSUME NEW i \in 1..Len(s), i # 1 PROVE i - 1 \in 1..Len(t) /\ t[i - 1] = s[i]
  <2>1. i - 1 \in 1..(Len(s) - 1) /\ (i - 1) + 1 = i
    BY <1>1, <1>2
  <2> QED
    BY <1>1, <2>1
<1>3. ASSUME NEW i \in 1..Len(t) PROVE i + 1 \in 1..Len(s) /\ t[i] = s[i + 1] /\ i + 1 # 1
  BY <1>1
<1>4. 1 \in 1..Len(s)
  BY <1>1
<1>5. ASSUME NEW c PROVE Asks(s, c) <=> Asks(t, c) \/ h.call = c
  BY <1>1, <1>2, <1>3, <1>4 DEF Asks
<1>6. ASSUME Once(s) PROVE Once(t) /\ (h.call # NoCall => ~Asks(t, h.call))
  <2>1. ASSUME NEW i \in 1..Len(t), NEW j \in 1..Len(t), t[i].call = t[j].call, t[i].call # NoCall
        PROVE  i = j
    <3>0. /\ i + 1 \in 1..Len(s) /\ j + 1 \in 1..Len(s)
          /\ s[i + 1].call = s[j + 1].call /\ s[i + 1].call # NoCall
      BY <1>3, <2>1
    <3>1. i + 1 = j + 1
      BY <1>6, <3>0 DEF Once
    <3> QED
      BY <1>1, <3>1
  <2>2. ASSUME NEW i \in 1..Len(t), t[i].call = h.call, h.call # NoCall PROVE FALSE
    BY <1>1, <1>3, <1>4, <1>6, <2>2 DEF Once
  <2> QED
    BY <2>1, <2>2 DEF Once, Asks
<1> QED
  BY <1>1, <1>5, <1>6 DEF t, h

LEMMA InvokeAppends ==
  ASSUME inbox \in Seq(Request), NEW op \in {"stop", "start", "other"},
         NEW c \in Call \cup {NoCall}, Invoke(<<op>>, c)
  PROVE  inbox' = Append(inbox, [op |-> op, call |-> c]) /\ [op |-> op, call |-> c] \in Request
<1>1. [op |-> op, call |-> c] \in Request
  BY DEF Request
<1>2. [i \in DOMAIN <<op>> |-> [op |-> <<op>>[i], call |-> c]] = <<[op |-> op, call |-> c]>>
  OBVIOUS
<1> QED
  BY <1>1, <1>2, AppendIsConcat DEF Invoke

\* The next state's wire, as an argument.
LEMMA NextWire ==
  /\ Once(inbox)' <=> Once(inbox')
  /\ Once(replies)' <=> Once(replies')
  /\ \A c \in Call : Asks(inbox, c)' <=> Asks(inbox', c)
  /\ \A c \in Call : Asks(replies, c)' <=> Asks(replies', c)
BY DEF Once, Asks

\* The rest of the state: what the wire and the calls do not depend on.
Rest ==
    /\ kind \in {"logs", "monitor"}
    /\ slot \in Stream \cup {NoStream} /\ next \in 1..(MaxStream + 1)
    /\ client \in [Stream -> {"none", "running", "exited"}]
    /\ stdout \in [Stream -> {"off", "reading", "done"}]
    /\ news \in Seq(Stream)
    /\ conn \in BOOLEAN /\ live \in BOOLEAN /\ marked \in BOOLEAN /\ busy \in BOOLEAN
    /\ steps \in 0..MaxSteps /\ overlapped \in BOOLEAN

LEMMA NativeKeepsRest ==
  ASSUME Rest, StopStream \/ StartStream \/ UNCHANGED native,
         UNCHANGED <<kind, news, panel, outside>>
  PROVE  Rest'
<1>1. CASE UNCHANGED native
  BY <1>1 DEF Rest, native, panel, outside
<1>2. CASE StopStream
  BY <1>2 DEF Rest, StopStream, KilledClient, panel, outside
<1>3. CASE StartStream
  <2>1. next' \in 1..(MaxStream + 1)
    BY <1>3, StreamsAssumption DEF StartStream
  <2> QED
    BY <1>3, <2>1 DEF Rest, StartStream, KilledClient, panel, outside
<1> QED
  BY <1>1, <1>2, <1>3

LEMMA ServeRequestKeepsCalls == ASSUME CInv, ServeRequest PROVE CInv'
<1>1. Rest /\ inbox \in Seq(Request) /\ replies \in Seq(Reply) /\ inbox # <<>>
  BY DEF CInv, StreamsTypeOK, Rest, ServeRequest
<1>2. Rest' /\ UNCHANGED call
  BY <1>1, NativeKeepsRest DEF ServeRequest, StartStreamFails, panel
<1>3. PICK ok \in BOOLEAN :
        /\ inbox' = Tail(inbox)
        /\ replies' = Append(replies, [op |-> Head(inbox).op, call |-> Head(inbox).call, ok |-> ok])
  BY DEF ServeRequest
<1> DEFINE m == Head(inbox)
           r == [op |-> m.op, call |-> m.call, ok |-> ok]
<1>4. m \in Request /\ r \in Reply /\ r.call = m.call /\ m.call \in Call \cup {NoCall}
  <2>1. Head(inbox) \in Request
    BY <1>1, AsksOfTail
  <2>2. Head(inbox).op \in {"stop", "start", "other"} /\ Head(inbox).call \in Call \cup {NoCall}
    BY <2>1 DEF Request
  <2> QED
    BY <2>1, <2>2 DEF Reply
<1> HIDE DEF m, r
<1>5. /\ inbox' \in Seq(Request)
      /\ \A c : Asks(inbox, c) <=> Asks(inbox', c) \/ m.call = c
      /\ Once(inbox) => Once(inbox') /\ (m.call # NoCall => ~Asks(inbox', m.call))
  BY <1>1, <1>3, AsksOfTail DEF m
<1>6. /\ replies' \in Seq(Reply)
      /\ \A c : Asks(replies', c) <=> Asks(replies, c) \/ m.call = c
      /\ Once(replies) /\ (m.call = NoCall \/ ~Asks(replies, m.call)) => Once(replies')
  BY <1>1, <1>3, <1>4, AsksOfAppend DEF m, r
<1>7. CallsAwait'
  <2>1. NoCall \notin Call /\ CallsAwait
    BY DEF Call, NoCall, CInv
  <2>2. Once(inbox') /\ Once(replies')
    BY <1>4, <1>5, <1>6, <2>1 DEF CallsAwait
  <2>3. ASSUME NEW c \in Call
        PROVE  /\ Asks(inbox', c) => call[c] # "idle" /\ ~Asks(replies', c)
               /\ Asks(replies', c) => call[c] # "idle"
    BY <1>5, <1>6, <2>1, <2>3 DEF CallsAwait
  <2> QED
    BY <1>2, <2>2, <2>3, NextWire DEF CallsAwait
<1> QED
  BY <1>1, <1>2, <1>5, <1>6, <1>7 DEF CInv, StreamsTypeOK, Rest

\* What a task of the webview does to the wire and the calls: nothing, a stop
\* that nobody awaits, or a new call.
PanelTask ==
    \/ UNCHANGED <<inbox, call>>
    \/ Invoke(<<"stop">>, NoCall) /\ UNCHANGED call
    \/ \E c \in Call, op \in {"stop", "other"}, where \in Suspended :
         call[c] = "idle" /\ Invoke(<<op>>, c) /\ Suspend(c, where)

LEMMA PanelTaskKeepsCalls ==
  ASSUME CInv, PanelTask, UNCHANGED replies, Rest'
  PROVE  CInv'
<1>1. /\ CallsAwait /\ inbox \in Seq(Request) /\ replies \in Seq(Reply)
      /\ call \in [Call -> {"idle"} \cup Suspended] /\ NoCall \notin Call
  BY DEF CInv, StreamsTypeOK, Call, NoCall
<1>2. ASSUME inbox' \in Seq(Request), call' \in [Call -> {"idle"} \cup Suspended],
             Once(inbox'),
             \A c \in Call : Asks(inbox', c) => call'[c] # "idle" /\ ~Asks(replies, c),
             \A c \in Call : Asks(replies, c) => call'[c] # "idle"
      PROVE  CInv'
  BY <1>1, <1>2, NextWire DEF CInv, StreamsTypeOK, Rest, CallsAwait
<1>3. CASE UNCHANGED <<inbox, call>>
  BY <1>1, <1>2, <1>3 DEF CallsAwait
<1>4. ASSUME NEW c \in Call \cup {NoCall}, NEW op \in {"stop", "other"}, Invoke(<<op>>, c),
             call' \in [Call -> {"idle"} \cup Suspended],
             \A d \in Call : d # c => call'[d] = call[d],
             c # NoCall => call[c] = "idle" /\ call'[c] # "idle"
      PROVE  CInv'
  <2> DEFINE m == [op |-> op, call |-> c]
  <2>1. m \in Request /\ inbox' = Append(inbox, m) /\ m.call = c
    BY <1>1, <1>4, InvokeAppends
  <2> HIDE DEF m
  <2>2. /\ inbox' \in Seq(Request)
        /\ \A d : Asks(inbox', d) <=> Asks(inbox, d) \/ c = d
        /\ Once(inbox) /\ (c = NoCall \/ ~Asks(inbox, c)) => Once(inbox')
    BY <1>1, <2>1, AsksOfAppend
  <2>3. c # NoCall => ~Asks(inbox, c) /\ ~Asks(replies, c)
    BY <1>1, <1>4 DEF CallsAwait
  <2>4. Once(inbox')
    BY <1>1, <2>2, <2>3 DEF CallsAwait
  <2>5. ASSUME NEW d \in Call
        PROVE  /\ Asks(inbox', d) => call'[d] # "idle" /\ ~Asks(replies, d)
               /\ Asks(replies, d) => call'[d] # "idle"
    BY <1>1, <1>4, <2>2, <2>3, <2>5 DEF CallsAwait
  <2> QED
    BY <1>2, <1>4, <2>2, <2>4, <2>5
<1>5. CASE Invoke(<<"stop">>, NoCall) /\ UNCHANGED call
  BY <1>1, <1>4, <1>5
<1>6. ASSUME NEW c \in Call, NEW op \in {"stop", "other"}, NEW where \in Suspended,
             call[c] = "idle", Invoke(<<op>>, c), Suspend(c, where)
      PROVE  CInv'
  <2>1. /\ call' \in [Call -> {"idle"} \cup Suspended] /\ call'[c] = where
        /\ \A d \in Call : d # c => call'[d] = call[d]
    BY <1>1, <1>6 DEF Suspend
  <2>2. where # "idle"
    BY <1>6 DEF Suspended
  <2> QED
    BY <1>4, <1>6, <2>1, <2>2
<1> QED
  BY <1>3, <1>5, <1>6 DEF PanelTask

UserStep == ToggleLive \/ ChooseLogs \/ LeavePage \/ GoOnline \/ LoseConnection \/ Disconnect

LEMMA UserStepKeepsCalls == ASSUME CInv, UserStep PROVE CInv'
<1>1. PanelTask
  BY DEF UserStep, ToggleLive, ChooseLogs, LeavePage, GoOnline, LoseConnection, Disconnect,
     Stop, Start, StartOnline, Load, PanelTask, Suspended
<1>2. /\ UNCHANGED <<kind, native, news, replies>>
      /\ overlapped' \in BOOLEAN /\ steps < MaxSteps /\ steps' = steps + 1
  BY DEF UserStep, ToggleLive, ChooseLogs, LeavePage, GoOnline, LoseConnection, Disconnect, Step
<1>3. steps' \in 0..MaxSteps
  BY <1>2, StreamsAssumption DEF CInv, StreamsTypeOK
<1>4. conn' \in BOOLEAN /\ live' \in BOOLEAN /\ marked' \in BOOLEAN /\ busy' \in BOOLEAN
  BY DEF CInv, StreamsTypeOK, UserStep, ToggleLive, ChooseLogs, LeavePage, GoOnline,
     LoseConnection, Disconnect, Stop, Start, StartOnline, Load
<1>5. Rest'
  BY <1>2, <1>3, <1>4 DEF CInv, StreamsTypeOK, Rest, native
<1> QED
  BY <1>1, <1>2, <1>5, PanelTaskKeepsCalls

\* A call goes on after its answer: it awaits something else, or is over.
GoesOn(c) ==
    \/ UNCHANGED inbox /\ Suspend(c, "idle")
    \/ \E op \in {"start", "other"}, where \in Suspended : Invoke(<<op>>, c) /\ Suspend(c, where)
    \/ /\ inbox' = inbox \o <<[op |-> "stop", call |-> NoCall], [op |-> "other", call |-> c]>>
       /\ \E where \in Suspended : Suspend(c, where)

LEMMA TwoRequests ==
  ASSUME inbox \in Seq(Request), NEW c \in Call,
         inbox' = inbox \o <<[op |-> "stop", call |-> NoCall], [op |-> "other", call |-> c]>>
  PROVE  \E a \in Request, b \in Request :
           /\ a = [op |-> "stop", call |-> NoCall] /\ b = [op |-> "other", call |-> c]
           /\ inbox' = Append(Append(inbox, a), b)
<1>1. PICK a \in Request, b \in Request :
        a = [op |-> "stop", call |-> NoCall] /\ b = [op |-> "other", call |-> c]
  BY DEF Request
<1>2. Append(Append(inbox, a), b) = inbox \o <<a, b>>
  OBVIOUS
<1> QED
  BY <1>1, <1>2

LEMMA GoesOnKeepsCalls ==
  ASSUME CInv, replies # <<>>, NEW c \in Call, Head(replies).call = c, GoesOn(c),
         replies' = Tail(replies), Rest'
  PROVE  CInv'
<1>1. /\ CallsAwait /\ inbox \in Seq(Request) /\ replies \in Seq(Reply)
      /\ call \in [Call -> {"idle"} \cup Suspended] /\ NoCall \notin Call
  BY DEF CInv, StreamsTypeOK, Call, NoCall
<1>2. /\ replies' \in Seq(Reply) /\ Once(replies') /\ ~Asks(replies', c)
      /\ \A d : Asks(replies', d) => Asks(replies, d)
      /\ Asks(replies, c) /\ ~Asks(inbox, c)
  <2>1. /\ Tail(replies) \in Seq(Reply)
        /\ \A d : Asks(replies, d) <=> Asks(Tail(replies), d) \/ c = d
        /\ Once(replies) => /\ Once(Tail(replies))
                            /\ c # NoCall => ~Asks(Tail(replies), c)
    BY <1>1, AsksOfTail
  <2> QED
    BY <1>1, <2>1 DEF CallsAwait
<1>3. ASSUME inbox' \in Seq(Request), call' \in [Call -> {"idle"} \cup Suspended],
             \A d \in Call : d # c => call'[d] = call[d],
             Once(inbox'), \A d \in Call : Asks(inbox', d) => Asks(inbox, d) \/ d = c,
             Asks(inbox', c) => call'[c] # "idle"
      PROVE  CInv'
  <2>1. ASSUME NEW d \in Call
        PROVE  /\ Asks(inbox', d) => call'[d] # "idle" /\ ~Asks(replies', d)
               /\ Asks(replies', d) => call'[d] # "idle"
    BY <1>1, <1>2, <1>3, <2>1 DEF CallsAwait
  <2>2. CallsAwait'
    BY <1>2, <1>3, <2>1, NextWire DEF CallsAwait
  <2> QED
    BY <1>2, <1>3, <2>2 DEF CInv, StreamsTypeOK, Rest
<1>4. ASSUME NEW where \in {"idle"} \cup Suspended, Suspend(c, where)
      PROVE  /\ call' \in [Call -> {"idle"} \cup Suspended] /\ call'[c] = where
             /\ \A d \in Call : d # c => call'[d] = call[d]
  BY <1>1, <1>4 DEF Suspend
<1>5. \A where \in Suspended : where # "idle"
  BY DEF Suspended
<1>6. CASE UNCHANGED inbox /\ Suspend(c, "idle")
  BY <1>1, <1>2, <1>3, <1>4, <1>6 DEF CallsAwait
<1>7. ASSUME NEW op \in {"start", "other"}, NEW where \in Suspended,
             Invoke(<<op>>, c), Suspend(c, where)
      PROVE  CInv'
  <2>1. PICK m \in Request : m.call = c /\ inbox' = Append(inbox, m)
    BY <1>1, <1>7, InvokeAppends
  <2>2. inbox' \in Seq(Request) /\ Once(inbox') /\ \A d : Asks(inbox', d) => Asks(inbox, d) \/ d = c
    BY <1>1, <1>2, <2>1, AsksOfAppend DEF CallsAwait
  <2> QED
    BY <1>3, <1>4, <1>5, <1>7, <2>2
<1>8. ASSUME NEW where \in Suspended, Suspend(c, where),
             inbox' = inbox \o <<[op |-> "stop", call |-> NoCall], [op |-> "other", call |-> c]>>
      PROVE  CInv'
  <2>1. PICK a \in Request, b \in Request :
          a.call = NoCall /\ b.call = c /\ inbox' = Append(Append(inbox, a), b)
    BY <1>1, <1>8, TwoRequests
  <2>2. /\ Append(inbox, a) \in Seq(Request) /\ Once(Append(inbox, a))
        /\ \A d : Asks(Append(inbox, a), d) <=> Asks(inbox, d) \/ NoCall = d
    BY <1>1, <2>1, AsksOfAppend DEF CallsAwait
  <2>3. /\ inbox' \in Seq(Request) /\ Once(inbox')
        /\ \A d : Asks(inbox', d) <=> Asks(Append(inbox, a), d) \/ c = d
    <3>1. ~Asks(Append(inbox, a), b.call)
      BY <1>1, <1>2, <2>1, <2>2
    <3> DEFINE s == Append(inbox, a)
    <3>2. s \in Seq(Request) /\ Once(s) /\ ~Asks(s, b.call)
      BY <2>2, <3>1
    <3> HIDE DEF s
    <3>3. /\ Append(s, b) \in Seq(Request) /\ Once(Append(s, b))
          /\ \A d : Asks(Append(s, b), d) <=> Asks(s, d) \/ b.call = d
      BY <3>2, AsksOfAppend
    <3> QED
      BY <2>1, <3>3 DEF s
  <2>4. \A d \in Call : Asks(inbox', d) => Asks(inbox, d) \/ d = c
    BY <1>1, <2>2, <2>3
  <2> QED
    BY <1>3, <1>4, <1>5, <1>8, <2>3, <2>4
<1> QED
  BY <1>6, <1>7, <1>8 DEF GoesOn

LEMMA DeliverReplyKeepsCalls == ASSUME CInv, DeliverReply PROVE CInv'
<1>1. /\ CallsAwait /\ replies \in Seq(Reply) /\ replies # <<>> /\ replies' = Tail(replies)
      /\ UNCHANGED <<kind, native, news, outside>>
  BY DEF CInv, StreamsTypeOK, DeliverReply
<1>2. PICK r \in Reply : r = Head(replies)
  BY <1>1, AsksOfTail
<1>3. CASE r.call = NoCall
  <2>1. /\ marked' = FALSE /\ UNCHANGED <<conn, live, busy, call, inbox>>
    BY <1>2, <1>3 DEF DeliverReply
  <2>2. Rest'
    BY <1>1, <2>1 DEF CInv, StreamsTypeOK, Rest, native, outside
  <2>3. replies' \in Seq(Reply) /\ Once(replies') /\ \A d : Asks(replies', d) => Asks(replies, d)
    BY <1>1, AsksOfTail DEF CallsAwait
  <2>4. CallsAwait'
    BY <1>1, <2>1, <2>3, NextWire DEF CallsAwait
  <2> QED
    BY <2>1, <2>2, <2>3, <2>4 DEF CInv, StreamsTypeOK, Rest
<1>4. CASE r.call # NoCall
  <2>1. PICK c \in Call : c = r.call
    BY <1>4 DEF Reply
  <2>2. call[c] \in Suspended /\ r.ok \in BOOLEAN
    <3>1. Asks(replies, c)
      BY <1>1, <1>2, <2>1, AsksOfTail
    <3> QED
      BY <1>1, <3>1 DEF CallsAwait, CInv, StreamsTypeOK, Reply
  <2>3. AfterStop(c) \/ AfterLoad(c) \/ AfterStart(c, r.ok) \/ AfterParting(c) \/ AfterClosing(c)
    BY <1>2, <1>4, <2>1, <2>2 DEF DeliverReply, Suspended
  <2>4. GoesOn(c)
    BY <2>3 DEF AfterStop, AfterLoad, AfterStart, AfterParting, AfterClosing, GoesOn, Suspended
  <2>5. conn' \in BOOLEAN /\ live' \in BOOLEAN /\ marked' \in BOOLEAN /\ busy' \in BOOLEAN
    <3>1. conn \in BOOLEAN /\ live \in BOOLEAN /\ marked \in BOOLEAN /\ busy \in BOOLEAN
      BY DEF CInv, StreamsTypeOK
    <3> QED
      BY <2>2, <2>3, <3>1 DEF AfterStop, AfterLoad, AfterStart, AfterParting, AfterClosing
  <2>6. Rest'
    BY <1>1, <2>5 DEF CInv, StreamsTypeOK, Rest, native, outside
  <2> QED
    BY <1>1, <1>2, <2>1, <2>4, <2>6, GoesOnKeepsCalls
<1> QED
  BY <1>3, <1>4

LEMMA CInvInitially == StreamsInit => CInv
<1> SUFFICES ASSUME StreamsInit PROVE CInv
  OBVIOUS
<1>1. Len(inbox) = 0 /\ Len(replies) = 0 /\ inbox \in Seq(Request) /\ replies \in Seq(Reply)
      /\ news \in Seq(Stream)
  BY DEF StreamsInit
<1>2. CallsAwait
  BY <1>1 DEF CallsAwait, Once, Asks
<1>3. StreamsTypeOK
  <2>1. /\ client \in [Stream -> {"none", "running", "exited"}]
        /\ stdout \in [Stream -> {"off", "reading", "done"}]
        /\ call \in [Call -> {"idle"} \cup Suspended]
    BY DEF StreamsInit
  <2>2. next \in 1..(MaxStream + 1) /\ steps \in 0..MaxSteps
    BY StreamsAssumption DEF StreamsInit
  <2> QED
    BY <1>1, <2>1, <2>2 DEF StreamsInit, StreamsTypeOK
<1> QED
  BY <1>2, <1>3 DEF CInv

LEMMA CInvIsInductive == CInv /\ [StreamsNext]_svars => CInv'
<1> SUFFICES ASSUME CInv, [StreamsNext]_svars PROVE CInv'
  OBVIOUS
<1>1. ASSUME UNCHANGED <<inbox, replies, call>>, Rest' PROVE CInv'
  <2>1. CallsAwait'
    BY <1>1, NextWire DEF CInv, CallsAwait
  <2> QED
    BY <1>1, <2>1 DEF CInv, StreamsTypeOK, Rest
<1>2. ASSUME NEW s \in Stream, EndOfOutput(s) \/ ClientExit(s) PROVE CInv'
  <2>1. news \in Seq(Stream) /\ Append(news, s) \in Seq(Stream)
    BY <1>2, AppendProperties DEF CInv, StreamsTypeOK
  <2>2. news' \in Seq(Stream)
    BY <1>2, <2>1 DEF EndOfOutput, ClientExit
  <2> QED
    BY <1>1, <1>2, <2>2
       DEF CInv, StreamsTypeOK, Rest, EndOfOutput, ClientExit, panel, outside
<1>3. CASE DeliverNews
  <2>1. news' \in Seq(Stream)
    BY <1>3, HeadTailProperties DEF CInv, StreamsTypeOK, DeliverNews
  <2> QED
    BY <1>1, <1>3, <2>1 DEF CInv, StreamsTypeOK, Rest, DeliverNews, native, outside
<1>4. CASE UNCHANGED svars
  BY <1>1, <1>4 DEF CInv, StreamsTypeOK, Rest, svars, native, panel, outside
<1> QED
  BY <1>2, <1>3, <1>4, ServeRequestKeepsCalls, UserStepKeepsCalls, DeliverReplyKeepsCalls
     DEF StreamsNext, UserStep

LEMMA CInvHolds == StreamsSpec => []CInv
BY CInvInitially, CInvIsInductive, PTL DEF StreamsSpec

\* Both sides keep their types, and every answer finds its call awaiting it,
\* however many calls overlap (lib.rs 841-948, main.ts 1695-1732, 1978-2013).
THEOREM StreamsTypeCorrect == StreamsSpec => []StreamsTypeOK
<1>1. CInv => StreamsTypeOK
  BY DEF CInv
<1> QED
  BY <1>1, CInvHolds, PTL

-----------------------------------------------------------------------------
(* As long as no call was overtaken, there is one call at a time, or one stop *)
(* that nobody awaits, and the panel is where that call has left it.          *)

Asked(op, c) ==
    Len(inbox) = 1 /\ inbox[1].op = op /\ inbox[1].call = c /\ Len(replies) = 0
Answered(op, c) ==
    Len(inbox) = 0 /\ Len(replies) = 1 /\ replies[1].op = op /\ replies[1].call = c
InFlight(op, c) == Asked(op, c) \/ Answered(op, c)

\* What the panel shows is there; it shows nothing.
Shown == (live => slot # NoStream) /\ (kind = "logs" => live = marked)
Dark == ~live /\ (kind = "logs" => ~marked)

AtRest ==
    /\ Quiescent /\ Len(inbox) = 0 /\ Len(replies) = 0 /\ ~busy
    /\ Shown /\ (~conn => slot = NoStream)

LettingGo ==
    /\ Quiescent /\ InFlight("stop", NoCall) /\ ~busy
    /\ ~live /\ (Len(inbox) = 0 => slot = NoStream)

\* One call is suspended, and the interface is online.
Alone(c, where) == conn /\ \A d \in Call : call[d] = IF d = c THEN where ELSE "idle"

Stopping(c) == Alone(c, "stopping") /\ InFlight("stop", c) /\ ~busy /\ ~live
Loading(c) == Alone(c, "loading") /\ InFlight("other", c) /\ busy /\ Dark
Starting(c) ==
    /\ Alone(c, "starting") /\ InFlight("start", c) /\ ~busy /\ Dark
    /\ Len(inbox) = 0 /\ replies[1].ok => slot # NoStream
Reloading(c) == Alone(c, "reloading") /\ InFlight("other", c) /\ busy /\ Shown
Parting(c) ==
    /\ Alone(c, "parting") /\ ~busy
    /\ \/ kind = "monitor" /\ InFlight("other", c)
       \/ kind = "logs" /\ InFlight("stop", c) /\ ~live /\ (Len(inbox) = 0 => slot = NoStream)

\* disconnectTerminal has asked for the monitor's end and for the session's.
TwoAsked(c) ==
    /\ Len(inbox) = 2 /\ Len(replies) = 0 /\ inbox[1].op = "stop" /\ inbox[1].call = NoCall
    /\ inbox[2].op = "other" /\ inbox[2].call = c
OneAnswered(c) ==
    /\ Len(inbox) = 1 /\ Len(replies) = 1 /\ replies[1].call = NoCall
    /\ inbox[1].op = "other" /\ inbox[1].call = c
TwoAnswered(c) ==
    /\ Len(inbox) = 0 /\ Len(replies) = 2 /\ replies[1].call = NoCall
    /\ replies[2].op = "other" /\ replies[2].call = c
ClosingWire(c) ==
    \/ kind = "monitor" /\ TwoAsked(c)
    \/ slot = NoStream /\ InFlight("other", c)
    \/ slot = NoStream /\ kind = "monitor" /\ (OneAnswered(c) \/ TwoAnswered(c))
Closing(c) == Alone(c, "closing") /\ ~busy /\ Dark /\ ClosingWire(c)

InCall(c) ==
    \/ Stopping(c) \/ Loading(c) \/ Starting(c) \/ Reloading(c) \/ Parting(c) \/ Closing(c)

Undisturbed == overlapped \/ AtRest \/ LettingGo \/ \E c \in Call : InCall(c)
UInv == SInv /\ CInv /\ Undisturbed

LEMMA ServeFacts ==
  ASSUME CInv, ServeRequest
  PROVE  /\ Len(inbox) \in Nat \ {0} /\ Len(inbox') = Len(inbox) - 1
         /\ Len(replies) \in Nat /\ Len(replies') = Len(replies) + 1
         /\ \A i \in 1..(Len(inbox) - 1) : inbox'[i] = inbox[i + 1]
         /\ \A i \in 1..Len(replies) : replies'[i] = replies[i]
         /\ replies'[Len(replies) + 1].op = inbox[1].op
         /\ replies'[Len(replies) + 1].call = inbox[1].call
         /\ inbox[1].op = "stop" => slot' = NoStream
         /\ inbox[1].op = "start" /\ replies'[Len(replies) + 1].ok => slot' # NoStream
         /\ inbox[1].op = "other" => UNCHANGED slot
         /\ UNCHANGED <<kind, news, conn, live, marked, busy, call, steps, overlapped>>
<1>1. inbox \in Seq(Request) /\ replies \in Seq(Reply) /\ inbox # <<>>
  BY DEF CInv, StreamsTypeOK, ServeRequest
<1>2. PICK ok \in BOOLEAN :
        /\ inbox' = Tail(inbox)
        /\ replies' = Append(replies, [op |-> Head(inbox).op, call |-> Head(inbox).call, ok |-> ok])
        /\ Head(inbox).op = "stop" => slot' = NoStream
        /\ Head(inbox).op = "start" /\ ok => slot' # NoStream
        /\ Head(inbox).op = "other" => UNCHANGED slot
  <2> DEFINE Answers(ok) ==
               /\ inbox' = Tail(inbox)
               /\ replies' = Append(replies, [op |-> Head(inbox).op, call |-> Head(inbox).call, ok |-> ok])
  <2>1. \/ Head(inbox).op = "stop" /\ slot' = NoStream /\ Answers(TRUE)
        \/ Head(inbox).op = "start" /\ slot' # NoStream /\ Answers(TRUE)
        \/ Head(inbox).op = "start" /\ Answers(FALSE)
        \/ Head(inbox).op = "other" /\ UNCHANGED slot /\ Answers(TRUE)
    BY DEF ServeRequest, StopStream, StartStream, native
  <2> QED
    BY <2>1
<1> DEFINE r == [op |-> Head(inbox).op, call |-> Head(inbox).call, ok |-> ok]
<1>3. /\ Head(inbox) \in Request /\ Head(inbox) = inbox[1] /\ Len(inbox) \in Nat \ {0}
      /\ Len(inbox') = Len(inbox) - 1
      /\ \A i \in 1..(Len(inbox) - 1) : inbox'[i] = inbox[i + 1]
  BY <1>1, <1>2, AsksOfTail
<1>4. r \in Reply /\ r.op = inbox[1].op /\ r.call = inbox[1].call /\ r.ok = ok
  <2>1. Head(inbox).op \in {"stop", "start", "other"} /\ Head(inbox).call \in Call \cup {NoCall}
    BY <1>3 DEF Request
  <2> QED
    BY <1>3, <2>1 DEF Reply
<1>5. Len(replies) \in Nat
  BY <1>1
<1> HIDE DEF r
<1>6. /\ Len(replies') = Len(replies) + 1 /\ replies'[Len(replies) + 1] = r
      /\ \A i \in 1..Len(replies) : replies'[i] = replies[i]
  BY <1>1, <1>2, <1>4, AsksOfAppend DEF r
<1>7. UNCHANGED <<kind, news, conn, live, marked, busy, call, steps, overlapped>>
  BY DEF ServeRequest, panel, outside
<1> QED
  BY <1>2, <1>3, <1>4, <1>5, <1>6, <1>7

\* The one request in flight is answered.
LEMMA ServeAnswers ==
  ASSUME CInv, ServeRequest, NEW op, NEW c, InFlight(op, c)
  PROVE  /\ Answered(op, c)' /\ Len(inbox') = 0
         /\ op = "stop" => slot' = NoStream
         /\ op = "start" /\ replies'[1].ok => slot' # NoStream
         /\ op = "other" => UNCHANGED slot
         /\ UNCHANGED <<kind, conn, live, marked, busy, call, overlapped>>
BY ServeFacts DEF InFlight, Asked, Answered

LEMMA ServeRequestKeepsU == ASSUME UInv, ServeRequest PROVE Undisturbed'
<1>0. CInv /\ UNCHANGED <<kind, conn, live, marked, busy, call, overlapped>>
  BY ServeFacts DEF UInv
<1>1. CASE overlapped
  BY <1>0, <1>1 DEF Undisturbed
<1>2. ~AtRest
  BY <1>0, ServeFacts DEF AtRest
<1>3. CASE LettingGo
  BY <1>0, <1>3, ServeAnswers DEF LettingGo, Undisturbed, InFlight, Quiescent
<1>4. ASSUME NEW c \in Call, InCall(c) PROVE InCall(c)'
  <2>0. ASSUME NEW where, Alone(c, where) PROVE Alone(c, where)'
    BY <1>0, <2>0 DEF Alone
  <2>1. CASE Stopping(c)
    BY <1>0, <2>0, <2>1, ServeAnswers DEF Stopping, InFlight, InCall
  <2>2. CASE Loading(c)
    BY <1>0, <2>0, <2>2, ServeAnswers DEF Loading, InFlight, InCall, Dark
  <2>3. CASE Starting(c)
    BY <1>0, <2>0, <2>3, ServeAnswers DEF Starting, InFlight, InCall, Dark
  <2>4. CASE Reloading(c)
    BY <1>0, <2>0, <2>4, ServeAnswers DEF Reloading, InFlight, InCall, Shown
  <2>5. CASE Parting(c)
    BY <1>0, <2>0, <2>5, ServeAnswers DEF Parting, InFlight, InCall
  <2>6. CASE Closing(c)
    <3>1. CASE InFlight("other", c) /\ slot = NoStream
      <4>1. InFlight("other", c)' /\ slot' = NoStream
        BY <1>0, <3>1, ServeAnswers DEF InFlight
      <4> QED
        BY <1>0, <2>0, <2>6, <4>1 DEF Closing, ClosingWire, InCall, Dark
    <3>2. CASE kind = "monitor" /\ TwoAsked(c)
      <4>1. OneAnswered(c)' /\ slot' = NoStream
        BY <1>0, <3>2, ServeFacts DEF TwoAsked, OneAnswered
      <4> QED
        BY <1>0, <2>0, <2>6, <3>2, <4>1 DEF Closing, ClosingWire, InCall, Dark
    <3>3. CASE kind = "monitor" /\ OneAnswered(c) /\ slot = NoStream
      <4>1. TwoAnswered(c)' /\ slot' = NoStream
        BY <1>0, <3>3, ServeFacts DEF TwoAnswered, OneAnswered
      <4> QED
        BY <1>0, <2>0, <2>6, <3>3, <4>1 DEF Closing, ClosingWire, InCall, Dark
    <3>4. ~TwoAnswered(c)
      BY <1>0, ServeFacts DEF TwoAnswered
    <3> QED
      BY <2>6, <3>1, <3>2, <3>3, <3>4 DEF Closing, ClosingWire
  <2> QED
    BY <1>4, <2>1, <2>2, <2>3, <2>4, <2>5, <2>6 DEF InCall
<1> QED
  BY <1>1, <1>2, <1>3, <1>4 DEF UInv, Undisturbed

\* A task that neither answers nor asks keeps the wire and the calls.
LEMMA SameWire ==
  ASSUME UNCHANGED <<inbox, replies, call, conn, kind, slot, busy>>
  PROVE  /\ \A op, c : InFlight(op, c)' <=> InFlight(op, c)
         /\ \A c, where : Alone(c, where)' <=> Alone(c, where)
         /\ \A c : ClosingWire(c)' <=> ClosingWire(c)
         /\ Quiescent' <=> Quiescent
<1>1. \A op, c : InFlight(op, c)' <=> InFlight(op, c)
  BY DEF InFlight, Asked, Answered
<1>2. \A c, where : Alone(c, where)' <=> Alone(c, where)
  BY DEF Alone
<1>3. \A c : ClosingWire(c)' <=> ClosingWire(c)
  BY DEF ClosingWire, InFlight, Asked, Answered, TwoAsked, OneAnswered, TwoAnswered
<1> QED
  BY <1>1, <1>2, <1>3 DEF Quiescent

LEMMA NewsKeepsU ==
  ASSUME UInv, UNCHANGED <<inbox, replies, call, conn, kind, slot, busy, overlapped>>,
         \/ UNCHANGED <<live, marked>>
         \/ kind = "logs" /\ live /\ live' = FALSE /\ marked' = FALSE
  PROVE  Undisturbed'
<1>1. CASE overlapped
  BY <1>1 DEF Undisturbed
<1>2. /\ Shown => Shown'
      /\ Dark => Dark'
      /\ ~live => ~live' /\ UNCHANGED <<live, marked>>
  <2>1. CASE UNCHANGED <<live, marked>>
    BY <2>1 DEF Shown, Dark
  <2>2. CASE kind = "logs" /\ live /\ live' = FALSE /\ marked' = FALSE
    BY <2>2 DEF Shown, Dark
  <2> QED
    BY <2>1, <2>2
<1>3. CASE AtRest
  BY <1>2, <1>3, SameWire DEF AtRest, Undisturbed
<1>4. CASE LettingGo
  BY <1>2, <1>4, SameWire DEF LettingGo, Undisturbed
<1>5. ASSUME NEW c \in Call, InCall(c) PROVE InCall(c)'
  <2>1. CASE Stopping(c)
    BY <1>2, <2>1, SameWire DEF Stopping, InCall
  <2>2. CASE Loading(c)
    BY <1>2, <2>2, SameWire DEF Loading, InCall
  <2>3. CASE Starting(c)
    BY <1>2, <2>3, SameWire DEF Starting, InCall
  <2>4. CASE Reloading(c)
    BY <1>2, <2>4, SameWire DEF Reloading, InCall
  <2>5. CASE Parting(c)
    BY <1>2, <2>5, SameWire DEF Parting, InCall
  <2>6. CASE Closing(c)
    BY <1>2, <2>6, SameWire DEF Closing, InCall
  <2> QED
    BY <1>5, <2>1, <2>2, <2>3, <2>4, <2>5, <2>6 DEF InCall
<1> QED
  BY <1>1, <1>3, <1>4, <1>5 DEF UInv, Undisturbed

\* A request that joins an empty wire.
LEMMA AskAlone ==
  ASSUME inbox \in Seq(Request), Len(inbox) = 0, Len(replies') = 0,
         NEW op \in {"stop", "start", "other"}, NEW c \in Call \cup {NoCall}, Invoke(<<op>>, c)
  PROVE  InFlight(op, c)' /\ Len(inbox') = 1
<1> DEFINE m == [op |-> op, call |-> c]
<1>1. m \in Request /\ inbox' = Append(inbox, m) /\ m.op = op /\ m.call = c
  BY InvokeAppends
<1> HIDE DEF m
<1>2. Len(inbox') = 1 /\ inbox'[1] = m
  BY <1>1, AsksOfAppend
<1> QED
  BY <1>1, <1>2 DEF InFlight, Asked

LEMMA AloneIn ==
  ASSUME CInv, conn', NEW c \in Call, NEW where, Suspend(c, where),
         \A d \in Call : d # c => call[d] = "idle"
  PROVE  Alone(c, where)'
BY DEF CInv, StreamsTypeOK, Suspend, Alone

\* What the user or the connection does when nothing is under way.
LEMMA UserStepKeepsU == ASSUME UInv, UserStep PROVE Undisturbed'
<1>0. /\ CInv /\ inbox \in Seq(Request) /\ kind \in {"logs", "monitor"}
      /\ UNCHANGED <<kind, slot, replies>>
      /\ overlapped' = (overlapped \/ ~Quiescent \/ inbox # <<>> \/ replies # <<>>)
  BY DEF UInv, CInv, StreamsTypeOK, UserStep, ToggleLive, ChooseLogs, LeavePage, GoOnline,
     LoseConnection, Disconnect, Step, native
<1> SUFFICES ASSUME ~overlapped' PROVE Undisturbed'
  BY DEF Undisturbed
<1>1. Quiescent /\ Len(inbox) = 0 /\ Len(replies) = 0 /\ Len(replies') = 0
  BY <1>0
<1>2. AtRest
  <2>1. ~LettingGo
    BY <1>1 DEF LettingGo, InFlight, Asked, Answered
  <2>2. \A c \in Call : ~InCall(c)
    BY <1>1 DEF InCall, Stopping, Loading, Starting, Reloading, Parting, Closing, Alone, Quiescent
  <2> QED
    BY <1>0, <2>1, <2>2 DEF UInv, Undisturbed
<1>3. ~busy /\ Shown /\ (~conn => slot = NoStream) /\ \A c \in Call : call[c] = "idle"
  BY <1>2 DEF AtRest, Quiescent
<1>4. ASSUME Stop, ~conn, UNCHANGED conn PROVE AtRest'
  BY <1>0, <1>1, <1>3, <1>4 DEF Stop, AtRest, Shown, Quiescent
<1>5. ASSUME Stop, conn PROVE LettingGo'
  <2>1. Invoke(<<"stop">>, NoCall) /\ UNCHANGED <<busy, call>> /\ live' = FALSE
    BY <1>5 DEF Stop
  <2> QED
    BY <1>0, <1>1, <1>3, <2>1, AskAlone DEF LettingGo, Quiescent
<1>6. ASSUME UNCHANGED <<live, marked, busy, call, inbox>>, conn => conn' PROVE AtRest'
  BY <1>0, <1>1, <1>3, <1>6 DEF AtRest, Shown, Quiescent
<1>7. ASSUME StartOnline, conn' PROVE \E c \in Call : Stopping(c)'
  BY <1>0, <1>1, <1>3, <1>7, AskAlone, AloneIn DEF StartOnline, Stopping
<1>8. ASSUME Load, UNCHANGED conn PROVE AtRest' \/ \E c \in Call : Reloading(c)'
  <2>1. CASE conn /\ ~busy
    BY <1>0, <1>1, <1>3, <1>8, <2>1, AskAlone, AloneIn DEF Load, Reloading, Shown
  <2> QED
    BY <1>6, <1>8, <2>1 DEF Load
<1>9. ASSUME Disconnect PROVE \E c \in Call : Parting(c)'
  <2>1. PICK c \in Call :
          /\ live' = (kind = "monitor" /\ live)
          /\ Invoke(<<IF kind = "logs" THEN "stop" ELSE "other">>, c)
          /\ Suspend(c, "parting") /\ conn' /\ UNCHANGED busy
    BY <1>9 DEF Disconnect
  <2>2. Alone(c, "parting")'
    BY <1>0, <1>3, <2>1, AloneIn
  <2>3. CASE kind = "logs"
    <3>1. InFlight("stop", c)' /\ Len(inbox') = 1
      BY <1>0, <1>1, <2>1, <2>3, AskAlone
    <3>2. ~live' /\ ~busy' /\ kind' = "logs"
      BY <1>0, <1>3, <2>1, <2>3
    <3> QED
      BY <2>2, <3>1, <3>2 DEF Parting
  <2>4. CASE kind = "monitor"
    <3>1. InFlight("other", c)'
      BY <1>0, <1>1, <2>1, <2>4, AskAlone
    <3> QED
      BY <1>0, <1>3, <2>1, <2>2, <2>4, <3>1 DEF Parting
  <2> QED
    BY <1>0, <2>3, <2>4
<1>10. AtRest' \/ LettingGo' \/ \E c \in Call : InCall(c)'
  <2>1. CASE ToggleLive
    BY <1>4, <1>5, <1>6, <1>7, <2>1 DEF ToggleLive, Start, InCall
  <2>2. CASE ChooseLogs
    BY <1>6, <1>7, <1>8, <2>2 DEF ChooseLogs, Start, InCall
  <2>3. CASE LeavePage
    BY <1>4, <1>5, <2>3 DEF LeavePage
  <2>4. CASE GoOnline
    BY <1>6, <1>7, <2>4 DEF GoOnline, InCall
  <2>5. CASE LoseConnection
    BY <1>5, <2>5 DEF LoseConnection
  <2>6. CASE Disconnect
    BY <1>9, <2>6 DEF InCall
  <2> QED
    BY <2>1, <2>2, <2>3, <2>4, <2>5, <2>6 DEF UserStep
<1> QED
  BY <1>10 DEF Undisturbed

LEMMA DeliverFacts ==
  ASSUME CInv, DeliverReply
  PROVE  /\ Len(replies) \in Nat \ {0} /\ Len(replies') = Len(replies) - 1
         /\ \A i \in 1..(Len(replies) - 1) : replies'[i] = replies[i + 1]
         /\ replies[1].call = NoCall =>
              marked' = FALSE /\ UNCHANGED <<conn, live, busy, call, inbox>>
         /\ \A c \in Call : replies[1].call = c =>
              /\ call[c] = "stopping" => AfterStop(c)
              /\ call[c] \in {"loading", "reloading"} => AfterLoad(c)
              /\ call[c] = "starting" => AfterStart(c, replies[1].ok)
              /\ call[c] = "parting" => AfterParting(c)
              /\ call[c] = "closing" => AfterClosing(c)
         /\ UNCHANGED <<kind, slot, overlapped>>
<1>1. replies \in Seq(Reply) /\ replies # <<>> /\ replies' = Tail(replies)
  BY DEF CInv, StreamsTypeOK, DeliverReply
<1>2. /\ Len(replies) \in Nat \ {0} /\ Len(replies') = Len(replies) - 1 /\ Head(replies) = replies[1]
      /\ \A i \in 1..(Len(replies) - 1) : replies'[i] = replies[i + 1]
  BY <1>1, AsksOfTail
<1>3. replies[1].call = NoCall => marked' = FALSE /\ UNCHANGED <<conn, live, busy, call, inbox>>
  BY <1>2 DEF DeliverReply
<1>4. ASSUME NEW c \in Call, replies[1].call = c
      PROVE  /\ call[c] = "stopping" => AfterStop(c)
             /\ call[c] \in {"loading", "reloading"} => AfterLoad(c)
             /\ call[c] = "starting" => AfterStart(c, replies[1].ok)
             /\ call[c] = "parting" => AfterParting(c)
             /\ call[c] = "closing" => AfterClosing(c)
  <2>1. c # NoCall
    BY DEF Call, NoCall
  <2> QED
    BY <1>2, <1>4, <2>1 DEF DeliverReply
<1>5. UNCHANGED <<kind, slot, overlapped>>
  BY DEF DeliverReply, native, outside
<1> QED
  BY <1>2, <1>3, <1>4, <1>5

LEMMA DeliverReplyKeepsU == ASSUME UInv, DeliverReply PROVE Undisturbed'
<1>0. /\ CInv /\ UNCHANGED <<kind, slot, overlapped>> /\ kind \in {"logs", "monitor"}
      /\ inbox \in Seq(Request) /\ marked \in BOOLEAN /\ live \in BOOLEAN
      /\ Len(replies) \in Nat \ {0} /\ Len(replies') = Len(replies) - 1
      /\ \A i \in 1..(Len(replies) - 1) : replies'[i] = replies[i + 1]
      /\ NoCall \notin Call
  <2>1. CInv
    BY DEF UInv
  <2>2. /\ kind \in {"logs", "monitor"} /\ inbox \in Seq(Request)
        /\ marked \in BOOLEAN /\ live \in BOOLEAN
    BY <2>1 DEF CInv, StreamsTypeOK
  <2> QED
    BY <2>1, <2>2, DeliverFacts DEF Call, NoCall
<1>1. CASE overlapped
  BY <1>0, <1>1 DEF Undisturbed
<1>2. ~AtRest
  BY <1>0 DEF AtRest
<1>3. ASSUME NEW op, NEW c, InFlight(op, c)
      PROVE  /\ Len(inbox) = 0 /\ Len(replies) = 1 /\ Len(replies') = 0
             /\ replies[1].op = op /\ replies[1].call = c
  BY <1>0, <1>3 DEF InFlight, Asked, Answered
<1>4. CASE LettingGo
  <2>1. /\ Len(inbox) = 0 /\ Len(replies') = 0 /\ slot = NoStream
        /\ marked' = FALSE /\ UNCHANGED <<conn, live, busy, call, inbox>> /\ ~live
    BY <1>0, <1>3, <1>4, DeliverFacts DEF LettingGo
  <2> QED
    BY <1>0, <1>4, <2>1 DEF LettingGo, AtRest, Quiescent, Shown, Undisturbed
<1>5. ASSUME NEW c \in Call, InCall(c) PROVE AtRest' \/ InCall(c)'
  <2>0. ASSUME NEW where, Alone(c, where)
        PROVE  /\ conn /\ call[c] = where /\ \A d \in Call : d # c => call[d] = "idle"
    BY <2>0 DEF Alone
  <2>1. ASSUME Suspend(c, "idle"), \A d \in Call : d # c => call[d] = "idle" PROVE Quiescent'
    BY <1>0, <2>1 DEF CInv, StreamsTypeOK, Suspend, Quiescent
  <2>2. CASE Stopping(c)
    <3>1. /\ conn /\ \A d \in Call : d # c => call[d] = "idle"
          /\ Len(inbox) = 0 /\ Len(replies') = 0 /\ AfterStop(c) /\ ~busy /\ ~live
      BY <1>3, <2>0, <2>2, DeliverFacts, <1>0 DEF Stopping
    <3>2. CASE kind = "logs"
      <4>1. /\ marked' = FALSE /\ busy' = TRUE /\ Invoke(<<"other">>, c)
            /\ Suspend(c, "loading") /\ UNCHANGED <<conn, live>>
        BY <3>1, <3>2 DEF AfterStop
      <4>2. InFlight("other", c)' /\ Alone(c, "loading")'
        BY <1>0, <3>1, <4>1, AskAlone, AloneIn
      <4> QED
        BY <3>1, <4>1, <4>2 DEF InCall, Loading, Dark
    <3>3. CASE kind = "monitor"
      <4>1. /\ live' = FALSE /\ Invoke(<<"start">>, c)
            /\ Suspend(c, "starting") /\ UNCHANGED <<conn, busy>>
        BY <3>1, <3>3 DEF AfterStop
      <4>2. InFlight("start", c)' /\ Len(inbox') = 1 /\ Alone(c, "starting")'
        BY <1>0, <3>1, <4>1, AskAlone, AloneIn
      <4> QED
        BY <1>0, <3>1, <3>3, <4>1, <4>2 DEF InCall, Starting, Dark
    <3> QED
      BY <1>0, <3>2, <3>3
  <2>3. CASE Loading(c)
    <3>1. /\ conn /\ \A d \in Call : d # c => call[d] = "idle"
          /\ Len(inbox) = 0 /\ Len(replies') = 0 /\ AfterLoad(c) /\ call[c] = "loading"
      BY <1>3, <2>0, <2>3, DeliverFacts, <1>0 DEF Loading
    <3>2. /\ busy' = FALSE /\ Invoke(<<"start">>, c) /\ Suspend(c, "starting")
          /\ UNCHANGED <<conn, live, marked>>
      BY <3>1 DEF AfterLoad
    <3>3. InFlight("start", c)' /\ Len(inbox') = 1 /\ Alone(c, "starting")'
      BY <1>0, <3>1, <3>2, AskAlone, AloneIn
    <3> QED
      BY <1>0, <2>3, <3>2, <3>3 DEF InCall, Loading, Starting, Dark
  <2>4. CASE Starting(c)
    <3>1. /\ conn /\ \A d \in Call : d # c => call[d] = "idle"
          /\ Len(inbox) = 0 /\ Len(replies') = 0 /\ AfterStart(c, replies[1].ok)
          /\ ~busy /\ ~live /\ (kind = "logs" => ~marked) /\ (replies[1].ok => slot # NoStream)
      BY <1>3, <2>0, <2>4, DeliverFacts, <1>0 DEF Starting, Dark
    <3>2. /\ live' = replies[1].ok /\ (kind = "logs" => marked' = replies[1].ok)
          /\ Suspend(c, "idle") /\ UNCHANGED <<conn, busy, inbox>>
      <4>1. replies[1].ok \in BOOLEAN
        <5>1. replies \in Seq(Reply) /\ Len(replies) = 1
          BY <1>0, <3>1 DEF CInv, StreamsTypeOK
        <5>2. replies[1] \in Reply
          BY <5>1
        <5> QED
          BY <5>2 DEF Reply
      <4> QED
        BY <3>1, <4>1 DEF AfterStart
    <3> QED
      BY <1>0, <2>1, <3>1, <3>2 DEF AtRest, Shown
  <2>5. CASE Reloading(c)
    <3>1. /\ conn /\ \A d \in Call : d # c => call[d] = "idle"
          /\ Len(inbox) = 0 /\ Len(replies') = 0 /\ AfterLoad(c) /\ call[c] = "reloading"
      BY <1>3, <2>0, <2>5, DeliverFacts, <1>0 DEF Reloading
    <3>2. /\ busy' = FALSE /\ Suspend(c, "idle") /\ UNCHANGED <<inbox, conn, live, marked>>
      BY <3>1 DEF AfterLoad
    <3> QED
      BY <1>0, <2>1, <2>5, <3>1, <3>2 DEF AtRest, Reloading, Shown
  <2>6. CASE Parting(c)
    <3>1. /\ conn /\ \A d \in Call : d # c => call[d] = "idle"
          /\ Len(inbox) = 0 /\ Len(replies') = 0 /\ AfterParting(c) /\ ~busy
          /\ kind = "logs" => ~live /\ slot = NoStream
      <4>1. InFlight("stop", c) \/ InFlight("other", c)
        BY <2>6 DEF Parting
      <4>2. Len(inbox) = 0 /\ Len(replies') = 0 /\ replies[1].call = c
        BY <1>3, <4>1
      <4> QED
        BY <2>0, <2>6, <4>2, DeliverFacts, <1>0 DEF Parting
    <3>2. /\ ~live' /\ marked' = FALSE /\ Suspend(c, "closing") /\ UNCHANGED <<conn, busy>>
      BY <3>1 DEF AfterParting
    <3>3. Alone(c, "closing")'
      BY <1>0, <3>1, <3>2, AloneIn
    <3>4. ClosingWire(c)'
      <4>1. CASE kind = "logs"
        <5>1. InFlight("other", c)'
          BY <1>0, <3>1, <4>1, AskAlone DEF AfterParting
        <5> QED
          BY <1>0, <3>1, <4>1, <5>1 DEF ClosingWire
      <4>2. CASE kind = "monitor"
        <5>1. PICK a \in Request, b \in Request :
                /\ a = [op |-> "stop", call |-> NoCall] /\ b = [op |-> "other", call |-> c]
                /\ inbox' = Append(Append(inbox, a), b)
          BY <1>0, <3>1, <4>2, TwoRequests DEF AfterParting
        <5>2. Len(inbox') = 2 /\ inbox'[1] = a /\ inbox'[2] = b
          BY <1>0, <3>1, <5>1
        <5> QED
          BY <1>0, <3>1, <4>2, <5>1, <5>2 DEF ClosingWire, TwoAsked
      <4> QED
        BY <1>0, <4>1, <4>2
    <3> QED
      BY <3>1, <3>2, <3>3, <3>4 DEF InCall, Closing, Dark
  <2>7. CASE Closing(c)
    <3>0. Alone(c, "closing") /\ ~busy /\ ~live /\ (kind = "logs" => ~marked)
      BY <2>7 DEF Closing, Dark
    <3>1. CASE slot = NoStream /\ InFlight("other", c)
      <4>1. /\ Len(inbox) = 0 /\ Len(replies') = 0 /\ AfterClosing(c)
            /\ \A d \in Call : d # c => call[d] = "idle"
        BY <1>3, <2>0, <3>0, <3>1, DeliverFacts, <1>0
      <4>2. Quiescent' /\ conn' = FALSE /\ ~live' /\ UNCHANGED <<marked, busy, inbox>>
        BY <2>1, <3>0, <4>1 DEF AfterClosing
      <4>3. live' \in BOOLEAN
        BY <4>1 DEF AfterClosing
      <4> QED
        BY <1>0, <3>0, <3>1, <4>1, <4>2, <4>3 DEF AtRest, Shown
    <3>2. ASSUME kind = "monitor", slot = NoStream, OneAnswered(c) \/ TwoAnswered(c)
          PROVE  InCall(c)'
      <4>1. marked' = FALSE /\ UNCHANGED <<conn, live, busy, call, inbox>>
        BY <3>2, DeliverFacts, <1>0 DEF OneAnswered, TwoAnswered
      <4>2. Alone(c, "closing")'
        BY <3>0, <4>1 DEF Alone
      <4>3. InFlight("other", c)'
        BY <1>0, <3>2, <4>1 DEF OneAnswered, TwoAnswered, InFlight, Asked, Answered
      <4> QED
        BY <1>0, <3>0, <3>2, <4>1, <4>2, <4>3 DEF InCall, Closing, ClosingWire, Dark
    <3>3. ~TwoAsked(c)
      BY <1>0 DEF TwoAsked
    <3> QED
      BY <2>7, <3>1, <3>2, <3>3 DEF Closing, ClosingWire
  <2> QED
    BY <1>5, <2>2, <2>3, <2>4, <2>5, <2>6, <2>7 DEF InCall
<1> QED
  BY <1>1, <1>2, <1>4, <1>5 DEF UInv, Undisturbed

LEMMA UInvInitially == StreamsInit => UInv
<1> SUFFICES ASSUME StreamsInit PROVE UInv
  OBVIOUS
<1>1. SInv /\ CInv
  BY StreamsInitEstablishes, CInvInitially
<1>2. AtRest
  BY DEF StreamsInit, AtRest, Quiescent, Shown
<1> QED
  BY <1>1, <1>2 DEF UInv, Undisturbed

LEMMA UInvIsInductive == UInv /\ [StreamsNext]_svars => UInv'
<1> SUFFICES ASSUME UInv, [StreamsNext]_svars PROVE UInv'
  OBVIOUS
<1>1. SInv' /\ CInv'
  BY StreamsStepPreserves, CInvIsInductive DEF UInv
<1>2. ASSUME NEW s \in Stream, EndOfOutput(s) \/ ClientExit(s) PROVE Undisturbed'
  BY <1>2, NewsKeepsU DEF EndOfOutput, ClientExit, panel, outside
<1>3. CASE DeliverNews
  <2>1. /\ UNCHANGED <<inbox, replies, call, conn, kind, slot, busy, overlapped>>
        /\ \/ UNCHANGED <<live, marked>>
           \/ kind = "logs" /\ live /\ live' = FALSE /\ marked' = FALSE
    BY <1>3 DEF DeliverNews, native, outside
  <2> QED
    BY <1>1, <2>1, NewsKeepsU DEF UInv
<1>4. CASE UNCHANGED svars
  <2>1. UNCHANGED <<inbox, replies, call, conn, kind, slot, busy, overlapped, live, marked>>
    BY <1>4 DEF svars, native, panel, outside
  <2> QED
    BY <1>1, <2>1, NewsKeepsU DEF UInv
<1> QED
  BY <1>1, <1>2, <1>3, <1>4, ServeRequestKeepsU, UserStepKeepsU, DeliverReplyKeepsU
     DEF UInv, StreamsNext, UserStep

LEMMA UInvHolds == StreamsSpec => []UInv
BY UInvInitially, UInvIsInductive, PTL DEF StreamsSpec

LEMMA SettledIsAtRest ==
  ASSUME UInv, StreamsSettled, ~overlapped
  PROVE  AtRest
<1>1. Quiescent /\ Len(inbox) = 0 /\ Len(replies) = 0
  BY DEF StreamsSettled
<1>2. ~LettingGo
  BY <1>1 DEF LettingGo, InFlight, Asked, Answered
<1>3. \A c \in Call : ~InCall(c)
  BY <1>1 DEF InCall, Stopping, Loading, Starting, Reloading, Parting, Closing, Alone, Quiescent
<1> QED
  BY <1>2, <1>3 DEF UInv, Undisturbed

\* As long as no call was overtaken, no stream outlives the connection once
\* everything has arrived (main.ts 769-786, 859-861, 1695-1732, 1978-2013).
THEOREM StreamsEndIfUndisturbed == StreamsSpec => []UndisturbedStreamsEnd
<1>1. ASSUME UInv, ~overlapped, StreamsSettled, ~conn, NEW s \in Stream
      PROVE  client[s] # "running"
  <2>1. slot = NoStream
    BY <1>1, SettledIsAtRest DEF AtRest
  <2> QED
    BY <2>1, <1>1 DEF UInv, SInv
<1>2. UInv => UndisturbedStreamsEnd
  BY <1>1 DEF UndisturbedStreamsEnd, StreamsEndWithConnection
<1> QED
  BY <1>2, UInvHolds, PTL

\* As long as no call was overtaken, a panel that shows a live stream has one
\* installed once everything has arrived (main.ts 1695-1732, 1978-2013).
THEOREM LivePanelHasStream == StreamsSpec => []LiveHasStream
<1>1. UInv => LiveHasStream
  BY SettledIsAtRest DEF LiveHasStream, AtRest, Shown
<1> QED
  BY <1>1, UInvHolds, PTL

\* As long as no call was overtaken, the log panel's button and its flag agree
\* once everything has arrived (main.ts 1011-1018, 1695-1732, 2570).
THEOREM ButtonAgreesWithFlag == StreamsSpec => []ButtonAgrees
<1>1. UInv => ButtonAgrees
  BY SettledIsAtRest DEF ButtonAgrees, AtRest, Shown
<1> QED
  BY <1>1, UInvHolds, PTL

=============================================================================
