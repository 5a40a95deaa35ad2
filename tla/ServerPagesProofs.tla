------------------------- MODULE ServerPagesProofs --------------------------
(***************************************************************************)
(* Proofs about the panels and the power button, for any number of         *)
(* sessions and steps: the invariant GInv, which module FileManagerProofs  *)
(* concludes from for the pages with the files page among them.            *)
(*                                                                         *)
(* Every call that awaits a native command is on the wire once (WireOK).   *)
(* One call at most starts a session, and sshBaslating says so (DialOK).   *)
(* Unless the user acted in between, one call at a time changes the        *)
(* connection, which nothing but its loss changes under it (Alone); so the *)
(* power button, set when such a call begins and when it ends, is right    *)
(* once none is left, and what the panels load is of the session that is   *)
(* open, unless the connection changed (PanelsOK).                         *)
(***************************************************************************)
EXTENDS ServerPages, SequenceTheorems, TLAPS

-----------------------------------------------------------------------------
(* Sequences without repetitions *)

InSeq(s, x) == \E i \in 1..Len(s) : s[i] = x
Precedes(s, x, y) == \E i, j \in 1..Len(s) : i < j /\ s[i] = x /\ s[j] = y
Distinct(s) == \A i, j \in 1..Len(s) : s[i] = s[j] => i = j

LEMMA EmptyIsDistinct == Distinct(<<>>) /\ (\A x : ~InSeq(<<>>, x))
BY DEF Distinct, InSeq

LEMMA TailDrops ==
  ASSUME NEW S, NEW s \in Seq(S), s # <<>>, Distinct(s)
  PROVE  /\ Tail(s) \in Seq(S) /\ Distinct(Tail(s)) /\ InSeq(s, Head(s))
         /\ \A x : InSeq(Tail(s), x) <=> InSeq(s, x) /\ x # Head(s)
         /\ \A x, y : Precedes(Tail(s), x, y) <=> Precedes(s, x, y) /\ x # Head(s)
         /\ \A x : InSeq(s, x) /\ x # Head(s) => Precedes(s, Head(s), x)
<1> DEFINE t == Tail(s)
<1>1. /\ t \in Seq(S) /\ Len(t) = Len(s) - 1 /\ Len(s) \in Nat /\ Len(s) > 0
      /\ \A i \in 1..Len(t) : t[i] = s[i + 1]
      /\ Head(s) = s[1]
  BY HeadTailProperties, EmptySeq, LenProperties
<1> HIDE DEF t
<1>2. \A i \in 1..Len(t) : i + 1 \in 1..Len(s) /\ t[i] = s[i + 1]
  BY <1>1
<1>3. \A i \in 1..Len(s) : i # 1 => i - 1 \in 1..Len(t) /\ t[i - 1] = s[i]
  <2> SUFFICES ASSUME NEW i \in 1..Len(s), i # 1 PROVE i - 1 \in 1..Len(t) /\ t[i - 1] = s[i]
    OBVIOUS
  <2>1. i - 1 \in 1..Len(t)
    BY <1>1
  <2>2. (i - 1) + 1 = i
    OBVIOUS
  <2> QED
    BY <1>1, <2>1, <2>2
<1>4. 1 \in 1..Len(s)
  BY <1>1
<1>5. Distinct(t)
  <2> SUFFICES ASSUME NEW i \in 1..Len(t), NEW j \in 1..Len(t), t[i] = t[j] PROVE i = j
    BY DEF Distinct
  <2>1. i + 1 = j + 1
    BY <1>2 DEF Distinct
  <2> QED
    BY <2>1
<1>6. ASSUME NEW x PROVE InSeq(t, x) <=> InSeq(s, x) /\ x # Head(s)
  <2>1. ASSUME NEW i \in 1..Len(t), t[i] = x PROVE InSeq(s, x) /\ x # Head(s)
    <3>1. i + 1 # 1
      OBVIOUS
    <3> QED
      BY <1>1, <1>2, <1>4, <2>1, <3>1 DEF InSeq, Distinct
  <2>2. ASSUME NEW i \in 1..Len(s), s[i] = x, x # Head(s) PROVE InSeq(t, x)
    BY <1>1, <1>3, <2>2 DEF InSeq
  <2> QED
    BY <2>1, <2>2 DEF InSeq
<1>7. ASSUME NEW x, NEW y
      PROVE  Precedes(t, x, y) <=> Precedes(s, x, y) /\ x # Head(s)
  <2>1. ASSUME NEW i \in 1..Len(t), NEW j \in 1..Len(t), i < j, t[i] = x, t[j] = y
        PROVE  Precedes(s, x, y) /\ x # Head(s)
    <3>1. i + 1 < j + 1 /\ i + 1 # 1
      BY <2>1
    <3> QED
      BY <1>1, <1>2, <1>4, <2>1, <3>1 DEF Precedes, Distinct
  <2>2. ASSUME NEW i \in 1..Len(s), NEW j \in 1..Len(s), i < j, s[i] = x, s[j] = y, x # Head(s)
        PROVE  Precedes(t, x, y)
    <3>1. i # 1 /\ j # 1 /\ i - 1 < j - 1
      BY <1>1, <2>2
    <3> QED
      BY <1>3, <2>2, <3>1 DEF Precedes
  <2> QED
    BY <2>1, <2>2 DEF Precedes
<1>8. ASSUME NEW x, InSeq(s, x), x # Head(s) PROVE Precedes(s, Head(s), x)
  <2>1. PICK i \in 1..Len(s) : s[i] = x
    BY <1>8 DEF InSeq
  <2>2. 1 < i
    BY <1>1, <1>8, <2>1
  <2> QED
    BY <1>1, <1>4, <2>1, <2>2 DEF Precedes
<1> QED
  BY <1>1, <1>4, <1>5, <1>6, <1>7, <1>8 DEF t, InSeq

LEMMA AppendAdds ==
  ASSUME NEW S, NEW s \in Seq(S), NEW x \in S, Distinct(s), ~InSeq(s, x)
  PROVE  /\ Append(s, x) \in Seq(S) /\ Distinct(Append(s, x))
         /\ \A y : InSeq(Append(s, x), y) <=> InSeq(s, y) \/ y = x
         /\ \A y, z : Precedes(Append(s, x), y, z)
                        <=> Precedes(s, y, z) \/ (InSeq(s, y) /\ z = x)
<1> DEFINE t == Append(s, x)
<1>1. /\ t \in Seq(S) /\ Len(t) = Len(s) + 1 /\ Len(s) \in Nat
      /\ \A i \in 1..Len(s) : t[i] = s[i]
      /\ t[Len(s) + 1] = x
  BY AppendProperties, LenProperties
<1> HIDE DEF t
<1>2. \A i \in 1..Len(t) : i \in 1..Len(s) \/ i = Len(s) + 1
  BY <1>1
<1>3. \A i \in 1..Len(s) : i \in 1..Len(t) /\ i < Len(s) + 1
  BY <1>1
<1>4. Len(s) + 1 \in 1..Len(t)
  BY <1>1
<1>5. Distinct(t)
  BY <1>1, <1>2 DEF Distinct, InSeq
<1>6. ASSUME NEW y PROVE InSeq(t, y) <=> InSeq(s, y) \/ y = x
  BY <1>1, <1>2, <1>3, <1>4 DEF InSeq
<1>7. ASSUME NEW y, NEW z
      PROVE  Precedes(t, y, z) <=> Precedes(s, y, z) \/ (InSeq(s, y) /\ z = x)
  <2>1. ASSUME NEW i \in 1..Len(t), NEW j \in 1..Len(t), i < j, t[i] = y, t[j] = z
        PROVE  Precedes(s, y, z) \/ (InSeq(s, y) /\ z = x)
    <3>1. i \in 1..Len(s)
      BY <1>1, <2>1
    <3> QED
      BY <1>1, <1>2, <2>1, <3>1 DEF Precedes, InSeq
  <2>2. Precedes(s, y, z) => Precedes(t, y, z)
    BY <1>1, <1>3 DEF Precedes
  <2>3. ASSUME NEW i \in 1..Len(s), s[i] = y, z = x PROVE Precedes(t, y, z)
    BY <1>1, <1>3, <1>4, <2>3 DEF Precedes
  <2> QED
    BY <2>1, <2>2, <2>3 DEF Precedes, InSeq
<1> QED
  BY <1>1, <1>5, <1>6, <1>7 DEF t

-----------------------------------------------------------------------------
(* The calls and the wire *)

Steps == {"idle", "dial", "part"} \cup Loading \cup Switching \cup Filing
Native == Steps \ (Outside \cup {"idle"})
Places == Place \cup {NoPlace}

CallsTyped == call \in [Call -> [step : Steps, from : 0..MaxSession, place : Places]]

\* Every call that awaits a native command is on the wire, once, and no other is.
WireOK ==
    /\ wire \in Seq(Call) /\ Distinct(wire)
    /\ \A c \in Call : InSeq(wire, c) <=> call[c].step \in Native

Before(c, d) == Precedes(wire, c, d)

\* What c waits for, if it does, is over.
Ready(c) ==
    \/ call[c].step \in Outside \cup {"idle"}
    \/ wire # <<>> /\ c = Head(wire)

\* c ends, or goes on in one of the given steps.
Moves(c, kinds) ==
    \/ Finished(c)
    \/ \E step \in kinds \cap Native, place \in Places : Await(c, step, place)
    \/ \E step \in kinds \cap Outside, place \in Places : AwaitOutside(c, step, place)

\* The next state's wire, as an argument.
LEMMA NextWire ==
  /\ Distinct(wire)' <=> Distinct(wire')
  /\ \A c : InSeq(wire, c)' <=> InSeq(wire', c)
  /\ \A c, d : Before(c, d)' <=> Precedes(wire', c, d)
BY DEF Distinct, InSeq, Precedes, Before

\* The call that goes on leaves the wire, which keeps its order.
LEMMA RestIs ==
  ASSUME WireOK, NEW c \in Call, Ready(c)
  PROVE  /\ Rest(c) \in Seq(Call) /\ Distinct(Rest(c)) /\ ~InSeq(Rest(c), c)
         /\ \A d \in Call \ {c} : InSeq(Rest(c), d) <=> InSeq(wire, d)
         /\ \A d, e \in Call \ {c} : Precedes(Rest(c), d, e) <=> Before(d, e)
<1>1. CASE wire # <<>> /\ c = Head(wire)
  <2>1. Rest(c) = Tail(wire)
    BY <1>1 DEF Rest
  <2>2. wire \in Seq(Call) /\ Distinct(wire)
    BY DEF WireOK
  <2>3. /\ Tail(wire) \in Seq(Call) /\ Distinct(Tail(wire))
        /\ \A x : InSeq(Tail(wire), x) <=> InSeq(wire, x) /\ x # Head(wire)
        /\ \A x, y : Precedes(Tail(wire), x, y) <=> Precedes(wire, x, y) /\ x # Head(wire)
    BY <1>1, <2>2, TailDrops
  <2> QED
    BY <1>1, <2>1, <2>3 DEF Before
<1>2. CASE ~(wire # <<>> /\ c = Head(wire))
  <2>1. Rest(c) = wire
    BY <1>2 DEF Rest
  <2>2. call[c].step \notin Native
    BY <1>2 DEF Ready, Native
  <2> QED
    BY <2>1, <2>2 DEF WireOK, Before
<1> QED
  BY <1>1, <1>2

LEMMA MoveIs ==
  ASSUME CallsTyped, WireOK, session' \in 0..MaxSession, NEW c \in Call, Ready(c),
         NEW kinds \in SUBSET Steps, Moves(c, kinds)
  PROVE  /\ CallsTyped' /\ WireOK'
         /\ call'[c] = Idle \/ (call'[c].step \in kinds /\ call'[c].from = session')
         /\ \A d \in Call \ {c} : call'[d] = call[d]
         /\ \A d, e \in Call \ {c} : Before(d, e)' <=> Before(d, e)
         /\ \A d \in Call \ {c} :
              call[d].step \in Native /\ call'[c].step \in Native => Before(d, c)'
<1> DEFINE r == Rest(c)
<1>1. /\ r \in Seq(Call) /\ Distinct(r) /\ ~InSeq(r, c)
      /\ \A d \in Call \ {c} : InSeq(r, d) <=> call[d].step \in Native
      /\ \A d, e \in Call \ {c} : Precedes(r, d, e) <=> Before(d, e)
  BY RestIs DEF WireOK
<1>2. ASSUME NEW step \in Steps, NEW place \in Places, Suspend(c, step, place)
      PROVE  /\ CallsTyped' /\ call'[c].step = step /\ call'[c].from = session'
             /\ call'[c].place = place
             /\ \A d \in Call \ {c} : call'[d] = call[d]
  BY <1>2 DEF CallsTyped, Suspend
<1>3. ASSUME Finished(c)
      PROVE  /\ CallsTyped' /\ call'[c] = Idle /\ \A d \in Call \ {c} : call'[d] = call[d]
  <2>1. Idle \in [step : Steps, from : 0..MaxSession, place : Places]
    BY PagesAssumption DEF Idle, Steps, Places
  <2> QED
    BY <1>3, <2>1 DEF CallsTyped, Finished
<1>4. ASSUME wire' = r, call'[c].step \notin Native, \A d \in Call \ {c} : call'[d] = call[d]
      PROVE  WireOK' /\ \A d, e \in Call \ {c} : Before(d, e)' <=> Before(d, e)
  <2>1. \A d \in Call : InSeq(r, d) <=> call'[d].step \in Native
    BY <1>1, <1>4
  <2> HIDE DEF r
  <2>2. WireOK'
    BY <1>1, <1>4, <2>1, NextWire DEF WireOK
  <2> QED
    BY <1>1, <1>4, <2>2, NextWire
<1>5. ASSUME wire' = Append(r, c), call'[c].step \in Native,
             \A d \in Call \ {c} : call'[d] = call[d]
      PROVE  /\ WireOK' /\ \A d, e \in Call \ {c} : Before(d, e)' <=> Before(d, e)
             /\ \A d \in Call \ {c} : call[d].step \in Native => Before(d, c)'
  <2> HIDE DEF r
  <2>1. /\ wire' \in Seq(Call) /\ Distinct(wire')
        /\ \A d : InSeq(wire', d) <=> InSeq(r, d) \/ d = c
        /\ \A d, e : Precedes(wire', d, e) <=> Precedes(r, d, e) \/ (InSeq(r, d) /\ e = c)
    BY <1>1, <1>5, AppendAdds
  <2>2. \A d \in Call : InSeq(wire', d) <=> call'[d].step \in Native
    BY <1>1, <1>5, <2>1
  <2>3. WireOK'
    BY <2>1, <2>2, NextWire DEF WireOK
  <2>4. \A d, e \in Call \ {c} : Before(d, e)' <=> Before(d, e)
    BY <1>1, <2>1, NextWire
  <2>5. \A d \in Call \ {c} : call[d].step \in Native => Before(d, c)'
    BY <1>1, <2>1, NextWire
  <2> QED
    BY <2>3, <2>4, <2>5
<1>6. CASE Finished(c)
  <2>1. wire' = r /\ call'[c].step \notin Native
    BY <1>3, <1>6 DEF Finished, Idle, Native
  <2> QED
    BY <1>3, <1>4, <1>6, <2>1
<1>7. ASSUME NEW step \in kinds \cap Native, NEW place \in Places, Await(c, step, place)
      PROVE  /\ CallsTyped' /\ WireOK'
             /\ call'[c].step \in kinds /\ call'[c].from = session'
             /\ \A d \in Call \ {c} : call'[d] = call[d]
             /\ \A d, e \in Call \ {c} : Before(d, e)' <=> Before(d, e)
             /\ \A d \in Call \ {c} : call[d].step \in Native => Before(d, c)'
  BY <1>2, <1>5, <1>7 DEF Await
<1>8. ASSUME NEW step \in kinds \cap Outside, NEW place \in Places, AwaitOutside(c, step, place)
      PROVE  /\ CallsTyped' /\ WireOK'
             /\ call'[c].step \in kinds \ Native /\ call'[c].from = session'
             /\ \A d \in Call \ {c} : call'[d] = call[d]
             /\ \A d, e \in Call \ {c} : Before(d, e)' <=> Before(d, e)
  <2>1. step \in Steps \ Native
    BY DEF Native
  <2> QED
    BY <1>2, <1>4, <1>8, <2>1 DEF AwaitOutside
<1> QED
  BY <1>3, <1>6, <1>7, <1>8 DEF Moves

\* The call whose answer comes first is before all others.
LEMMA HeadIsFirst ==
  ASSUME WireOK, wire # <<>>, NEW d \in Call, call[d].step \in Native, d # Head(wire)
  PROVE  Before(Head(wire), d)
BY TailDrops DEF WireOK, Before

\* Two calls that await native commands are answered in one order.
LEMMA OneOrder ==
  ASSUME WireOK, NEW c \in Call, NEW d \in Call, Before(c, d)
  PROVE  ~Before(d, c)
<1> SUFFICES ASSUME NEW i \in 1..Len(wire), NEW j \in 1..Len(wire), i < j,
                    wire[i] = c, wire[j] = d,
                    NEW k \in 1..Len(wire), NEW l \in 1..Len(wire), k < l,
                    wire[k] = d, wire[l] = c
             PROVE  FALSE
  BY DEF Before, Precedes
<1>1. i = l /\ j = k
  BY DEF WireOK, Distinct
<1> QED
  BY <1>1

-----------------------------------------------------------------------------
(* The invariant *)

Buttons == {"updates", "remote", "restart"}
Dialing == {"dial", "wakeDial"}
Changing == {"dial", "part"} \cup Switching
Rendering == {"dashboard", "inspect", "history", "remote"}

LinkTyped ==
    /\ conn \in {"offline", "connecting", "online", "error"}
    /\ ssh \in {"none", "starting", "authenticated"}
    /\ session \in 0..MaxSession /\ starting \in BOOLEAN

LookTyped ==
    /\ shown \in [Panel -> 0..MaxSession]
    /\ enabled \in [Buttons -> BOOLEAN]
    /\ power \in {"offline", "starting", "online", "stopping"}

\* sshBaslating says whether a session is being started, by one call at most.
DialOK ==
    /\ \A c, d \in Call : call[c].step \in Dialing /\ call[d].step \in Dialing => c = d
    /\ starting <=> Pending(Dialing)
    /\ starting => conn # "online" /\ session < MaxSession

\* Unless the user acted in between, one call changes the connection at a time, and
\* finds it as it was when the call began, or lost.
Alone ==
    ~crossed =>
        /\ \A c, d \in Call : call[c].step \in Changing /\ call[d].step \in Changing => c = d
        /\ starting => conn = "connecting"
        /\ ssh = "starting" => conn = "connecting" /\ ~Pending(Changing)
        /\ Pending({"waitOff"}) => conn = "offline" /\ ssh = "none"
        /\ Pending({"wake", "waitOn"}) => conn \in {"offline", "error"}
        /\ ~Pending({"wakePart"})

\* What the panels show, and what they are about to, is of the session that is open.
PanelsOK ==
    ~overtaken /\ ~crossed =>
        /\ \A p \in Live : shown[p] # Nothing => conn = "online" /\ shown[p] = session
        /\ \A c \in Call :
             call[c].step \in Rendering => conn = "online" /\ call[c].from = session

LinkInv == LinkTyped /\ LookTyped /\ DialOK /\ Alone /\ PanelsOK /\ PowerButtonIsRight
GInv == LinkInv /\ CallsTyped /\ WireOK

-----------------------------------------------------------------------------
(* What the functions of the page do *)

LEMMA ShowStatusIs ==
  ASSUME LookTyped, NEW status, ShowStatus(status)
  PROVE  /\ enabled' \in [Buttons -> BOOLEAN]
         /\ power' \in {"offline", "online"}
         /\ (power' = "online") = (status = "online")
         /\ enabled'["restart"] = (status = "online")
<1> DEFINE on == status = "online"
<1>1. enabled' = [b \in Buttons |-> on] /\ on \in BOOLEAN
  BY DEF ShowStatus, LookTyped
<1> HIDE DEF on
<1>2. enabled' \in [Buttons -> BOOLEAN] /\ enabled'["restart"] = on
  BY <1>1 DEF Buttons
<1>3. power' \in {"offline", "online"} /\ (power' = "online") = (status = "online")
  BY DEF ShowStatus
<1> QED
  BY <1>2, <1>3 DEF on

LEMMA ShowStatusAndPowerIs ==
  ASSUME LookTyped, NEW status, ShowStatusAndPower(status)
  PROVE  enabled' \in [Buttons -> BOOLEAN] /\ power' = "online" /\ enabled'["restart"] = TRUE
<1> DEFINE on == status = "online"
<1>1. enabled' = [b \in Buttons |-> b = "restart" \/ on] /\ on \in BOOLEAN /\ power' = "online"
  BY DEF ShowStatusAndPower, LookTyped
<1> HIDE DEF on
<1> QED
  BY <1>1 DEF Buttons

LEMMA SetPowerButtonIs ==
  ASSUME LookTyped, NEW mode, SetPowerButton(mode)
  PROVE  /\ enabled' \in [Buttons -> BOOLEAN]
         /\ power' = mode
         /\ enabled'["restart"] = (mode = "online")
<1> DEFINE on == mode = "online"
<1>1. enabled' = [enabled EXCEPT !["restart"] = on] /\ on \in BOOLEAN /\ power' = mode
  BY DEF SetPowerButton
<1> HIDE DEF on
<1>2. enabled' \in [Buttons -> BOOLEAN] /\ power' = mode /\ enabled'["restart"] = on
  BY <1>1 DEF Buttons, LookTyped
<1> QED
  BY <1>2 DEF on

LEMMA ClearIs ==
  ASSUME LookTyped, ClearLiveConnectionData
  PROVE  shown' \in [Panel -> 0..MaxSession] /\ \A p \in Live : shown'[p] = Nothing
BY PagesAssumption DEF LookTyped, ClearLiveConnectionData, Nothing, Live, Panel

\* What the invariant needs to know of the calls: one of them moved.
Moved(c, kinds) ==
    /\ call'[c].step \in kinds \cup {"idle"}
    /\ call'[c].step \in kinds => call'[c].from = session'
    /\ \A d \in Call \ {c} : call'[d] = call[d]

LEMMA MovesIsMoved ==
  ASSUME CallsTyped, WireOK, session' \in 0..MaxSession, NEW c \in Call, Ready(c),
         NEW kinds \in SUBSET (Steps \ {"idle"}), Moves(c, kinds)
  PROVE  CallsTyped' /\ WireOK' /\ Moved(c, kinds)
BY MoveIs DEF Moved, Idle

\* History: nothing is forgotten.
Later == Remember /\ (crossed => crossed')

LEMMA PanelsAreCleared ==
  ASSUME LinkInv, Later, ClearLiveConnectionData, conn' # "online",
         NEW c \in Call, NEW kinds, kinds \cap Rendering = {},
         Moved(c, kinds) \/ UNCHANGED call
  PROVE  PanelsOK'
<1>1. \A p \in Live : shown'[p] = Nothing
  BY ClearIs DEF LinkInv
<1>2. ASSUME ~overtaken', ~crossed', NEW d \in Call, call'[d].step \in Rendering PROVE FALSE
  <2>1. call'[d] = call[d]
    BY <1>2 DEF Moved, Rendering
  <2>2. ~overtaken /\ ~crossed /\ ~(Pending(Loading) /\ conn' # conn)
    BY <1>2 DEF Later, Remember
  <2>3. conn = "online"
    BY <1>2, <2>1, <2>2 DEF LinkInv, PanelsOK
  <2>4. Pending(Loading)
    BY <1>2, <2>1 DEF Pending, Rendering, Loading
  <2> QED
    BY <2>2, <2>3, <2>4
<1> QED
  BY <1>1, <1>2 DEF PanelsOK

\* A call that leaves the connection and the power button alone.
LEMMA QuietStep ==
  ASSUME LinkInv, Later, UNCHANGED <<link, power>>,
         NEW c \in Call, call[c].step \notin Changing,
         NEW kinds, kinds \cap Changing = {}, Moved(c, kinds),
         kinds \cap Rendering # {} => conn = "online",
         enabled' \in [Buttons -> BOOLEAN], enabled'["restart"] = enabled["restart"],
         \/ UNCHANGED shown
         \/ \E p \in Panel : /\ shown' = [shown EXCEPT ![p] = call[c].from]
                             /\ call[c].from \in 0..MaxSession
                             /\ p \in Live => call[c].step \in Rendering
  PROVE  LinkInv'
<1>1. UNCHANGED <<conn, ssh, session, starting>>
  BY DEF link
<1>2. LinkTyped' /\ LookTyped'
  BY <1>1 DEF LinkInv, LinkTyped, LookTyped, Panel
<1>3. \A d \in Call : call[d].step \in Changing \/ call'[d].step \in Changing => call'[d] = call[d]
  BY DEF Moved, Changing, Switching
<1>4. \A K \in SUBSET Changing : Pending(K)' <=> Pending(K)
  BY <1>3 DEF Pending
<1>5. DialOK'
  BY <1>1, <1>3, <1>4 DEF LinkInv, DialOK, Dialing, Changing, Switching
<1>6. Alone'
  BY <1>1, <1>3, <1>4 DEF LinkInv, Alone, Later, Changing, Switching
<1>7. PanelsOK'
  <2> SUFFICES ASSUME ~overtaken', ~crossed' PROVE PanelsOK'
    BY DEF PanelsOK
  <2>1. ~overtaken /\ ~crossed
    BY DEF Later, Remember
  <2>2. ASSUME NEW p \in Live, shown'[p] # Nothing PROVE conn' = "online" /\ shown'[p] = session'
    BY <1>1, <2>1, <2>2 DEF LinkInv, PanelsOK, LookTyped, Live, Panel
  <2>3. ASSUME NEW d \in Call, call'[d].step \in Rendering
        PROVE  conn' = "online" /\ call'[d].from = session'
    BY <1>1, <2>1, <2>3 DEF LinkInv, PanelsOK, Moved, Rendering
  <2> QED
    BY <2>2, <2>3 DEF PanelsOK
<1>8. PowerButtonIsRight'
  BY <1>1, <1>4 DEF LinkInv, PowerButtonIsRight, Later, Remember, Changing
<1> QED
  BY <1>2, <1>5, <1>6, <1>7, <1>8 DEF LinkInv

-----------------------------------------------------------------------------
(* The steps that change the connection or the power button *)

\* How a call goes on, in the words of Moves.
LEMMA WaysOn ==
  ASSUME NEW c
  PROVE  /\ \A kinds : Finished(c) => Moves(c, kinds)
         /\ RefreshDashboard(c) => Moves(c, {"dashboard"})
         /\ \A step \in Native : Await(c, step, NoPlace) => Moves(c, {step})
         /\ \A step \in Steps \cap Outside : AwaitOutside(c, step, NoPlace) => Moves(c, {step})
BY DEF Moves, RefreshDashboard, Native, Outside, Steps, Loading, Places

\* A session begins to be opened, by a call that is alone unless the user acted in
\* between.
LEMMA ConnectingBegins ==
  ASSUME LinkInv, Later, NEW c \in Call, call[c].step \in {"idle", "waitOn"},
         NEW step \in Dialing, Moved(c, {step}), call'[c].step = step,
         ~starting, session < MaxSession,
         starting' = TRUE, conn' = "connecting", ClearLiveConnectionData,
         ShowStatus("connecting"), UNCHANGED <<ssh, session>>,
         ~crossed' => /\ ssh # "starting"
                      /\ \A d \in Call \ {c} : call[d].step \notin Changing
  PROVE  LinkInv'
<1>1. LinkTyped' /\ LookTyped'
  BY ShowStatusIs, ClearIs DEF LinkInv, LinkTyped, LookTyped
<1>2. DialOK'
  BY DEF LinkInv, DialOK, Dialing, Pending, Moved
<1>3. Alone'
  BY DEF LinkInv, DialOK, Alone, Dialing, Pending, Moved, Changing, Switching
<1>4. PanelsOK'
  BY PanelsAreCleared DEF Dialing, Rendering
<1>5. PowerButtonIsRight'
  BY DEF PowerButtonIsRight
<1> QED
  BY <1>1, <1>2, <1>3, <1>4, <1>5 DEF LinkInv

\* start_ssh has failed.
LEMMA DialFailsIs ==
  ASSUME LinkInv, Later, NEW c \in Call, call[c].step \in Dialing, Moved(c, {}), DialFails,
         \/ call[c].step = "dial" /\ ShowStatus("error")
         \/ call[c].step = "wakeDial" /\ ShowStatusAndPower("error") /\ refused'
  PROVE  LinkInv'
<1>0. UNCHANGED <<ssh, session>> /\ starting' = FALSE /\ conn' = "error" /\ ClearLiveConnectionData
  BY DEF DialFails
<1>1. LinkTyped' /\ LookTyped'
  BY <1>0, ShowStatusIs, ShowStatusAndPowerIs, ClearIs DEF LinkInv, LinkTyped, LookTyped
<1>2. DialOK'
  BY <1>0 DEF LinkInv, DialOK, Dialing, Pending, Moved
<1>3. Alone'
  BY <1>0 DEF LinkInv, DialOK, Alone, Dialing, Pending, Moved, Changing, Switching, Later
<1>4. PanelsOK'
  BY <1>0, PanelsAreCleared DEF Dialing, Rendering
<1>5. PowerButtonIsRight'
  BY <1>0, ShowStatusIs DEF LinkInv, PowerButtonIsRight
<1> QED
  BY <1>1, <1>2, <1>3, <1>4, <1>5 DEF LinkInv

\* start_ssh has started a session, whose held events are replayed.
LEMMA DialedIs ==
  ASSUME LinkInv, Later, NEW c \in Call, call[c].step \in Dialing, Dialed,
         Moved(c, IF ssh' = "authenticated" THEN {"dashboard"} ELSE {}),
         \/ /\ call[c].step = "dial"
            /\ IF ssh' = "starting" THEN UNCHANGED <<power, enabled>> ELSE ShowStatus(conn')
         \/ /\ call[c].step = "wakeDial"
            /\ IF ssh' = "starting" THEN SetPowerButton("online") ELSE ShowStatusAndPower(conn')
            /\ conn' \in {"error", "offline"} => refused'
  PROVE  LinkInv'
<1>0. starting' = FALSE /\ session' = session + 1 /\ starting /\ session < MaxSession
  BY DEF Dialed, LinkInv, DialOK, Pending
<1>1. \/ ssh' = "starting" /\ UNCHANGED <<conn, shown>>
      \/ ssh' = "authenticated" /\ conn' = "online" /\ UNCHANGED shown
      \/ ssh' = "none" /\ conn' \in {"error", "offline"} /\ ClearLiveConnectionData
  BY DEF Dialed
<1>2. LinkTyped'
  <2>1. session' \in 0..MaxSession
    BY <1>0, PagesAssumption DEF LinkInv, LinkTyped
  <2> QED
    BY <1>0, <1>1, <2>1 DEF LinkInv, LinkTyped
<1>3. LookTyped'
  <2>1. shown' \in [Panel -> 0..MaxSession]
    BY <1>1, ClearIs DEF LinkInv, LookTyped
  <2>2. enabled' \in [Buttons -> BOOLEAN] /\ power' \in {"offline", "online", "starting", "stopping"}
    BY ShowStatusIs, ShowStatusAndPowerIs, SetPowerButtonIs DEF LinkInv, LookTyped
  <2> QED
    BY <2>1, <2>2 DEF LookTyped
<1>4. call'[c].step \in {"idle", "dashboard"} /\ (call'[c].step = "dashboard" => ssh' = "authenticated")
  BY DEF Moved
<1>5. \A d \in Call \ {c} : call'[d] = call[d]
  BY DEF Moved
<1>6. DialOK'
  BY <1>0, <1>4, <1>5 DEF LinkInv, DialOK, Dialing, Pending
<1>7. Alone'
  BY <1>0, <1>1, <1>4, <1>5 DEF LinkInv, DialOK, Alone, Dialing, Pending, Changing, Switching, Later
<1>8. PanelsOK'
  <2>1. CASE ssh' = "none"
    <3>1. conn' # "online" /\ ClearLiveConnectionData
      BY <1>1, <2>1
    <3> QED
      BY <2>1, <3>1, PanelsAreCleared DEF Rendering
  <2>2. CASE ssh' # "none"
    <3> SUFFICES ASSUME ~overtaken', ~crossed' PROVE PanelsOK'
      BY DEF PanelsOK
    <3>1. ~overtaken /\ ~crossed /\ conn # "online" /\ UNCHANGED shown
      BY <1>0, <1>1, <2>2 DEF Later, Remember, LinkInv, DialOK
    <3>2. \A p \in Live : shown'[p] = Nothing
      BY <3>1 DEF LinkInv, PanelsOK
    <3>3. \A d \in Call : call[d].step \notin Rendering
      BY <3>1 DEF LinkInv, PanelsOK
    <3>4. ASSUME NEW d \in Call, call'[d].step \in Rendering
          PROVE  conn' = "online" /\ call'[d].from = session'
      <4>1. d = c /\ call'[c].step = "dashboard"
        BY <1>4, <1>5, <3>3, <3>4 DEF Rendering
      <4>2. ssh' = "authenticated"
        BY <1>4, <4>1
      <4> QED
        BY <1>1, <4>1, <4>2 DEF Moved
    <3> QED
      BY <3>2, <3>4 DEF PanelsOK
  <2> QED
    BY <2>1, <2>2
<1>9. PowerButtonIsRight'
  <2> SUFFICES ASSUME ~Pending(Switching)', ~crossed', ~refused', conn' # "connecting"
               PROVE  /\ (power' = "online") = (conn' = "online")
                      /\ enabled'["restart"] = (conn' = "online")
    BY DEF PowerButtonIsRight
  <2>1. ssh' # "starting"
    BY <1>0, <1>1 DEF LinkInv, Alone, Later
  <2>2. CASE call[c].step = "dial"
    BY <2>1, <2>2, ShowStatusIs DEF LinkInv
  <2>3. CASE call[c].step = "wakeDial"
    <3>1. ShowStatusAndPower(conn') /\ conn' = "online"
      BY <1>1, <2>1, <2>3
    <3> QED
      BY <3>1, ShowStatusAndPowerIs DEF LinkInv
  <2> QED
    BY <2>2, <2>3 DEF Dialing
<1> QED
  BY <1>2, <1>3, <1>6, <1>7, <1>8, <1>9 DEF LinkInv

\* The connection is left (disconnectTerminal).
LEMMA DisconnectedIs ==
  ASSUME LinkInv, Later, NEW c \in Call, Disconnected,
         \/ call[c].step = "part" /\ Moved(c, {}) /\ ShowStatus("offline")
         \/ /\ call[c].step \in {"shut", "shutPart"} /\ Moved(c, {"waitOff"})
            /\ ShowStatus("offline")
         \/ call[c].step = "wakePart" /\ Moved(c, {}) /\ ShowStatusAndPower("offline")
  PROVE  LinkInv'
<1>0. /\ conn' = "offline" /\ ssh' = "none" /\ UNCHANGED <<session, starting>>
      /\ ClearLiveConnectionData
  BY DEF Disconnected
<1>1. LinkTyped' /\ LookTyped'
  BY <1>0, ShowStatusIs, ShowStatusAndPowerIs, ClearIs DEF LinkInv, LinkTyped, LookTyped
<1>2. /\ call'[c].step \in {"idle", "waitOff"}
      /\ \A d \in Call \ {c} : call'[d] = call[d]
      /\ call[c].step \in Changing \ Dialing
  BY DEF Moved, Changing, Switching, Dialing
<1>3. DialOK'
  BY <1>0, <1>2 DEF LinkInv, DialOK, Dialing, Pending
<1>4. Alone'
  BY <1>0, <1>2 DEF LinkInv, DialOK, Alone, Dialing, Pending, Changing, Switching, Later
<1>5. PanelsOK'
  BY <1>0, PanelsAreCleared DEF Rendering
<1>6. PowerButtonIsRight'
  <2>1. CASE call[c].step = "wakePart"
    <3>1. crossed
      BY <2>1 DEF LinkInv, Alone, Pending
    <3> QED
      BY <3>1 DEF PowerButtonIsRight, Later
  <2>2. CASE ShowStatus("offline")
    BY <1>0, <2>2, ShowStatusIs DEF LinkInv, PowerButtonIsRight
  <2> QED
    BY <2>1, <2>2
<1> QED
  BY <1>1, <1>3, <1>4, <1>5, <1>6 DEF LinkInv

\* The server has gone off.
LEMMA WaitOffIs ==
  ASSUME LinkInv, Later, NEW c \in Call, call[c].step = "waitOff", AfterWaitOff(c), Moved(c, {})
  PROVE  LinkInv'
<1>0. /\ conn' = "offline" /\ UNCHANGED <<ssh, session, starting, shown>> /\ ShowStatus("offline")
  BY DEF AfterWaitOff
<1>1. LinkTyped' /\ LookTyped'
  BY <1>0, ShowStatusIs DEF LinkInv, LinkTyped, LookTyped
<1>2. call'[c].step = "idle" /\ \A d \in Call \ {c} : call'[d] = call[d]
  BY DEF Moved
<1>3. DialOK'
  BY <1>0, <1>2 DEF LinkInv, DialOK, Dialing, Pending
<1>4. Alone'
  BY <1>0, <1>2 DEF LinkInv, DialOK, Alone, Dialing, Pending, Changing, Switching, Later
<1>5. PanelsOK'
  <2> SUFFICES ASSUME ~overtaken', ~crossed' PROVE PanelsOK'
    BY DEF PanelsOK
  <2>1. ~overtaken /\ ~crossed
    BY DEF Later, Remember
  <2>2. conn = "offline"
    BY <2>1 DEF LinkInv, Alone, Pending
  <2> QED
    BY <1>0, <1>2, <2>1, <2>2 DEF LinkInv, PanelsOK, Rendering
<1>6. PowerButtonIsRight'
  BY <1>0, ShowStatusIs DEF LinkInv, PowerButtonIsRight
<1> QED
  BY <1>1, <1>3, <1>4, <1>5, <1>6 DEF LinkInv

\* The connection stays as it is, and the power button is set, or waits on.
LEMMA SwitchStep ==
  ASSUME LinkInv, Later, UNCHANGED <<link, shown>>, NEW c \in Call,
         Moved(c, {"part", "shut", "shutPart", "wake", "waitOn", "wakePart"}),
         enabled' \in [Buttons -> BOOLEAN],
         power' \in {"offline", "starting", "online", "stopping"},
         \/ /\ call[c].step = "idle" /\ call'[c].step \in {"part", "shut", "wake"}
            /\ ~crossed' => ssh # "starting" /\ ~Pending(Changing)
            /\ call'[c].step = "part" => UNCHANGED look
            /\ call'[c].step = "wake" => conn \notin {"online", "connecting"}
         \/ call[c].step = "shut" /\ call'[c].step = "shutPart"
         \/ call[c].step = "shut" /\ call'[c].step = "idle" /\ refused'
         \/ call[c].step = "wake" /\ call'[c].step = "waitOn"
         \/ call[c].step = "waitOn" /\ call'[c].step = "wakePart" /\ conn = "online"
         \/ /\ call[c].step \in {"wake", "waitOn"} /\ call'[c].step = "idle"
            /\ (power' = "offline" /\ enabled'["restart"] = FALSE) \/ starting
  PROVE  LinkInv'
<1>0. UNCHANGED <<conn, ssh, session, starting>>
  BY DEF link
<1>1. LinkTyped' /\ LookTyped'
  BY <1>0 DEF LinkInv, LinkTyped, LookTyped
<1>2. \A d \in Call \ {c} : call'[d] = call[d]
  BY DEF Moved
<1>3. DialOK'
  BY <1>0, <1>2 DEF LinkInv, DialOK, Dialing, Pending
<1>4. Alone'
  <2> SUFFICES ASSUME ~crossed' PROVE Alone'
    BY DEF Alone
  <2>1. CASE call[c].step = "idle"
    BY <1>0, <1>2, <2>1
       DEF LinkInv, LinkTyped, DialOK, Alone, Dialing, Pending, Changing, Switching, Later
  <2>2. CASE call[c].step # "idle"
    BY <1>0, <1>2, <2>2 DEF LinkInv, Alone, Pending, Changing, Switching, Later
  <2> QED
    BY <2>1, <2>2
<1>5. PanelsOK'
  BY <1>0, <1>2 DEF LinkInv, PanelsOK, Rendering, Later, Remember
<1>6. PowerButtonIsRight'
  <2> SUFFICES ASSUME ~Pending(Switching)', ~crossed', ~refused', conn # "connecting"
               PROVE  /\ (power' = "online") = (conn = "online")
                      /\ enabled'["restart"] = (conn = "online")
    BY <1>0 DEF PowerButtonIsRight
  <2>1. ~crossed /\ ~refused
    BY DEF Later, Remember
  <2>2. call'[c].step \notin Switching
    BY DEF Pending
  <2>3. CASE call[c].step = "idle" /\ UNCHANGED look
    <3>1. ~Pending(Switching)
      BY <1>2, <2>3 DEF Pending, Switching
    <3> QED
      BY <1>0, <2>1, <2>3, <3>1 DEF LinkInv, PowerButtonIsRight, look
  <2>4. CASE call[c].step \in {"wake", "waitOn"} /\ ~starting
    <3>1. conn # "online"
      BY <2>1, <2>4 DEF LinkInv, Alone, Pending
    <3>2. power' = "offline" /\ enabled'["restart"] = FALSE
      BY <2>2, <2>4 DEF Switching
    <3> QED
      BY <3>1, <3>2
  <2>5. CASE call[c].step \in {"wake", "waitOn"} /\ starting
    <3>1. PICK d \in Call : call[d].step \in Dialing
      BY <2>5 DEF LinkInv, DialOK, Pending
    <3> QED
      BY <2>1, <2>5, <3>1 DEF LinkInv, Alone, Changing, Switching, Dialing
  <2> QED
    BY <2>2, <2>3, <2>4, <2>5 DEF Switching, LinkInv, LinkTyped
<1> QED
  BY <1>1, <1>3, <1>4, <1>5, <1>6 DEF LinkInv

\* The active session is authenticated ...
LEMMA AuthenticatedIs ==
  ASSUME LinkInv, Later, Authenticated, NEW c \in Call,
         UNCHANGED call \/ (call[c] = Idle /\ Moved(c, {"dashboard"}))
  PROVE  LinkInv'
<1>0. /\ ssh = "starting" /\ ~starting
      /\ ssh' = "authenticated" /\ conn' = "online" /\ ShowStatus("online")
      /\ UNCHANGED <<session, starting, shown>>
  BY DEF Authenticated
<1>1. LinkTyped' /\ LookTyped'
  BY <1>0, ShowStatusIs DEF LinkInv, LinkTyped, LookTyped
<1>2. /\ \A d \in Call \ {c} : call'[d] = call[d]
      /\ call'[c] # call[c] => /\ call[c].step = "idle"
                               /\ call'[c].step \in {"idle", "dashboard"}
                               /\ call'[c].step = "dashboard" => call'[c].from = session
  BY <1>0 DEF Moved, Idle
<1>3. \A d \in Call : call[d].step \in Changing \/ call'[d].step \in Changing => call'[d] = call[d]
  BY <1>2 DEF Changing, Switching
<1>4. DialOK'
  BY <1>0, <1>3 DEF LinkInv, DialOK, Dialing, Pending, Changing, Switching
<1>5. Alone'
  BY <1>0, <1>3 DEF LinkInv, Alone, Pending, Changing, Switching, Later
<1>6. PanelsOK'
  <2> SUFFICES ASSUME ~overtaken', ~crossed' PROVE PanelsOK'
    BY DEF PanelsOK
  <2>1. ~overtaken /\ ~crossed /\ ~Pending(Loading)
    BY <1>0 DEF Later, Remember
  <2>2. \A d \in Call : call[d].step \notin Rendering
    BY <2>1 DEF Pending, Rendering, Loading
  <2> QED
    BY <1>0, <1>2, <2>1, <2>2 DEF LinkInv, PanelsOK, Rendering
<1>7. PowerButtonIsRight'
  BY <1>0, ShowStatusIs DEF LinkInv, PowerButtonIsRight
<1> QED
  BY <1>1, <1>4, <1>5, <1>6, <1>7 DEF LinkInv

\* ... and it fails or is closed.
LEMMA LostIs ==
  ASSUME LinkInv, Later, Lost, NEW c \in Call
  PROVE  LinkInv'
<1>0. /\ ~starting /\ ssh' = "none" /\ ClearLiveConnectionData
      /\ conn' \in {"error", "offline"} /\ ShowStatus(conn')
      /\ UNCHANGED <<session, starting, call>>
      /\ ssh # "none"
  BY DEF Lost
<1>1. LinkTyped' /\ LookTyped'
  BY <1>0, ShowStatusIs, ClearIs DEF LinkInv, LinkTyped, LookTyped
<1>2. DialOK'
  BY <1>0 DEF LinkInv, DialOK, Dialing, Pending
<1>3. Alone'
  BY <1>0 DEF LinkInv, Alone, Pending, Later
<1>4. PanelsOK'
  <2>1. conn' # "online" /\ {} \cap Rendering = {} /\ ClearLiveConnectionData /\ UNCHANGED call
    BY <1>0
  <2> QED
    BY <2>1, PanelsAreCleared
<1>5. PowerButtonIsRight'
  BY <1>0, ShowStatusIs DEF LinkInv, PowerButtonIsRight
<1> QED
  BY <1>1, <1>2, <1>3, <1>4, <1>5 DEF LinkInv

-----------------------------------------------------------------------------
(* Every step of the pages *)

LEMMA SessionStays ==
  ASSUME GInv, UNCHANGED link
  PROVE  session' \in 0..MaxSession
BY DEF GInv, LinkInv, LinkTyped, link

LEMMA AwaitIs ==
  ASSUME CallsTyped, NEW c \in Call, NEW step, NEW place, Await(c, step, place) \/ AwaitOutside(c, step, place)
  PROVE  call'[c].step = step
BY DEF CallsTyped, Await, AwaitOutside, Suspend

\* The loads of the panels: they leave the connection and the power button alone.
LEMMA LoadStep ==
  ASSUME GInv, Later, UNCHANGED <<link, power>>,
         NEW c \in Call, Ready(c), call[c].step \in Loading \cup Filing \cup {"idle"},
         NEW kinds \in SUBSET (Loading \cup Filing), Moves(c, kinds),
         kinds \cap Rendering # {} => conn = "online",
         enabled' \in [Buttons -> BOOLEAN], enabled'["restart"] = enabled["restart"],
         \/ UNCHANGED shown
         \/ \E p \in Panel : /\ Show(p, c)
                             /\ p \in Live => call[c].step \in Rendering
  PROVE  GInv'
<1>1. call[c].step \notin Changing /\ kinds \cap Changing = {} /\ kinds \subseteq Steps \ {"idle"}
  BY DEF Changing, Switching, Loading, Filing, Steps
<1>2. CallsTyped' /\ WireOK' /\ Moved(c, kinds)
  BY <1>1, SessionStays, MovesIsMoved DEF GInv
<1>3. call[c].from \in 0..MaxSession
  BY DEF GInv, CallsTyped
<1>4. LinkInv'
  BY <1>1, <1>2, <1>3, QuietStep DEF GInv, Show
<1> QED
  BY <1>2, <1>4 DEF GInv

\* The page's answers: what a load does with what it gets.
LEMMA AnswerStep ==
  ASSUME GInv, Later, UNCHANGED link, NEW c \in Call, Ready(c), NEW ok \in BOOLEAN,
         \/ call[c].step = "dashboard" /\ AfterDashboard(c, ok)
         \/ call[c].step = "inspect" /\ AfterInspect(c, ok)
         \/ call[c].step = "history" /\ AfterHistory(c, ok)
         \/ call[c].step = "remote" /\ AfterRemoteAccess(c, ok)
         \/ call[c].step = "services" /\ AfterServices(c, ok)
         \/ call[c].step = "act" /\ AfterServiceAction(c, ok)
  PROVE  GInv'
<1>1. enabled' \in [Buttons -> BOOLEAN] /\ enabled'["restart"] = enabled["restart"] /\ UNCHANGED power
  <2>1. CASE UNCHANGED enabled
    BY <2>1 DEF AfterDashboard, AfterInspect, AfterHistory, AfterRemoteAccess, AfterServices,
       AfterServiceAction, look, GInv, LinkInv, LookTyped
  <2>2. CASE AfterInspect(c, ok)
    BY <2>2 DEF AfterInspect, GInv, LinkInv, LookTyped, Buttons
  <2>3. CASE AfterRemoteAccess(c, ok)
    <3> DEFINE on == conn = "online"
    <3>1. enabled' = [enabled EXCEPT !["remote"] = on] /\ on \in BOOLEAN /\ UNCHANGED power
      BY <2>3 DEF AfterRemoteAccess
    <3> HIDE DEF on
    <3> QED
      BY <3>1 DEF GInv, LinkInv, LookTyped, Buttons
  <2> QED
    BY <2>1, <2>2, <2>3 DEF AfterDashboard, AfterHistory, AfterServices, AfterServiceAction, look
<1>2. Moves(c, {"services"})
  BY WaysOn DEF AfterDashboard, AfterInspect, AfterHistory, AfterRemoteAccess, AfterServices,
     AfterServiceAction, Native, Steps, Loading, Outside
<1>3. \/ UNCHANGED shown
      \/ \E p \in Panel : Show(p, c) /\ (p \in Live => call[c].step \in Rendering)
  BY DEF AfterDashboard, AfterInspect, AfterHistory, AfterRemoteAccess, AfterServices,
     AfterServiceAction, look, Panel, Live, Rendering
<1>4. /\ call[c].step \in Loading /\ {"services"} \in SUBSET (Loading \cup Filing)
      /\ {"services"} \cap Rendering = {}
  BY DEF Loading, Rendering
<1> QED
  BY <1>1, <1>2, <1>3, <1>4, LoadStep

\* A click in the panels asks for what they show, online.
LEMMA UsePanelsStep ==
  ASSUME GInv, Later, NEW c \in Call, call[c] = Idle, UsePanels(c)
  PROVE  GInv'
<1>0. UNCHANGED link /\ call[c].step = "idle" /\ Ready(c)
  BY DEF UsePanels, Idle, Ready
<1>1. ASSUME NEW step \in Loading, Moves(c, {step}), step \in Rendering => conn = "online",
             enabled' \in [Buttons -> BOOLEAN], enabled'["restart"] = enabled["restart"],
             UNCHANGED <<power, shown>>
      PROVE  GInv'
  BY <1>0, <1>1, LoadStep
<1>2. CASE conn = "online" /\ RefreshDashboard(c) /\ UNCHANGED look
  BY <1>1, <1>2, WaysOn DEF Loading, look, GInv, LinkInv, LookTyped
<1>3. CASE conn = "online" /\ InspectUpdates(c)
  <2>1. "inspect" \in Native \cap Loading
    BY DEF Native, Steps, Loading, Outside
  <2> QED
    BY <1>1, <1>3, <2>1, WaysOn DEF InspectUpdates, GInv, LinkInv, LookTyped, Buttons
<1>4. CASE conn = "online" /\ LoadRemoteAccess(c)
  <2>1. "remote" \in Native \cap Loading
    BY DEF Native, Steps, Loading, Outside
  <2> QED
    BY <1>1, <1>4, <2>1, WaysOn DEF LoadRemoteAccess, GInv, LinkInv, LookTyped, Buttons
<1>5. CASE \/ conn = "online" /\ (LoadUpdateHistory(c) \/ LoadServices(c))
           \/ RunServiceAction(c)
  <2>1. {"history", "services", "act"} \subseteq Native \cap Loading
        /\ "act" \notin Rendering
    BY DEF Native, Steps, Loading, Outside, Rendering
  <2> QED
    BY <1>1, <1>5, <2>1, WaysOn
       DEF LoadUpdateHistory, LoadServices, RunServiceAction, look, GInv, LinkInv, LookTyped
<1> QED
  BY <1>2, <1>3, <1>4, <1>5 DEF UsePanels

\* A call that changes the connection or the power button moves like any other.
LEMMA ChangeMoves ==
  ASSUME GInv, NEW c \in Call, Ready(c), session' \in 0..MaxSession,
         NEW kinds \in SUBSET (Steps \ {"idle"}), Moves(c, kinds), LinkInv'
  PROVE  GInv'
BY MovesIsMoved DEF GInv

LEMMA DialStep ==
  ASSUME GInv, Later, NEW c \in Call, Ready(c),
         \/ call[c].step = "dial" /\ AfterDial(c)
         \/ call[c].step = "wakeDial" /\ AfterWakeDial(c)
  PROVE  GInv'
<1>1. CASE DialFails
  <2>1. CASE \/ call[c].step = "dial" /\ ShowStatus("error") /\ Finished(c)
             \/ call[c].step = "wakeDial" /\ ShowStatusAndPower("error") /\ Finished(c)
    <3>1. Moves(c, {}) /\ session' \in 0..MaxSession
      BY <1>1, <2>1, WaysOn DEF DialFails, GInv, LinkInv, LinkTyped
    <3>2. CallsTyped' /\ WireOK' /\ Moved(c, {})
      BY <3>1, MovesIsMoved DEF GInv
    <3>3. call[c].step = "wakeDial" => refused'
      BY <1>1 DEF DialFails, Later, Remember, Refusal
    <3>4. LinkInv'
      BY <1>1, <2>1, <3>2, <3>3, DialFailsIs DEF GInv, Dialing
    <3> QED
      BY <3>2, <3>4 DEF GInv
  <2>2. ~Dialed
    BY <1>1 DEF DialFails, Dialed, GInv, LinkInv, LinkTyped
  <2> QED
    BY <2>1, <2>2 DEF AfterDial, AfterWakeDial
<1>2. CASE Dialed
  <2> DEFINE kinds == IF ssh' = "authenticated" THEN {"dashboard"} ELSE {}
  <2>0. ~DialFails
    BY <1>2 DEF DialFails, Dialed, GInv, LinkInv, LinkTyped
  <2>1. Moves(c, kinds)
    BY <2>0, WaysOn DEF AfterDial, AfterWakeDial
  <2>2. session' \in 0..MaxSession
    BY <1>2, PagesAssumption DEF Dialed, GInv, LinkInv, LinkTyped, DialOK, Pending, Dialing
  <2>3. kinds \in SUBSET (Steps \ {"idle"})
    BY DEF Steps, Loading
  <2>4. CallsTyped' /\ WireOK' /\ Moved(c, kinds)
    BY <2>1, <2>2, <2>3, MovesIsMoved DEF GInv
  <2>5. call[c].step = "wakeDial" /\ conn' \in {"error", "offline"} => refused'
    BY DEF Later, Remember, Refusal
  <2>6. LinkInv'
    BY <1>2, <2>0, <2>4, <2>5, DialedIs DEF GInv, Dialing, AfterDial, AfterWakeDial
  <2> QED
    BY <2>4, <2>6 DEF GInv
<1> QED
  BY <1>1, <1>2 DEF AfterDial, AfterWakeDial

LEMMA PartStep ==
  ASSUME GInv, Later, NEW c \in Call, Ready(c),
         \/ call[c].step = "part" /\ AfterPart(c)
         \/ call[c].step = "shutPart" /\ AfterShutPart(c)
         \/ call[c].step = "wakePart" /\ AfterWakePart(c)
  PROVE  GInv'
<1>1. Disconnected /\ session' \in 0..MaxSession
  BY DEF AfterPart, AfterShutPart, AfterWakePart, Disconnected, GInv, LinkInv, LinkTyped
<1>2. CASE /\ Finished(c)
           /\ \/ call[c].step = "part" /\ ShowStatus("offline")
              \/ call[c].step = "wakePart" /\ ShowStatusAndPower("offline")
  <2>1. CallsTyped' /\ WireOK' /\ Moved(c, {})
    BY <1>1, <1>2, WaysOn, MovesIsMoved DEF GInv
  <2> QED
    BY <1>1, <1>2, <2>1, DisconnectedIs DEF GInv
<1>3. CASE call[c].step = "shutPart" /\ AfterShutPart(c)
  <2>1. "waitOff" \in Steps \cap Outside /\ {"waitOff"} \in SUBSET (Steps \ {"idle"})
    BY DEF Steps, Switching, Outside
  <2>2. CallsTyped' /\ WireOK' /\ Moved(c, {"waitOff"})
    BY <1>1, <1>3, <2>1, WaysOn, MovesIsMoved DEF GInv, AfterShutPart
  <2> QED
    BY <1>1, <1>3, <2>2, DisconnectedIs DEF GInv, AfterShutPart
<1> QED
  BY <1>2, <1>3 DEF AfterPart, AfterWakePart

\* The steps of the power button that wait on or end, without the connection.
LEMMA PowerStep ==
  ASSUME GInv, Later, UNCHANGED <<link, shown>>, NEW c \in Call, Ready(c),
         NEW kinds \in SUBSET {"part", "shut", "shutPart", "wake", "waitOn", "wakePart"},
         Moves(c, kinds),
         UNCHANGED look \/ \E mode \in {"offline", "starting", "online", "stopping"} :
                             SetPowerButton(mode),
         \/ /\ call[c].step = "idle" /\ call'[c].step \in {"part", "shut", "wake"}
            /\ ~crossed' => ssh # "starting" /\ ~Pending(Changing)
            /\ call'[c].step = "part" => UNCHANGED look
            /\ call'[c].step = "wake" => conn \notin {"online", "connecting"}
         \/ call[c].step = "shut" /\ call'[c].step = "shutPart"
         \/ call[c].step = "shut" /\ call'[c].step = "idle" /\ refused'
         \/ call[c].step = "wake" /\ call'[c].step = "waitOn"
         \/ call[c].step = "waitOn" /\ call'[c].step = "wakePart" /\ conn = "online"
         \/ /\ call[c].step \in {"wake", "waitOn"} /\ call'[c].step = "idle"
            /\ SetPowerButton("offline") \/ starting
  PROVE  GInv'
<1>1. kinds \in SUBSET (Steps \ {"idle"})
  BY DEF Steps, Switching
<1>2. CallsTyped' /\ WireOK' /\ Moved(c, kinds)
  BY <1>1, SessionStays, MovesIsMoved DEF GInv, link
<1>3. Moved(c, {"part", "shut", "shutPart", "wake", "waitOn", "wakePart"})
  BY <1>2 DEF Moved
<1>4. /\ enabled' \in [Buttons -> BOOLEAN]
      /\ power' \in {"offline", "starting", "online", "stopping"}
  BY SetPowerButtonIs DEF GInv, LinkInv, LookTyped, look
<1>5. ASSUME SetPowerButton("offline") PROVE power' = "offline" /\ enabled'["restart"] = FALSE
  <2>1. power' = "offline" /\ enabled'["restart"] = ("offline" = "online")
    BY <1>5, SetPowerButtonIs DEF GInv, LinkInv
  <2> QED
    BY <2>1
<1>6. LinkInv'
  BY <1>3, <1>4, <1>5, SwitchStep DEF GInv
<1> QED
  BY <1>2, <1>6 DEF GInv

\* remotePower has ended: the connection is left next, if it went well.
LEMMA ShutStep ==
  ASSUME GInv, Later, NEW c \in Call, Ready(c), NEW ok \in BOOLEAN,
         call[c].step = "shut", AfterShut(c, ok)
  PROVE  GInv'
<1>1. CASE ~ok
  <2>1. /\ SetPowerButton("online") /\ UNCHANGED <<link, shown>> /\ Finished(c)
        /\ Moves(c, {})
    BY <1>1, WaysOn DEF AfterShut
  <2>2. call'[c] = Idle
    BY <2>1 DEF Finished, GInv, CallsTyped
  <2>3. Refusal /\ call'[c].step = "idle"
    <3>1. Refusal
      BY <2>2 DEF Refusal
    <3> QED
      BY <2>2, <3>1 DEF Idle
  <2>4. refused'
    BY <2>3 DEF Later, Remember
  <2> QED
    BY <2>1, <2>3, <2>4, PowerStep
<1>2. CASE UNCHANGED <<link, look>> /\ Await(c, "shutPart", NoPlace)
  <2>1. "shutPart" \in Native
    BY DEF Native, Steps, Switching, Outside
  <2>2. Moves(c, {"shutPart"}) /\ call'[c].step = "shutPart" /\ UNCHANGED shown
    BY <1>2, <2>1, WaysOn, AwaitIs DEF look, GInv
  <2> QED
    BY <1>2, <2>2, PowerStep
<1>3. CASE Disconnected /\ ShowStatus("offline") /\ AwaitOutside(c, "waitOff", NoPlace)
  <2>0. "waitOff" \in Steps \cap Outside /\ {"waitOff"} \in SUBSET (Steps \ {"idle"})
    BY DEF Steps, Switching, Outside
  <2>1. session' \in 0..MaxSession
    BY <1>3 DEF Disconnected, GInv, LinkInv, LinkTyped
  <2>2. CallsTyped' /\ WireOK' /\ Moved(c, {"waitOff"})
    BY <1>3, <2>0, <2>1, WaysOn, MovesIsMoved DEF GInv
  <2> QED
    BY <1>3, <2>2, DisconnectedIs DEF GInv
<1> QED
  BY <1>1, <1>2, <1>3 DEF AfterShut, Depart

LEMMA WaitOffStep ==
  ASSUME GInv, Later, NEW c \in Call, Ready(c), call[c].step = "waitOff", AfterWaitOff(c)
  PROVE  GInv'
<1>1. Finished(c) /\ session' \in 0..MaxSession
  BY DEF AfterWaitOff, GInv, LinkInv, LinkTyped
<1>2. CallsTyped' /\ WireOK' /\ Moved(c, {})
  BY <1>1, WaysOn, MovesIsMoved DEF GInv
<1> QED
  BY <1>2, WaitOffIs DEF GInv

LEMMA WakeStep ==
  ASSUME GInv, Later, NEW c \in Call, Ready(c), NEW ok \in BOOLEAN,
         call[c].step = "wake", AfterWake(c, ok)
  PROVE  GInv'
<1>1. CASE ok
  <2>1. "waitOn" \in Steps \cap Outside
    BY DEF Steps, Switching, Outside
  <2>2. AwaitOutside(c, "waitOn", NoPlace) /\ UNCHANGED <<link, look, shown>>
    BY <1>1 DEF AfterWake, look
  <2>3. Moves(c, {"waitOn"}) /\ call'[c].step = "waitOn"
    BY <2>1, <2>2, WaysOn, AwaitIs DEF GInv
  <2> QED
    BY <2>2, <2>3, PowerStep
<1>2. CASE ~ok
  <2>1. SetPowerButton("offline") /\ Finished(c) /\ UNCHANGED <<link, shown>>
    BY <1>2 DEF AfterWake
  <2>2. Moves(c, {}) /\ call'[c].step = "idle"
    BY <2>1, WaysOn DEF Finished, Idle, GInv, CallsTyped
  <2> QED
    BY <2>1, <2>2, PowerStep
<1> QED
  BY <1>1, <1>2

\* The beginning of a connection, by a click or by the power button.
LEMMA BeginStep ==
  ASSUME GInv, Later, NEW c \in Call, Ready(c), call[c].step \in {"idle", "waitOn"},
         NEW step \in Dialing, BeginConnecting(c, step), ~starting, session < MaxSession,
         ~crossed' => /\ ssh # "starting"
                      /\ \A d \in Call \ {c} : call[d].step \notin Changing
  PROVE  GInv'
<1>1. /\ starting' = TRUE /\ conn' = "connecting" /\ ClearLiveConnectionData
      /\ ShowStatus("connecting") /\ UNCHANGED <<ssh, session>> /\ Await(c, step, NoPlace)
  BY DEF BeginConnecting
<1>2. step \in Native /\ {step} \in SUBSET (Steps \ {"idle"})
  BY DEF Dialing, Native, Steps, Switching, Outside
<1>3. session' \in 0..MaxSession
  BY <1>1 DEF GInv, LinkInv, LinkTyped
<1>4. CallsTyped' /\ WireOK' /\ Moved(c, {step}) /\ call'[c].step = step
  BY <1>1, <1>2, <1>3, WaysOn, MovesIsMoved, AwaitIs DEF GInv
<1>5. LinkInv'
  BY <1>1, <1>4, ConnectingBegins DEF GInv
<1> QED
  BY <1>4, <1>5 DEF GInv

LEMMA WaitOnStep ==
  ASSUME GInv, Later, NEW c \in Call, Ready(c), NEW up \in BOOLEAN,
         call[c].step = "waitOn", AfterWaitOn(c, up)
  PROVE  GInv'
<1>1. CASE /\ Finished(c) /\ UNCHANGED <<link, shown>>
           /\ SetPowerButton("offline") \/ (SetPowerButton("online") /\ starting)
  <2>1. Moves(c, {}) /\ call'[c].step = "idle"
    BY <1>1, WaysOn DEF Finished, Idle, GInv, CallsTyped
  <2> QED
    BY <1>1, <2>1, PowerStep
<1>2. CASE conn = "online" /\ UNCHANGED <<link, look>> /\ Await(c, "wakePart", NoPlace)
  <2>1. "wakePart" \in Native
    BY DEF Native, Steps, Switching, Outside
  <2>2. Moves(c, {"wakePart"}) /\ call'[c].step = "wakePart" /\ UNCHANGED shown
    BY <1>2, <2>1, WaysOn, AwaitIs DEF look, GInv
  <2> QED
    BY <1>2, <2>2, PowerStep
<1>3. CASE ~starting /\ session < MaxSession /\ BeginConnecting(c, "wakeDial")
  <2>1. ASSUME ~crossed'
        PROVE  ssh # "starting" /\ \A d \in Call \ {c} : call[d].step \notin Changing
    BY <2>1 DEF Later, GInv, LinkInv, Alone, Changing, Switching, Pending
  <2> QED
    BY <1>3, <2>1, BeginStep DEF Dialing
<1> QED
  BY <1>1, <1>2, <1>3 DEF AfterWaitOn

LEMMA DeliverStep == ASSUME GInv, Deliver PROVE GInv'
<1> SUFFICES ASSUME NEW c \in Call, NEW ok \in BOOLEAN, wire # <<>>, c = Head(wire),
                    Resume(c, ok), Later
             PROVE  GInv'
  BY DEF Deliver, Later
<1>1. Ready(c)
  BY DEF Ready
<1> QED
  BY <1>1, DialStep, PartStep, WakeStep, AnswerStep DEF Resume

LEMMA ElsewhereStep == ASSUME GInv, Elsewhere PROVE GInv'
<1> SUFFICES ASSUME NEW c \in Call, NEW ok \in BOOLEAN, ResumeOutside(c, ok), Later
             PROVE  GInv'
  BY DEF Elsewhere, Later
<1>1. Ready(c)
  BY DEF Ready, ResumeOutside, Outside
<1> QED
  BY <1>1, AnswerStep, ShutStep, WaitOffStep, WaitOnStep DEF ResumeOutside

LEMMA ConnectionStep == ASSUME GInv, Authentication \/ Loss PROVE GInv'
<1>0. Later /\ (Authenticated \/ Lost)
  BY DEF Authentication, Loss, Later, Step
<1>1. session' \in 0..MaxSession /\ 1 \in Call
  BY <1>0 DEF Authenticated, Lost, GInv, LinkInv, LinkTyped, Call
<1>2. CASE UNCHANGED <<call, wire>>
  <2>1. LinkInv'
    BY <1>0, <1>1, <1>2, AuthenticatedIs, LostIs DEF GInv
  <2> QED
    BY <1>2, <2>1, NextWire DEF GInv, CallsTyped, WireOK
<1>3. ASSUME NEW c \in Call, call[c] = Idle, RefreshDashboard(c), Authenticated PROVE GInv'
  <2>1. Ready(c) /\ {"dashboard"} \in SUBSET (Steps \ {"idle"})
    BY <1>3 DEF Ready, Idle, Steps, Loading
  <2>2. CallsTyped' /\ WireOK' /\ Moved(c, {"dashboard"})
    BY <1>1, <1>3, <2>1, WaysOn, MovesIsMoved DEF GInv
  <2> QED
    BY <1>0, <1>3, <2>2, AuthenticatedIs DEF GInv
<1> QED
  BY <1>0, <1>2, <1>3 DEF Authenticated, Lost

LEMMA ClickStep == ASSUME GInv, Click PROVE GInv'
<1> SUFFICES ASSUME NEW c \in Call, call[c] = Idle, Later,
                    crossed' = (crossed \/ conn = "connecting" \/ Pending(Switching \cup {"part"})),
                    ConnectClick(c) \/ UsePanels(c) \/ ToggleServerPower(c)
             PROVE  GInv'
  BY DEF Click, Later, Step
<1>0. call[c].step = "idle" /\ Ready(c)
  BY DEF Idle, Ready
\* A click that crosses nothing finds no call that changes the connection.
<1>1. ~crossed' => ssh # "starting" /\ ~Pending(Changing) /\ conn # "connecting"
  BY DEF GInv, LinkInv, DialOK, Alone, Pending, Changing, Switching, Dialing
<1>2. ~crossed' => \A d \in Call \ {c} : call[d].step \notin Changing
  BY <1>1 DEF Pending
<1>3. CASE ConnectClick(c)
  <2>1. CASE conn = "online"
    <3>1. UNCHANGED <<link, look, shown>> /\ Await(c, "part", NoPlace)
      BY <1>3, <2>1 DEF ConnectClick, look
    <3>2. "part" \in Native
      BY DEF Native, Steps, Switching, Outside
    <3>3. Moves(c, {"part"}) /\ call'[c].step = "part"
      BY <3>1, <3>2, WaysOn, AwaitIs DEF GInv
    <3> QED
      BY <1>0, <1>1, <3>1, <3>3, PowerStep
  <2>2. CASE conn # "online"
    BY <1>0, <1>1, <1>2, <1>3, <2>2, BeginStep DEF ConnectClick, Dialing
  <2> QED
    BY <2>1, <2>2
<1>4. CASE ToggleServerPower(c)
  <2>1. CASE conn = "online"
    <3>1. UNCHANGED <<link, shown>> /\ SetPowerButton("stopping") /\ AwaitOutside(c, "shut", NoPlace)
      BY <1>4, <2>1 DEF ToggleServerPower
    <3>2. "shut" \in Steps \cap Outside
      BY DEF Steps, Switching, Outside
    <3>3. Moves(c, {"shut"}) /\ call'[c].step = "shut"
      BY <3>1, <3>2, WaysOn, AwaitIs DEF GInv
    <3> QED
      BY <1>0, <1>1, <3>1, <3>3, PowerStep
  <2>2. CASE conn # "online"
    <3>1. /\ UNCHANGED <<link, shown>> /\ SetPowerButton("starting")
          /\ Await(c, "wake", NoPlace) /\ conn # "connecting"
      BY <1>4, <2>2 DEF ToggleServerPower
    <3>2. "wake" \in Native
      BY DEF Native, Steps, Switching, Outside
    <3>3. Moves(c, {"wake"}) /\ call'[c].step = "wake"
      BY <3>1, <3>2, WaysOn, AwaitIs DEF GInv
    <3> QED
      BY <1>0, <1>1, <2>2, <3>1, <3>3, PowerStep
  <2> QED
    BY <2>1, <2>2
<1> QED
  BY <1>3, <1>4, UsePanelsStep

LEMMA GInvInitially == PagesInit => GInv
<1> SUFFICES ASSUME PagesInit PROVE GInv
  OBVIOUS
<1>1. conn = "offline" /\ ssh = "none" /\ session = 0 /\ starting = FALSE /\ power = "offline"
  BY DEF PagesInit
<1>2. call = [c \in Call |-> Idle] /\ wire = <<>>
  BY DEF PagesInit
<1>3. \A c \in Call : call[c].step = "idle"
  BY <1>2 DEF Idle
<1>4. /\ shown \in [Panel -> 0..MaxSession] /\ \A p \in Panel : shown[p] = Nothing
      /\ enabled \in [Buttons -> BOOLEAN] /\ enabled["restart"] = FALSE
  BY PagesAssumption DEF PagesInit, Nothing, Buttons
<1>5. LinkTyped /\ LookTyped
  <2>1. LinkTyped
    <3>1. session \in 0..MaxSession
      BY <1>1, PagesAssumption
    <3>2. starting \in BOOLEAN
      BY <1>1
    <3> QED
      BY <1>1, <3>1, <3>2 DEF LinkTyped
  <2>2. LookTyped
    BY <1>1, <1>4 DEF LookTyped
  <2> QED
    BY <2>1, <2>2
<1>6. DialOK /\ Alone
  BY <1>1, <1>3 DEF DialOK, Alone, Pending, Dialing, Changing, Switching
<1>7. PanelsOK
  BY <1>3, <1>4 DEF PanelsOK, Rendering, Live, Panel
<1>8. PowerButtonIsRight
  BY <1>1, <1>4 DEF PowerButtonIsRight
<1>9. CallsTyped
  BY <1>2, PagesAssumption DEF CallsTyped, Idle, Steps, Places
<1>10. WireOK
  BY <1>2, <1>3, EmptyIsDistinct DEF WireOK, Native
<1> QED
  BY <1>5, <1>6, <1>7, <1>8, <1>9, <1>10 DEF GInv, LinkInv

LEMMA GInvIsInductive == GInv /\ [PagesNext]_gvars => GInv'
<1> SUFFICES ASSUME GInv, [PagesNext]_gvars PROVE GInv'
  OBVIOUS
<1>1. CASE UNCHANGED gvars
  BY <1>1, NextWire DEF gvars, link, look, past, GInv, LinkInv, LinkTyped, LookTyped, DialOK,
     Alone, PanelsOK, PowerButtonIsRight, Pending, CallsTyped, WireOK
<1> QED
  BY <1>1, DeliverStep, ElsewhereStep, ConnectionStep, ClickStep DEF PagesNext

-----------------------------------------------------------------------------
(* What the invariant says of the types *)

\* The bounds and the history.
PastTyped ==
    /\ tour \in {"panels", "power", "files"}
    /\ steps \in 0..MaxSteps
    /\ overtaken \in BOOLEAN /\ crossed \in BOOLEAN /\ refused \in BOOLEAN

LEMMA RememberTypes ==
  ASSUME PastTyped, Remember, crossed' \in BOOLEAN,
         UNCHANGED steps \/ (steps < MaxSteps /\ steps' = steps + 1)
  PROVE  PastTyped'
<1>1. steps' \in 0..MaxSteps
  BY PagesAssumption DEF PastTyped
<1>2. overtaken' \in BOOLEAN /\ refused' \in BOOLEAN /\ UNCHANGED tour
  BY DEF Remember, PastTyped
<1> QED
  BY <1>1, <1>2 DEF PastTyped

LEMMA PastIsTyped == PastTyped /\ [PagesNext]_gvars => PastTyped'
<1> SUFFICES ASSUME PastTyped, [PagesNext]_gvars PROVE PastTyped'
  OBVIOUS
<1>1. CASE UNCHANGED gvars
  BY <1>1 DEF gvars, past, PastTyped
<1>2. CASE Click
  <2>1. crossed' \in BOOLEAN
    BY <1>2 DEF Click, PastTyped
  <2> QED
    BY <1>2, <2>1, RememberTypes DEF Click, Step
<1>3. CASE Deliver \/ Elsewhere \/ Authentication \/ Loss
  BY <1>3, RememberTypes DEF Deliver, Elsewhere, Authentication, Loss, Step, PastTyped
<1> QED
  BY <1>1, <1>2, <1>3 DEF PagesNext

LEMMA TypesAreOK == GInv /\ PastTyped => PagesTypeOK
BY DEF GInv, LinkInv, LinkTyped, LookTyped, CallsTyped, WireOK, PastTyped, PagesTypeOK,
   Steps, Places, Buttons

\* A step of the files page, which leaves everything else alone.
LEMMA FilingStep ==
  ASSUME GInv, UNCHANGED <<link, look, crossed>>, Remember,
         UNCHANGED <<call, wire>>
         \/ \E c \in Call : /\ Ready(c) /\ call[c].step \in Filing \cup {"idle"}
                            /\ Moves(c, Filing)
  PROVE  GInv'
<1>1. Later
  BY DEF Later
<1>2. /\ enabled' \in [Buttons -> BOOLEAN] /\ enabled'["restart"] = enabled["restart"]
      /\ UNCHANGED <<power, shown>>
  BY DEF look, GInv, LinkInv, LookTyped
<1>3. CASE UNCHANGED <<call, wire>>
  BY <1>1, <1>3, NextWire DEF link, look, GInv, LinkInv, LinkTyped, LookTyped, DialOK,
     Alone, PanelsOK, PowerButtonIsRight, Pending, CallsTyped, WireOK, Later, Remember
<1>4. ASSUME NEW c \in Call, Ready(c), call[c].step \in Filing \cup {"idle"}, Moves(c, Filing)
      PROVE  GInv'
  <2>1. Filing \in SUBSET (Loading \cup Filing) /\ Filing \cap Rendering = {}
    BY DEF Filing, Rendering
  <2> QED
    BY <1>1, <1>2, <1>4, <2>1, LoadStep
<1> QED
  BY <1>3, <1>4

-----------------------------------------------------------------------------
(* What the pages leave of the calls of the files page *)

PageSteps == Steps \ (Filing \cup {"idle"})

LEMMA PageWaysOn ==
  ASSUME NEW c
  PROVE  /\ Finished(c) => Moves(c, PageSteps)
         /\ RefreshDashboard(c) => Moves(c, PageSteps)
         /\ Await(c, "dial", NoPlace) => Moves(c, PageSteps)
         /\ Await(c, "part", NoPlace) => Moves(c, PageSteps)
         /\ Await(c, "inspect", NoPlace) => Moves(c, PageSteps)
         /\ Await(c, "history", NoPlace) => Moves(c, PageSteps)
         /\ Await(c, "remote", NoPlace) => Moves(c, PageSteps)
         /\ Await(c, "services", NoPlace) => Moves(c, PageSteps)
         /\ Await(c, "act", NoPlace) => Moves(c, PageSteps)
         /\ Await(c, "shutPart", NoPlace) => Moves(c, PageSteps)
         /\ Await(c, "wake", NoPlace) => Moves(c, PageSteps)
         /\ Await(c, "wakeDial", NoPlace) => Moves(c, PageSteps)
         /\ Await(c, "wakePart", NoPlace) => Moves(c, PageSteps)
         /\ AwaitOutside(c, "shut", NoPlace) => Moves(c, PageSteps)
         /\ AwaitOutside(c, "waitOff", NoPlace) => Moves(c, PageSteps)
         /\ AwaitOutside(c, "waitOn", NoPlace) => Moves(c, PageSteps)
<1>1. NoPlace \in Places
  BY DEF Places
<1>2. {"dial", "part", "inspect", "history", "remote", "services", "act",
       "shutPart", "wake", "wakeDial", "wakePart"} \subseteq PageSteps \cap Native
  BY DEF PageSteps, Native, Steps, Loading, Switching, Filing, Outside
<1>3. {"dashboard", "shut", "waitOff", "waitOn"} \subseteq PageSteps \cap Outside
  BY DEF PageSteps, Steps, Loading, Switching, Filing, Outside
<1> QED
  BY <1>1, <1>2, <1>3 DEF Moves, RefreshDashboard

LEMMA PagesMove ==
  ASSUME PagesNext
  PROVE  \/ UNCHANGED <<call, wire>>
         \/ \E c \in Call : Ready(c) /\ call[c].step \notin Filing /\ Moves(c, PageSteps)
<1>1. ASSUME NEW c \in Call, NEW ok \in BOOLEAN, Resume(c, ok)
      PROVE  call[c].step \notin Filing /\ Moves(c, PageSteps)
  <2>1. call[c].step \notin Filing
    BY <1>1 DEF Resume, Filing
  <2>2. CASE AfterDial(c) \/ AfterPart(c) \/ AfterWakeDial(c) \/ AfterWakePart(c)
    BY <2>1, <2>2, PageWaysOn DEF AfterDial, AfterPart, AfterWakeDial, AfterWakePart
  <2>3. CASE AfterShutPart(c) \/ AfterWake(c, ok)
    BY <2>1, <2>3, PageWaysOn DEF AfterShutPart, AfterWake
  <2>4. CASE \/ AfterInspect(c, ok) \/ AfterHistory(c, ok) \/ AfterRemoteAccess(c, ok)
             \/ AfterServices(c, ok) \/ AfterServiceAction(c, ok)
    BY <2>1, <2>4, PageWaysOn DEF AfterInspect, AfterHistory, AfterRemoteAccess, AfterServices,
       AfterServiceAction
  <2> QED
    BY <1>1, <2>1, <2>2, <2>3, <2>4 DEF Resume
<1>2. ASSUME NEW c \in Call, NEW ok \in BOOLEAN, ResumeOutside(c, ok)
      PROVE  Ready(c) /\ call[c].step \notin Filing /\ Moves(c, PageSteps)
  <2>1. Ready(c) /\ call[c].step \notin Filing
    BY <1>2 DEF ResumeOutside, Ready, Outside, Filing
  <2>2. CASE AfterDashboard(c, ok) \/ AfterShut(c, ok) \/ AfterWaitOff(c)
    BY <2>1, <2>2, PageWaysOn DEF AfterDashboard, AfterShut, Depart, AfterWaitOff
  <2>3. CASE AfterWaitOn(c, ok)
    BY <2>1, <2>3, PageWaysOn DEF AfterWaitOn, BeginConnecting
  <2> QED
    BY <1>2, <2>1, <2>2, <2>3 DEF ResumeOutside
<1>3. ASSUME NEW c \in Call, call[c] = Idle,
             ConnectClick(c) \/ UsePanels(c) \/ ToggleServerPower(c) \/ RefreshDashboard(c)
      PROVE  Ready(c) /\ call[c].step \notin Filing /\ Moves(c, PageSteps)
  <2>1. Ready(c) /\ call[c].step \notin Filing
    BY <1>3 DEF Idle, Ready, Filing
  <2>2. CASE ConnectClick(c) \/ ToggleServerPower(c) \/ RefreshDashboard(c)
    BY <2>1, <2>2, PageWaysOn DEF ConnectClick, BeginConnecting, ToggleServerPower
  <2>3. CASE UsePanels(c)
    BY <2>1, <2>3, PageWaysOn DEF UsePanels, InspectUpdates, LoadUpdateHistory, LoadRemoteAccess,
       LoadServices, RunServiceAction
  <2> QED
    BY <1>3, <2>1, <2>2, <2>3
<1>4. CASE Deliver
  <2>1. PICK c \in Call, ok \in BOOLEAN : wire # <<>> /\ c = Head(wire) /\ Resume(c, ok)
    BY <1>4 DEF Deliver
  <2> QED
    BY <1>1, <2>1 DEF Ready
<1>5. CASE Elsewhere
  BY <1>2, <1>5 DEF Elsewhere
<1>6. CASE Authentication
  BY <1>3, <1>6 DEF Authentication, Authenticated
<1>7. CASE Loss
  BY <1>7 DEF Loss, Lost
<1>8. CASE Click
  BY <1>3, <1>8 DEF Click
<1> QED
  BY <1>4, <1>5, <1>6, <1>7, <1>8 DEF PagesNext

\* Where the other calls are when c moves.
Shift(c) ==
    /\ \A d \in Call \ {c} : call'[d] = call[d]
    /\ \A d, e \in Call \ {c} : Before(d, e)' <=> Before(d, e)
    /\ \A d \in Call \ {c} :
         call[d].step \in Native /\ call'[c].step \in Native => Before(d, c)'

LEMMA MovesShift ==
  ASSUME GInv, session' \in 0..MaxSession, NEW c \in Call, Ready(c),
         NEW kinds \in SUBSET Steps, Moves(c, kinds)
  PROVE  Shift(c) /\ call'[c].step \in kinds \cup {"idle"}
BY MoveIs DEF GInv, Shift, Idle

=============================================================================
