-------------------------- MODULE SshSessionProofs --------------------------
(***************************************************************************)
(* Proofs about the native session manager, for every bound on sessions,   *)
(* output and queue.                                                       *)
(*                                                                         *)
(* The safety properties of SshSession are not inductive by themselves:    *)
(* they depend on what each thread still owes.  IInv adds those facts.     *)
(***************************************************************************)
EXTENDS SshSession, TLAPS

\* Generations that were not numbered yet have left no trace.
FreshGenerations ==
    /\ session < next
    /\ \A g \in Gen : g >= next =>
         /\ reader[g] = "off" /\ timer[g] = "off" /\ child[g] = "none"
         /\ told[g] = {} /\ chunk[g] = {}
         /\ ~authed[g] /\ ~cancelled[g]

\* A generation whose threads never started has no sentinel and is not installed.
UnlaunchedGenerations ==
    \A g \in Gen : reader[g] = "off" =>
        /\ timer[g] = "off"
        /\ ~authed[g] /\ chunk[g] = {} /\ session # g

\* While a session is installed its timer is only cancelled by the sentinel.
CancelMeansAuthenticated ==
    \A g \in Gen : session = g /\ cancelled[g] => authed[g]

\* The sentinel is found once, and then announced once or not at all.
AnnouncedOnce ==
    \A g \in Gen :
        /\ reader[g] = "checked" => chunk[g] # {}
        /\ "authenticated" \in chunk[g] => authed[g] /\ "authenticated" \notin told[g]
        /\ "authenticated" \in told[g] => authed[g]

\* The session of a generation is taken once, and its taker has not reported.
TakenOnce ==
    \A g \in Gen :
        /\ reader[g] = "ending" => session # g /\ timer[g] # "killing"
        /\ timer[g] = "killing" => session # g
        /\ "failed" \in told[g] =>
             session # g /\ reader[g] # "ending" /\ timer[g] # "killing"

IInv ==
    /\ TypeOK
    /\ FreshGenerations
    /\ UnlaunchedGenerations
    /\ CancelMeansAuthenticated
    /\ AnnouncedOnce
    /\ TakenOnce
    /\ SessionIsWatched
    /\ NoSilentEnd
    /\ NoClientIsStranded

-----------------------------------------------------------------------------
(* Facts about the shared steps *)

USE DEF Gen, NoGen

\* Emitting records the event and nothing else about any generation.
LEMMA EmitEffect ==
  ASSUME TypeOK, NEW g \in Gen, NEW k \in EventKind, Emit(g, k)
  PROVE  /\ events' \in Seq(Event)
         /\ told' \in [Gen -> SUBSET EventKind]
         /\ told'[g] = told[g] \cup {k}
         /\ \A h \in Gen \ {g} : told'[h] = told[h]
<1>1. [gen |-> g, kind |-> k] \in Event
  BY DEF Event
<1>2. events' \in Seq(Event)
  BY <1>1 DEF TypeOK, Emit
<1>3. QED
  BY <1>2 DEF TypeOK, Emit

\* Closing whatever session is installed reports it as closed, touches what
\* was told about no other generation, and announces no authentication.
LEMMA CloseInstalledEffect ==
  ASSUME IInv, CloseInstalled
  PROVE  /\ events' \in Seq(Event)
         /\ told' \in [Gen -> SUBSET EventKind]
         /\ \A g \in Gen :
              /\ told[g] \subseteq told'[g]
              /\ session # g => told'[g] = told[g]
              /\ session = g => told'[g] = told[g] \cup {"closed"}
<1>1. CASE session = NoGen
  BY <1>1 DEF CloseInstalled, IInv, TypeOK
<1>2. CASE session \in Gen
  <2>1. Emit(session, "closed")
    BY <1>2 DEF CloseInstalled
  <2>2. "closed" \in EventKind
    BY DEF EventKind, Lifecycle, Ending
  <2>3. QED
    BY <1>2, <2>1, <2>2, EmitEffect DEF IInv
<1>3. QED
  BY <1>1, <1>2 DEF IInv, TypeOK

-----------------------------------------------------------------------------
(* The invariant is kept by every step *)

\* start_ssh launches a client (lib.rs 82-212).
LEMMA StartSshPreserves ==
  ASSUME IInv, StartSsh
  PROVE  IInv'
<1>1. /\ events' \in Seq(Event)
      /\ told' \in [Gen -> SUBSET EventKind]
      /\ \A g \in Gen :
           /\ told[g] \subseteq told'[g]
           /\ session # g => told'[g] = told[g]
           /\ session = g => told'[g] = told[g] \cup {"closed"}
  BY CloseInstalledEffect DEF StartSsh
<1>2. child' \in [Gen -> {"none", "running", "exited"}]
  BY DEF StartSsh, KilledChild, IInv, TypeOK
<1>3. cancelled' \in [Gen -> BOOLEAN]
  BY DEF StartSsh, TypeOK, CloseInstalled, CancelInstalled, IInv
<1>4. TypeOK'
  <2>1. session' \in Gen \cup {NoGen} /\ next' \in 1..(MaxGen + 1)
    BY BoundsAssumption DEF StartSsh
  <2>2. reader' \in [Gen -> {"off", "reading", "checked", "ending", "done"}]
    BY DEF StartSsh, IInv, TypeOK
  <2>3. timer' \in [Gen -> {"off", "armed", "expired", "killing", "done"}]
    BY DEF StartSsh, IInv, TypeOK
  <2>4. QED
    BY <1>2, <1>3, <1>1, <2>1, <2>2, <2>3 DEF StartSsh, IInv, TypeOK
<1>5. FreshGenerations'
  BY <1>1, <1>2, <1>3 DEF IInv, TypeOK, FreshGenerations, StartSsh, CloseInstalled,
     CancelInstalled, KilledChild
<1>6. UnlaunchedGenerations'
  BY <1>1, <1>2, <1>3 DEF IInv, TypeOK, UnlaunchedGenerations, StartSsh, KilledChild
<1>7. CancelMeansAuthenticated'
  BY <1>1, <1>2, <1>3 DEF IInv, TypeOK, FreshGenerations, CancelMeansAuthenticated, StartSsh,
     CloseInstalled, CancelInstalled
<1>8. AnnouncedOnce'
  BY <1>1, <1>2, <1>3 DEF IInv, TypeOK, AnnouncedOnce, StartSsh
<1>9. TakenOnce'
  BY <1>1, <1>2, <1>3 DEF IInv, TypeOK, FreshGenerations, TakenOnce, StartSsh
<1>10. SessionIsWatched'
  BY <1>1, <1>2, <1>3 DEF IInv, TypeOK, SessionIsWatched, StartSsh
<1>11. NoSilentEnd'
  <2> SUFFICES ASSUME NEW h \in Gen, reader'[h] # "off", session' # h
               PROVE  \/ told'[h] \cap Ending # {}
                      \/ reader'[h] = "ending"
                      \/ timer'[h] = "killing"
    BY DEF NoSilentEnd
  <2>1. CASE session = h
    BY <1>1, <2>1 DEF IInv, TypeOK, Ending, StartSsh
  <2>2. CASE session # h
    <3>1. reader[h] # "off" => told[h] \cap Ending # {} \/ reader[h] = "ending" \/ timer[h] =
       "killing"
      BY <2>2 DEF IInv, NoSilentEnd
    <3>2. told[h] \subseteq told'[h]
      BY <1>1, <2>2 DEF IInv, TypeOK, StartSsh
    <3>3. reader[h] # "off"
      BY <2>2 DEF IInv, TypeOK, StartSsh
    <3>4. reader[h] = "ending" => reader'[h] = "ending" \/ "closed" \in told'[h] \/ "failed"
       \in told'[h]
      BY <1>1, <2>2 DEF IInv, TypeOK, StartSsh
    <3>5. timer[h] = "killing" => timer'[h] = "killing" \/ "failed" \in told'[h]
      BY <1>1, <2>2 DEF IInv, TypeOK, StartSsh
    <3>6. QED
      BY <3>1, <3>2, <3>3, <3>4, <3>5 DEF Ending
  <2>3. QED
    BY <2>1, <2>2
<1>12. NoClientIsStranded'
  BY <1>1, <1>2, <1>3 DEF IInv, TypeOK, NoClientIsStranded, StartSsh, KilledChild
<1> QED
  BY <1>4, <1>5, <1>6, <1>7, <1>8, <1>9, <1>10, <1>11, <1>12 DEF IInv

\* start_ssh fails after it closed the previous session (lib.rs 98-136).
LEMMA StartSshFailsPreserves ==
  ASSUME IInv, StartSshFails
  PROVE  IInv'
<1>1. /\ events' \in Seq(Event)
      /\ told' \in [Gen -> SUBSET EventKind]
      /\ \A g \in Gen :
           /\ told[g] \subseteq told'[g]
           /\ session # g => told'[g] = told[g]
           /\ session = g => told'[g] = told[g] \cup {"closed"}
  BY CloseInstalledEffect DEF StartSshFails
<1>2. child' \in [Gen -> {"none", "running", "exited"}]
  BY DEF StartSshFails, KilledChild, IInv, TypeOK
<1>3. cancelled' \in [Gen -> BOOLEAN]
  BY DEF StartSshFails, TypeOK, CloseInstalled, CancelInstalled, IInv
<1>4. TypeOK'
  <2>1. session' \in Gen \cup {NoGen} /\ next' \in 1..(MaxGen + 1)
    BY BoundsAssumption DEF StartSshFails
  <2>2. reader' \in [Gen -> {"off", "reading", "checked", "ending", "done"}]
    BY DEF StartSshFails, IInv, TypeOK
  <2>3. timer' \in [Gen -> {"off", "armed", "expired", "killing", "done"}]
    BY DEF StartSshFails, IInv, TypeOK
  <2>4. QED
    BY <1>2, <1>3, <1>1, <2>1, <2>2, <2>3 DEF StartSshFails, IInv, TypeOK
<1>5. FreshGenerations'
  BY <1>1, <1>2, <1>3 DEF IInv, TypeOK, FreshGenerations, StartSshFails, CloseInstalled,
     CancelInstalled, KilledChild
<1>6. UnlaunchedGenerations'
  BY <1>1, <1>2, <1>3 DEF IInv, TypeOK, UnlaunchedGenerations, StartSshFails, KilledChild
<1>7. CancelMeansAuthenticated'
  BY <1>1, <1>2, <1>3 DEF IInv, TypeOK, CancelMeansAuthenticated, StartSshFails
<1>8. AnnouncedOnce'
  BY <1>1, <1>2, <1>3 DEF IInv, TypeOK, AnnouncedOnce, StartSshFails
<1>9. TakenOnce'
  BY <1>1, <1>2, <1>3 DEF IInv, TypeOK, TakenOnce, StartSshFails
<1>10. SessionIsWatched'
  BY <1>1, <1>2, <1>3 DEF IInv, TypeOK, SessionIsWatched, StartSshFails
<1>11. NoSilentEnd'
  <2> SUFFICES ASSUME NEW h \in Gen, reader'[h] # "off", session' # h
               PROVE  \/ told'[h] \cap Ending # {}
                      \/ reader'[h] = "ending"
                      \/ timer'[h] = "killing"
    BY DEF NoSilentEnd
  <2>1. CASE session = h
    BY <1>1, <2>1 DEF IInv, TypeOK, Ending, StartSshFails
  <2>2. CASE session # h
    <3>1. reader[h] # "off" => told[h] \cap Ending # {} \/ reader[h] = "ending" \/ timer[h] =
       "killing"
      BY <2>2 DEF IInv, NoSilentEnd
    <3>2. told[h] \subseteq told'[h]
      BY <1>1, <2>2 DEF IInv, TypeOK, StartSshFails
    <3>3. reader[h] # "off"
      BY <2>2 DEF IInv, TypeOK, StartSshFails
    <3>4. reader[h] = "ending" => reader'[h] = "ending" \/ "closed" \in told'[h] \/ "failed"
       \in told'[h]
      BY <1>1, <2>2 DEF IInv, TypeOK, StartSshFails
    <3>5. timer[h] = "killing" => timer'[h] = "killing" \/ "failed" \in told'[h]
      BY <1>1, <2>2 DEF IInv, TypeOK, StartSshFails
    <3>6. QED
      BY <3>1, <3>2, <3>3, <3>4, <3>5 DEF Ending
  <2>3. QED
    BY <2>1, <2>2
<1>12. NoClientIsStranded'
  <2> SUFFICES ASSUME NEW h \in Gen, child'[h] = "running",
                      reader'[h] \in {"reading", "checked"}
               PROVE  session' = h \/ timer'[h] = "killing"
    BY DEF NoClientIsStranded
  <2>1. PICK launched \in {"none", "running"} :
          child' = [KilledChild EXCEPT ![next] = launched]
    BY DEF StartSshFails
  <2>2. reader[next] = "off" /\ reader' = reader /\ timer' = timer
    BY DEF IInv, FreshGenerations, StartSshFails
  <2>3. h # next
    BY <2>2
  <2>4. child[h] = "running" /\ session # h
    BY <2>1, <2>3 DEF KilledChild, StartSshFails
  <2>5. QED
    BY <2>2, <2>4 DEF IInv, NoClientIsStranded
<1> QED
  BY <1>4, <1>5, <1>6, <1>7, <1>8, <1>9, <1>10, <1>11, <1>12 DEF IInv

\* close_ssh is not refused (lib.rs 263-286).
LEMMA CloseSshPreserves ==
  ASSUME IInv, NEW g \in Gen, g < next, CloseSsh(g)
  PROVE  IInv'
<1>1. "closed" \in EventKind
  BY DEF EventKind, Lifecycle, Ending
<1>2. /\ events' \in Seq(Event)
      /\ told' \in [Gen -> SUBSET EventKind]
      /\ told'[g] = told[g] \cup {"closed"}
      /\ \A h \in Gen \ {g} : told'[h] = told[h]
  BY <1>1, EmitEffect DEF CloseSsh, TypeOK, IInv
<1>3. TypeOK'
  BY <1>2 DEF IInv, TypeOK, CloseSsh, CancelInstalled, KilledChild
<1>4. FreshGenerations'
  BY <1>2 DEF IInv, TypeOK, FreshGenerations, CloseSsh, CancelInstalled, KilledChild
<1>5. UnlaunchedGenerations'
  BY <1>2 DEF IInv, TypeOK, UnlaunchedGenerations, CloseSsh, KilledChild
<1>6. CancelMeansAuthenticated'
  BY <1>2 DEF IInv, TypeOK, CancelMeansAuthenticated, CloseSsh
<1>7. AnnouncedOnce'
  BY <1>2 DEF IInv, TypeOK, AnnouncedOnce, CloseSsh
<1>8. TakenOnce'
  BY <1>2 DEF IInv, TypeOK, TakenOnce, CloseSsh
<1>9. SessionIsWatched'
  BY <1>2 DEF IInv, TypeOK, SessionIsWatched, CloseSsh
<1>10. NoSilentEnd'
  <2> SUFFICES ASSUME NEW h \in Gen, reader'[h] # "off", session' # h
               PROVE  \/ told'[h] \cap Ending # {}
                      \/ reader'[h] = "ending"
                      \/ timer'[h] = "killing"
    BY DEF NoSilentEnd
  <2>1. CASE session = h
    BY <1>2, <2>1 DEF IInv, TypeOK, Ending, CloseSsh, CloseIsStale
  <2>2. CASE session # h
    <3>1. reader[h] # "off" => told[h] \cap Ending # {} \/ reader[h] = "ending" \/ timer[h] =
       "killing"
      BY <2>2 DEF IInv, NoSilentEnd
    <3>2. told[h] \subseteq told'[h]
      BY <1>2, <2>2 DEF IInv, TypeOK, CloseSsh
    <3>3. reader[h] # "off"
      BY <2>2 DEF IInv, TypeOK, CloseSsh
    <3>4. reader[h] = "ending" => reader'[h] = "ending" \/ "closed" \in told'[h] \/ "failed"
       \in told'[h]
      BY <1>2, <2>2 DEF IInv, TypeOK, CloseSsh
    <3>5. timer[h] = "killing" => timer'[h] = "killing" \/ "failed" \in told'[h]
      BY <1>2, <2>2 DEF IInv, TypeOK, CloseSsh
    <3>6. QED
      BY <3>1, <3>2, <3>3, <3>4, <3>5 DEF Ending
  <2>3. QED
    BY <2>1, <2>2
<1>11. NoClientIsStranded'
  BY <1>2 DEF IInv, TypeOK, NoClientIsStranded, CloseSsh, KilledChild
<1> QED
  BY <1>3, <1>4, <1>5, <1>6, <1>7, <1>8, <1>9, <1>10, <1>11 DEF IInv

\* The reader parses a chunk (lib.rs 160-176).
LEMMA ReadChunkPreserves ==
  ASSUME IInv, NEW g \in Gen, ReadChunk(g)
  PROVE  IInv'
<1>1. TypeOK'
  <2> PICK found \in SUBSET {"authenticated", "output"} :
           /\ "output" \in found => outputs[g] < MaxOutput
           /\ chunk' = [chunk EXCEPT ![g] = found]
           /\ authed' = [authed EXCEPT ![g] = @ \/ "authenticated" \in found]
           /\ cancelled' = [cancelled EXCEPT ![g] = @ \/ "authenticated" \in found]
           /\ outputs' = [outputs EXCEPT ![g] = IF "output" \in found THEN @ + 1 ELSE @]
    BY DEF ReadChunk
  <2>1. outputs' \in [Gen -> 0..MaxOutput]
    BY BoundsAssumption DEF IInv, TypeOK
  <2>2. QED
    BY <2>1 DEF ReadChunk, IInv, TypeOK
<1>2. FreshGenerations'
  BY DEF IInv, TypeOK, FreshGenerations, ReadChunk
<1>3. UnlaunchedGenerations'
  BY DEF IInv, TypeOK, UnlaunchedGenerations, ReadChunk
<1>4. CancelMeansAuthenticated'
  BY DEF IInv, TypeOK, CancelMeansAuthenticated, ReadChunk
<1>5. AnnouncedOnce'
  <2> PICK found \in SUBSET {"authenticated", "output"} :
           /\ authed[g] => "authenticated" \notin found
           /\ chunk' = [chunk EXCEPT ![g] = found]
           /\ authed' = [authed EXCEPT ![g] = @ \/ "authenticated" \in found]
    BY DEF ReadChunk
  <2>1. QED
    BY DEF ReadChunk, IInv, TypeOK, AnnouncedOnce
<1>6. TakenOnce'
  BY DEF IInv, TypeOK, TakenOnce, ReadChunk
<1>7. SessionIsWatched'
  BY DEF IInv, TypeOK, SessionIsWatched, ReadChunk
<1>8. NoSilentEnd'
  BY DEF IInv, TypeOK, NoSilentEnd, ReadChunk
<1>9. NoClientIsStranded'
  BY DEF IInv, TypeOK, NoClientIsStranded, ReadChunk
<1> QED
  BY <1>1, <1>2, <1>3, <1>4, <1>5, <1>6, <1>7, <1>8, <1>9 DEF IInv

\* The reader compares generations under the lock (lib.rs 293-296).
LEMMA CheckCurrentPreserves ==
  ASSUME IInv, NEW g \in Gen, CheckCurrent(g)
  PROVE  IInv'
<1>1. /\ reader' \in [Gen -> {"off", "reading", "checked", "ending", "done"}]
      /\ chunk' \in [Gen -> SUBSET {"authenticated", "output"}]
      /\ reader'[g] \in {"reading", "checked"}
      /\ reader'[g] = "checked" => chunk'[g] = chunk[g]
      /\ chunk'[g] \subseteq chunk[g]
      /\ \A h \in Gen \ {g} : reader'[h] = reader[h] /\ chunk'[h] = chunk[h]
  <2>1. CASE session = g
    BY <2>1 DEF CheckCurrent, IInv, TypeOK
  <2>2. CASE session # g
    <3>1. chunk[g] \ {Pending(g)} \in SUBSET {"authenticated", "output"}
      BY DEF IInv, TypeOK
    <3>2. chunk' = [chunk EXCEPT ![g] = chunk[g] \ {Pending(g)}] /\ reader' = reader
      BY <2>2 DEF CheckCurrent
    <3>3. chunk' \in [Gen -> SUBSET {"authenticated", "output"}]
      BY <3>1, <3>2 DEF IInv, TypeOK
    <3>4. chunk'[g] = chunk[g] \ {Pending(g)} /\ \A h \in Gen \ {g} : chunk'[h] = chunk[h]
      BY <3>2 DEF IInv, TypeOK
    <3>5. /\ reader' \in [Gen -> {"off", "reading", "checked", "ending", "done"}]
          /\ reader'[g] = "reading"
      BY <3>2 DEF CheckCurrent, IInv, TypeOK
    <3>6. QED
      BY <3>2, <3>3, <3>4, <3>5
  <2>3. QED
    BY <2>1, <2>2
<1>2. TypeOK'
  BY <1>1 DEF IInv, TypeOK, CheckCurrent
<1>3. FreshGenerations'
  BY <1>1 DEF IInv, TypeOK, FreshGenerations, CheckCurrent
<1>4. UnlaunchedGenerations'
  BY <1>1 DEF IInv, TypeOK, UnlaunchedGenerations, CheckCurrent
<1>5. CancelMeansAuthenticated'
  BY <1>1 DEF IInv, TypeOK, CancelMeansAuthenticated, CheckCurrent
<1>6. AnnouncedOnce'
  BY <1>1 DEF IInv, TypeOK, AnnouncedOnce, CheckCurrent
<1>7. TakenOnce'
  BY <1>1 DEF IInv, TypeOK, TakenOnce, CheckCurrent
<1>8. SessionIsWatched'
  BY <1>1 DEF IInv, TypeOK, SessionIsWatched, CheckCurrent
<1>9. NoSilentEnd'
  BY <1>1 DEF IInv, TypeOK, NoSilentEnd, CheckCurrent
<1>10. NoClientIsStranded'
  BY <1>1 DEF IInv, TypeOK, NoClientIsStranded, CheckCurrent
<1> QED
  BY <1>2, <1>3, <1>4, <1>5, <1>6, <1>7, <1>8, <1>9, <1>10 DEF IInv

\* The reader emits after it released the lock (lib.rs 293-296).
LEMMA PublishPreserves ==
  ASSUME IInv, NEW g \in Gen, Publish(g)
  PROVE  IInv'
<1>1. Pending(g) \in EventKind
  BY DEF EventKind, Lifecycle, Pending
<1>2. /\ events' \in Seq(Event)
      /\ told' \in [Gen -> SUBSET EventKind]
      /\ told'[g] = told[g] \cup {Pending(g)}
      /\ \A h \in Gen \ {g} : told'[h] = told[h]
  BY <1>1, EmitEffect DEF Publish, TypeOK, IInv
<1>3. TypeOK'
  BY <1>2 DEF IInv, TypeOK, Publish
<1>4. FreshGenerations'
  BY <1>2 DEF IInv, TypeOK, FreshGenerations, Publish
<1>5. UnlaunchedGenerations'
  BY <1>2 DEF IInv, TypeOK, UnlaunchedGenerations, Publish
<1>6. CancelMeansAuthenticated'
  BY <1>2 DEF IInv, TypeOK, CancelMeansAuthenticated, Publish
<1>7. AnnouncedOnce'
  BY <1>2 DEF IInv, TypeOK, AnnouncedOnce, Publish, Pending
<1>8. TakenOnce'
  BY <1>2 DEF IInv, TypeOK, TakenOnce, Publish, Pending
<1>9. SessionIsWatched'
  BY <1>2 DEF IInv, TypeOK, SessionIsWatched, Publish
<1>10. NoSilentEnd'
  BY <1>2 DEF IInv, TypeOK, NoSilentEnd, Publish
<1>11. NoClientIsStranded'
  BY <1>2 DEF IInv, TypeOK, NoClientIsStranded, Publish
<1> QED
  BY <1>3, <1>4, <1>5, <1>6, <1>7, <1>8, <1>9, <1>10, <1>11 DEF IInv

\* The reader leaves its loop and takes its session (lib.rs 187).
LEMMA ReaderEofPreserves ==
  ASSUME IInv, NEW g \in Gen, ReaderEof(g)
  PROVE  IInv'
<1>1. TypeOK'
  BY DEF IInv, TypeOK, ReaderEof, TakeCurrent
<1>2. FreshGenerations'
  BY DEF IInv, TypeOK, FreshGenerations, ReaderEof, TakeCurrent
<1>3. UnlaunchedGenerations'
  BY DEF IInv, TypeOK, UnlaunchedGenerations, ReaderEof, TakeCurrent
<1>4. CancelMeansAuthenticated'
  BY DEF IInv, TypeOK, CancelMeansAuthenticated, ReaderEof, TakeCurrent
<1>5. AnnouncedOnce'
  BY DEF IInv, TypeOK, AnnouncedOnce, ReaderEof
<1>6. TakenOnce'
  BY DEF IInv, TypeOK, TakenOnce, ReaderEof, TakeCurrent
<1>7. SessionIsWatched'
  BY DEF IInv, TypeOK, SessionIsWatched, ReaderEof, TakeCurrent
<1>8. NoSilentEnd'
  BY DEF IInv, TypeOK, NoSilentEnd, ReaderEof, TakeCurrent
<1>9. NoClientIsStranded'
  BY DEF IInv, TypeOK, NoClientIsStranded, ReaderEof, TakeCurrent
<1> QED
  BY <1>1, <1>2, <1>3, <1>4, <1>5, <1>6, <1>7, <1>8, <1>9 DEF IInv

\* The reader reports how its session ended (lib.rs 188-196).
LEMMA ReaderReportPreserves ==
  ASSUME IInv, NEW g \in Gen, ReaderReport(g)
  PROVE  IInv'
<1>1. (IF authed[g] THEN "closed" ELSE "failed") \in EventKind
  BY DEF EventKind, Lifecycle, Ending
<1>2. /\ events' \in Seq(Event)
      /\ told' \in [Gen -> SUBSET EventKind]
      /\ told'[g] = told[g] \cup {IF authed[g] THEN "closed" ELSE "failed"}
      /\ \A h \in Gen \ {g} : told'[h] = told[h]
  BY <1>1, EmitEffect DEF ReaderReport, TypeOK, IInv
<1>3. TypeOK'
  BY <1>2 DEF IInv, TypeOK, ReaderReport
<1>4. FreshGenerations'
  BY <1>2 DEF IInv, TypeOK, FreshGenerations, ReaderReport
<1>5. UnlaunchedGenerations'
  BY <1>2 DEF IInv, TypeOK, UnlaunchedGenerations, ReaderReport
<1>6. CancelMeansAuthenticated'
  BY <1>2 DEF IInv, TypeOK, CancelMeansAuthenticated, ReaderReport
<1>7. AnnouncedOnce'
  BY <1>2 DEF IInv, TypeOK, AnnouncedOnce, ReaderReport
<1>8. TakenOnce'
  BY <1>2 DEF IInv, TypeOK, TakenOnce, ReaderReport
<1>9. SessionIsWatched'
  BY <1>2 DEF IInv, TypeOK, SessionIsWatched, ReaderReport
<1>10. NoSilentEnd'
  <2> SUFFICES ASSUME NEW h \in Gen, reader'[h] # "off", session' # h
               PROVE  \/ told'[h] \cap Ending # {}
                      \/ reader'[h] = "ending"
                      \/ timer'[h] = "killing"
    BY DEF NoSilentEnd
  <2>1. CASE session = h
    BY <1>2, <2>1 DEF IInv, TypeOK, ReaderReport
  <2>2. CASE session # h
    <3>1. reader[h] # "off" => told[h] \cap Ending # {} \/ reader[h] = "ending" \/ timer[h] =
       "killing"
      BY <2>2 DEF IInv, NoSilentEnd
    <3>2. told[h] \subseteq told'[h]
      BY <1>2, <2>2 DEF IInv, TypeOK, ReaderReport
    <3>3. reader[h] # "off"
      BY <2>2 DEF IInv, TypeOK, ReaderReport
    <3>4. reader[h] = "ending" => reader'[h] = "ending" \/ "closed" \in told'[h] \/ "failed"
       \in told'[h]
      BY <1>2, <2>2 DEF IInv, TypeOK, ReaderReport
    <3>5. timer[h] = "killing" => timer'[h] = "killing" \/ "failed" \in told'[h]
      BY <1>2, <2>2 DEF IInv, TypeOK, ReaderReport
    <3>6. QED
      BY <3>1, <3>2, <3>3, <3>4, <3>5 DEF Ending
  <2>3. QED
    BY <2>1, <2>2
<1>11. NoClientIsStranded'
  BY <1>2 DEF IInv, TypeOK, NoClientIsStranded, ReaderReport
<1> QED
  BY <1>3, <1>4, <1>5, <1>6, <1>7, <1>8, <1>9, <1>10, <1>11 DEF IInv

\* The timer receives the cancel message (lib.rs 202).
LEMMA TimerDisarmPreserves ==
  ASSUME IInv, NEW g \in Gen, TimerDisarm(g)
  PROVE  IInv'
<1>1. TypeOK'
  BY DEF IInv, TypeOK, TimerDisarm
<1>2. FreshGenerations'
  BY DEF IInv, TypeOK, FreshGenerations, TimerDisarm
<1>3. UnlaunchedGenerations'
  BY DEF IInv, TypeOK, UnlaunchedGenerations, TimerDisarm
<1>4. CancelMeansAuthenticated'
  BY DEF IInv, TypeOK, CancelMeansAuthenticated, TimerDisarm
<1>5. AnnouncedOnce'
  BY DEF IInv, TypeOK, AnnouncedOnce, TimerDisarm
<1>6. TakenOnce'
  BY DEF IInv, TypeOK, TakenOnce, TimerDisarm
<1>7. SessionIsWatched'
  BY DEF IInv, TypeOK, CancelMeansAuthenticated, SessionIsWatched, TimerDisarm
<1>8. NoSilentEnd'
  BY DEF IInv, TypeOK, NoSilentEnd, TimerDisarm
<1>9. NoClientIsStranded'
  BY DEF IInv, TypeOK, NoClientIsStranded, TimerDisarm
<1> QED
  BY <1>1, <1>2, <1>3, <1>4, <1>5, <1>6, <1>7, <1>8, <1>9 DEF IInv

\* The timer stops waiting (lib.rs 202).
LEMMA TimerExpirePreserves ==
  ASSUME IInv, NEW g \in Gen, TimerExpire(g)
  PROVE  IInv'
<1>1. TypeOK'
  BY DEF IInv, TypeOK, TimerExpire
<1>2. FreshGenerations'
  BY DEF IInv, TypeOK, FreshGenerations, TimerExpire
<1>3. UnlaunchedGenerations'
  BY DEF IInv, TypeOK, UnlaunchedGenerations, TimerExpire
<1>4. CancelMeansAuthenticated'
  BY DEF IInv, TypeOK, CancelMeansAuthenticated, TimerExpire
<1>5. AnnouncedOnce'
  BY DEF IInv, TypeOK, AnnouncedOnce, TimerExpire
<1>6. TakenOnce'
  BY DEF IInv, TypeOK, TakenOnce, TimerExpire
<1>7. SessionIsWatched'
  BY DEF IInv, TypeOK, SessionIsWatched, TimerExpire
<1>8. NoSilentEnd'
  BY DEF IInv, TypeOK, NoSilentEnd, TimerExpire
<1>9. NoClientIsStranded'
  BY DEF IInv, TypeOK, NoClientIsStranded, TimerExpire
<1> QED
  BY <1>1, <1>2, <1>3, <1>4, <1>5, <1>6, <1>7, <1>8, <1>9 DEF IInv

\* The timer takes its session (lib.rs 203, 288-291).
LEMMA TimerTakePreserves ==
  ASSUME IInv, NEW g \in Gen, TimerTake(g)
  PROVE  IInv'
<1>1. TypeOK'
  BY DEF IInv, TypeOK, TimerTake, TakeCurrent
<1>2. FreshGenerations'
  BY DEF IInv, TypeOK, FreshGenerations, TimerTake, TakeCurrent
<1>3. UnlaunchedGenerations'
  BY DEF IInv, TypeOK, UnlaunchedGenerations, TimerTake, TakeCurrent
<1>4. CancelMeansAuthenticated'
  BY DEF IInv, TypeOK, CancelMeansAuthenticated, TimerTake, TakeCurrent
<1>5. AnnouncedOnce'
  BY DEF IInv, TypeOK, AnnouncedOnce, TimerTake
<1>6. TakenOnce'
  BY DEF IInv, TypeOK, TakenOnce, TimerTake, TakeCurrent
<1>7. SessionIsWatched'
  BY DEF IInv, TypeOK, SessionIsWatched, TimerTake, TakeCurrent
<1>8. NoSilentEnd'
  BY DEF IInv, TypeOK, NoSilentEnd, TimerTake, TakeCurrent
<1>9. NoClientIsStranded'
  BY DEF IInv, TypeOK, NoClientIsStranded, TimerTake, TakeCurrent
<1> QED
  BY <1>1, <1>2, <1>3, <1>4, <1>5, <1>6, <1>7, <1>8, <1>9 DEF IInv

\* The timer kills the client and reports (lib.rs 204-206).
LEMMA TimerKillPreserves ==
  ASSUME IInv, NEW g \in Gen, TimerKill(g)
  PROVE  IInv'
<1>1. "failed" \in EventKind
  BY DEF EventKind, Lifecycle, Ending
<1>2. /\ events' \in Seq(Event)
      /\ told' \in [Gen -> SUBSET EventKind]
      /\ told'[g] = told[g] \cup {"failed"}
      /\ \A h \in Gen \ {g} : told'[h] = told[h]
  BY <1>1, EmitEffect DEF TimerKill, TypeOK, IInv
<1>3. TypeOK'
  BY <1>2 DEF IInv, TypeOK, TimerKill
<1>4. FreshGenerations'
  BY <1>2 DEF IInv, TypeOK, FreshGenerations, TimerKill
<1>5. UnlaunchedGenerations'
  BY <1>2 DEF IInv, TypeOK, UnlaunchedGenerations, TimerKill
<1>6. CancelMeansAuthenticated'
  BY <1>2 DEF IInv, TypeOK, CancelMeansAuthenticated, TimerKill
<1>7. AnnouncedOnce'
  BY <1>2 DEF IInv, TypeOK, AnnouncedOnce, TimerKill
<1>8. TakenOnce'
  BY <1>2 DEF IInv, TypeOK, TakenOnce, TimerKill
<1>9. SessionIsWatched'
  BY <1>2 DEF IInv, TypeOK, SessionIsWatched, TimerKill
<1>10. NoSilentEnd'
  BY <1>2 DEF IInv, TypeOK, NoSilentEnd, TimerKill, Ending
<1>11. NoClientIsStranded'
  BY <1>2 DEF IInv, TypeOK, NoClientIsStranded, TimerKill
<1> QED
  BY <1>3, <1>4, <1>5, <1>6, <1>7, <1>8, <1>9, <1>10, <1>11 DEF IInv

\* The client exits by itself.
LEMMA ChildExitPreserves ==
  ASSUME IInv, NEW g \in Gen, ChildExit(g)
  PROVE  IInv'
<1>1. TypeOK'
  BY DEF IInv, TypeOK, ChildExit, threads
<1>2. FreshGenerations'
  BY DEF IInv, TypeOK, FreshGenerations, ChildExit, threads
<1>3. UnlaunchedGenerations'
  BY DEF IInv, TypeOK, UnlaunchedGenerations, ChildExit, threads
<1>4. CancelMeansAuthenticated'
  BY DEF IInv, TypeOK, CancelMeansAuthenticated, ChildExit, threads
<1>5. AnnouncedOnce'
  BY DEF IInv, TypeOK, AnnouncedOnce, ChildExit, threads
<1>6. TakenOnce'
  BY DEF IInv, TypeOK, TakenOnce, ChildExit, threads
<1>7. SessionIsWatched'
  BY DEF IInv, TypeOK, SessionIsWatched, ChildExit, threads
<1>8. NoSilentEnd'
  BY DEF IInv, TypeOK, NoSilentEnd, ChildExit, threads
<1>9. NoClientIsStranded'
  BY DEF IInv, TypeOK, NoClientIsStranded, ChildExit, threads
<1> QED
  BY <1>1, <1>2, <1>3, <1>4, <1>5, <1>6, <1>7, <1>8, <1>9 DEF IInv

\* The webview takes an event off its queue.
LEMMA DeliverPreserves ==
  ASSUME IInv, Deliver
  PROVE  IInv'
<1>1. TypeOK'
  BY DEF IInv, TypeOK, Deliver, threads
<1>2. FreshGenerations'
  BY DEF IInv, TypeOK, FreshGenerations, Deliver, threads
<1>3. UnlaunchedGenerations'
  BY DEF IInv, TypeOK, UnlaunchedGenerations, Deliver, threads
<1>4. CancelMeansAuthenticated'
  BY DEF IInv, TypeOK, CancelMeansAuthenticated, Deliver, threads
<1>5. AnnouncedOnce'
  BY DEF IInv, TypeOK, AnnouncedOnce, Deliver, threads
<1>6. TakenOnce'
  BY DEF IInv, TypeOK, TakenOnce, Deliver, threads
<1>7. SessionIsWatched'
  BY DEF IInv, TypeOK, SessionIsWatched, Deliver, threads
<1>8. NoSilentEnd'
  BY DEF IInv, TypeOK, NoSilentEnd, Deliver, threads
<1>9. NoClientIsStranded'
  BY DEF IInv, TypeOK, NoClientIsStranded, Deliver, threads
<1> QED
  BY <1>1, <1>2, <1>3, <1>4, <1>5, <1>6, <1>7, <1>8, <1>9 DEF IInv

\* The application starts with no session (SshManager::default).
LEMMA InitEstablishes == Init => IInv
<1> SUFFICES ASSUME Init PROVE IInv
  OBVIOUS
<1>1. TypeOK
  BY BoundsAssumption DEF Init, TypeOK
<1>2. QED
  BY <1>1, BoundsAssumption DEF Init, IInv, FreshGenerations, UnlaunchedGenerations,
     CancelMeansAuthenticated, AnnouncedOnce, TakenOnce, SessionIsWatched, NoSilentEnd,
     NoClientIsStranded

\* Every step of a command, a thread, the client or the webview keeps the
\* invariant.
LEMMA StepPreserves == IInv /\ [Next]_vars => IInv'
<1> SUFFICES ASSUME IInv, [Next]_vars PROVE IInv'
  OBVIOUS
<1>1. CASE StartSsh
  BY <1>1, StartSshPreserves
<1>2. CASE StartSshFails
  BY <1>2, StartSshFailsPreserves
<1>3. ASSUME NEW g \in Gen, g < next, CloseSsh(g) PROVE IInv'
  BY <1>3, CloseSshPreserves
<1>4. ASSUME NEW g \in Gen, Thread(g) PROVE IInv'
  BY <1>4, ReadChunkPreserves, CheckCurrentPreserves, PublishPreserves, ReaderEofPreserves,
     ReaderReportPreserves, TimerDisarmPreserves, TimerExpirePreserves, TimerTakePreserves,
     TimerKillPreserves DEF Thread
<1>5. ASSUME NEW g \in Gen, ChildExit(g) PROVE IInv'
  BY <1>5, ChildExitPreserves
<1>6. CASE Deliver
  BY <1>6, DeliverPreserves
<1>7. CASE UNCHANGED vars
  BY <1>7 DEF vars, threads, IInv, TypeOK, FreshGenerations, UnlaunchedGenerations,
     CancelMeansAuthenticated, AnnouncedOnce, TakenOnce, SessionIsWatched, NoSilentEnd,
     NoClientIsStranded
<1>8. QED
  BY <1>1, <1>2, <1>3, <1>4, <1>5, <1>6, <1>7 DEF Next, Command

\* The inductive invariant holds in every reachable state of the session
\* manager, for every number of sessions.
THEOREM Invariance == Spec => []IInv
BY InitEstablishes, StepPreserves, PTL DEF Spec

-----------------------------------------------------------------------------
(* What the invariant gives *)

\* The variables keep their types (lib.rs 22-80).
THEOREM TypeCorrect == Spec => []TypeOK
<1>1. IInv => TypeOK
  BY DEF IInv
<1>2. QED
  BY <1>1, Invariance, PTL

\* An installed session always has a reader in its loop, and a timer that has
\* not given up unless the sentinel was found (lib.rs 158-209).
THEOREM InstalledSessionsAreWatched == Spec => []SessionIsWatched
<1>1. IInv => SessionIsWatched
  BY DEF IInv
<1>2. QED
  BY <1>1, Invariance, PTL

\* However commands, reader and timer interleave, a launched session that is
\* gone was reported, or the thread that took it is about to (lib.rs 187-207).
THEOREM SessionsDoNotEndSilently == Spec => []NoSilentEnd
<1>1. IInv => NoSilentEnd
  BY DEF IInv
<1>2. QED
  BY <1>1, Invariance, PTL

\* While its reader scans its pseudo-terminal, a running client is installed or
\* about to be killed (lib.rs 98, 204, 282).
THEOREM ClientsAreNotStranded == Spec => []NoClientIsStranded
<1>1. IInv => NoClientIsStranded
  BY DEF IInv
<1>2. QED
  BY <1>1, Invariance, PTL

-----------------------------------------------------------------------------
(* Which step emits what *)

\* Appending two different events gives two different queues.
LEMMA AppendIsInjective ==
  ASSUME NEW S, NEW s \in Seq(S), NEW a \in S, NEW b \in S, Append(s, a) = Append(s, b)
  PROVE  a = b
<1>1. Append(s, a)[Len(s) + 1] = a /\ Append(s, b)[Len(s) + 1] = b
  OBVIOUS
<1>2. QED
  BY <1>1

\* A queue that grew is neither unchanged nor shortened.
LEMMA AppendGrows ==
  ASSUME NEW S, NEW s \in Seq(S), NEW a \in S
  PROVE  Append(s, a) # s /\ (s # <<>> => Append(s, a) # Tail(s))
<1>1. Len(Append(s, a)) = Len(s) + 1
  OBVIOUS
<1>2. s # <<>> => Len(Tail(s)) = Len(s) - 1
  OBVIOUS
<1>3. QED
  BY <1>1, <1>2

\* Only the reader that found the sentinel announces an authentication, and
\* only the thread that took the session reports a failure (lib.rs 172-206).
LEMMA EmittedByWhom ==
  ASSUME IInv, [Next]_vars, NEW g \in Gen, NEW k \in {"authenticated", "failed"},
         events' = Append(events, [gen |-> g, kind |-> k])
  PROVE  \/ Publish(g) /\ k = "authenticated" /\ "authenticated" \in chunk[g]
         \/ ReaderReport(g) /\ k = "failed"
         \/ TimerKill(g) /\ k = "failed"
<1> DEFINE e == [gen |-> g, kind |-> k]
<1>1. e \in Event /\ events \in Seq(Event)
  BY DEF Event, EventKind, Lifecycle, Ending, IInv, TypeOK
<1>2. events' # events
  BY <1>1, AppendGrows
<1>3. events # <<>> => events' # Tail(events)
  BY <1>1, AppendGrows
<1>4. ASSUME NEW h \in Gen, NEW j \in EventKind, Emit(h, j) PROVE h = g /\ j = k
  <2>1. [gen |-> h, kind |-> j] \in Event
    BY DEF Event
  <2>2. [gen |-> h, kind |-> j] = e
    BY <1>1, <1>4, <2>1, AppendIsInjective DEF Emit
  <2>3. QED
    BY <2>2
<1>5. "closed" \in EventKind /\ "failed" \in EventKind
  BY DEF EventKind, Lifecycle, Ending
<1>6. ~CloseInstalled
  BY <1>2, <1>4, <1>5 DEF CloseInstalled, IInv, TypeOK
<1>7. ASSUME NEW h \in Gen PROVE ~CloseSsh(h)
  BY <1>4, <1>5 DEF CloseSsh
<1>8. ASSUME NEW h \in Gen, Thread(h) \/ ChildExit(h) PROVE Publish(h) \/ ReaderReport(h) \/
   TimerKill(h)
  BY <1>2, <1>8 DEF Thread, ReadChunk, CheckCurrent, ReaderEof, TimerDisarm, TimerExpire,
     TimerTake, ChildExit
<1>9. ASSUME NEW h \in Gen, Publish(h)
      PROVE  h = g /\ k = "authenticated" /\ "authenticated" \in chunk[g]
  <2>1. Pending(h) \in EventKind
    BY DEF Pending, EventKind, Lifecycle
  <2>2. h = g /\ Pending(h) = k
    BY <1>4, <1>9, <2>1 DEF Publish
  <2>3. QED
    BY <2>2 DEF Pending
<1>10. ASSUME NEW h \in Gen, ReaderReport(h) PROVE h = g /\ k = "failed"
  <2>1. (IF authed[h] THEN "closed" ELSE "failed") \in EventKind
    BY <1>5
  <2>2. h = g /\ (IF authed[h] THEN "closed" ELSE "failed") = k
    BY <1>4, <1>10, <2>1 DEF ReaderReport
  <2>3. QED
    BY <2>2
<1>11. ASSUME NEW h \in Gen, TimerKill(h) PROVE h = g /\ k = "failed"
  BY <1>4, <1>5, <1>11 DEF TimerKill
<1>12. ~UNCHANGED vars /\ ~Deliver
  BY <1>2, <1>3 DEF vars, Deliver
<1>13. PICK h \in Gen : Thread(h) \/ ChildExit(h)
  BY <1>6, <1>7, <1>12 DEF Next, Command, StartSsh, StartSshFails
<1>14. QED
  BY <1>8, <1>9, <1>10, <1>11, <1>13

\* authenticated is emitted at most once per generation, after its sentinel
\* (lib.rs 172-176).
THEOREM AuthenticatesOnce == Spec => AuthenticatedOnce
<1>1. ASSUME IInv, [Next]_vars, NEW g \in Gen,
             events' = Append(events, [gen |-> g, kind |-> "authenticated"])
      PROVE  authed[g] /\ "authenticated" \notin told[g]
  <2>1. "authenticated" \in chunk[g]
    BY <1>1, EmittedByWhom
  <2>2. QED
    BY <1>1, <2>1 DEF IInv, AnnouncedOnce
<1>2. IInv /\ [Next]_vars =>
        [\A g \in Gen : events' = Append(events, [gen |-> g, kind |-> "authenticated"])
            => authed[g] /\ "authenticated" \notin told[g]]_vars
  BY <1>1
<1>3. QED
  BY <1>2, Invariance, PTL DEF Spec, AuthenticatedOnce

\* failed is emitted at most once per generation, although reader and timer
\* race for it (lib.rs 187-207).
THEOREM FailsOnce == Spec => FailedOnce
<1>1. ASSUME IInv, [Next]_vars, NEW g \in Gen,
             events' = Append(events, [gen |-> g, kind |-> "failed"])
      PROVE  "failed" \notin told[g]
  <2>1. ReaderReport(g) \/ TimerKill(g)
    BY <1>1, EmittedByWhom
  <2>2. QED
    BY <1>1, <2>1 DEF IInv, TakenOnce, ReaderReport, TimerKill
<1>2. IInv /\ [Next]_vars =>
        [\A g \in Gen : events' = Append(events, [gen |-> g, kind |-> "failed"])
            => "failed" \notin told[g]]_vars
  BY <1>1
<1>3. QED
  BY <1>2, Invariance, PTL DEF Spec, FailedOnce

-----------------------------------------------------------------------------
(* The session manager implements the life of a session *)

\* While a session is installed, and when its reader took it, the sentinel that
\* was found has been announced or is about to be.
SentinelIsAnnounced ==
    \A g \in Gen : authed[g] =>
        /\ session = g => "authenticated" \in told[g] \cup chunk[g]
        /\ reader[g] = "ending" => "authenticated" \in told[g]

LInv == IInv /\ SentinelIsAnnounced

\* The variables of the abstract life, in terms of the threads'.
Opened == {g \in Gen : reader[g] # "off"}
Due == [g \in Gen |-> DueOf(g)]
Leaving == {g \in Gen : reader[g] = "ending" \/ timer[g] = "killing"}

\* A step that keeps what is seen from outside is a stutter of the abstract life.
LEMMA LifeStutters ==
  ASSUME UNCHANGED <<session, Opened, Due, Leaving, events, told>>
  PROVE  UNCHANGED Life!lives
BY DEF Life!lives, Opened, Due, Leaving

\* Finding the sentinel is followed by announcing it (lib.rs 172-176, 187-196).
LEMMA SentinelStep ==
  ASSUME LInv, [Next]_vars, IInv'
  PROVE  SentinelIsAnnounced'
<1> USE DEF LInv
<1>1. CASE StartSsh
  <2>1. \A g \in Gen : told[g] \subseteq told'[g]
    BY <1>1, CloseInstalledEffect DEF StartSsh
  <2>2. \A g \in Gen : session' = g => ~authed'[g]
    BY <1>1 DEF StartSsh, IInv, FreshGenerations
  <2>3. \A g \in Gen : reader'[g] = "ending" => reader[g] = "ending"
    BY <1>1 DEF StartSsh, IInv, TypeOK
  <2>4. QED
    BY <1>1, <2>1, <2>2, <2>3 DEF StartSsh, SentinelIsAnnounced
<1>2. CASE StartSshFails
  <2>1. \A g \in Gen : told[g] \subseteq told'[g]
    BY <1>2, CloseInstalledEffect DEF StartSshFails
  <2>2. QED
    BY <1>2, <2>1 DEF StartSshFails, SentinelIsAnnounced
<1>3. ASSUME NEW g \in Gen, CloseSsh(g) PROVE SentinelIsAnnounced'
  BY <1>3 DEF CloseSsh, Emit, SentinelIsAnnounced, IInv, TypeOK
<1>4. ASSUME NEW g \in Gen, ReadChunk(g) PROVE SentinelIsAnnounced'
  BY <1>4 DEF ReadChunk, SentinelIsAnnounced, IInv, TypeOK
<1>5. ASSUME NEW g \in Gen, CheckCurrent(g) PROVE SentinelIsAnnounced'
  BY <1>5 DEF CheckCurrent, SentinelIsAnnounced, IInv, TypeOK
<1>6. ASSUME NEW g \in Gen, Publish(g) PROVE SentinelIsAnnounced'
  BY <1>6 DEF Publish, Emit, Pending, SentinelIsAnnounced, IInv, TypeOK
<1>7. ASSUME NEW g \in Gen, ReaderEof(g) PROVE SentinelIsAnnounced'
  BY <1>7 DEF ReaderEof, TakeCurrent, SentinelIsAnnounced, IInv, TypeOK
<1>8. ASSUME NEW g \in Gen, ReaderReport(g) PROVE SentinelIsAnnounced'
  BY <1>8 DEF ReaderReport, Emit, SentinelIsAnnounced, IInv, TypeOK
<1>9. ASSUME NEW g \in Gen, TimerDisarm(g) \/ TimerExpire(g) \/ TimerTake(g)
      PROVE  SentinelIsAnnounced'
  BY <1>9 DEF TimerDisarm, TimerExpire, TimerTake, TakeCurrent, SentinelIsAnnounced, IInv, TypeOK
<1>10. ASSUME NEW g \in Gen, TimerKill(g) PROVE SentinelIsAnnounced'
  BY <1>10 DEF TimerKill, Emit, SentinelIsAnnounced, IInv, TypeOK
<1>11. CASE Deliver \/ (\E g \in Gen : ChildExit(g)) \/ UNCHANGED vars
  BY <1>11 DEF Deliver, ChildExit, vars, threads, SentinelIsAnnounced
<1>12. QED
  BY <1>1, <1>2, <1>3, <1>4, <1>5, <1>6, <1>7, <1>8, <1>9, <1>10, <1>11 DEF Next, Command, Thread

\* start_ssh opens a session in the place of the installed one (lib.rs 98-150).
LEMMA StartSshOpens ==
  ASSUME LInv, StartSsh, IInv'
  PROVE  Life!Next
<1>1. next \in Gen /\ reader[next] = "off" /\ timer[next] = "off"
  BY DEF StartSsh, LInv, IInv, FreshGenerations, TypeOK
<1>2. Opened' = Opened \cup {next}
  BY <1>1 DEF Opened, StartSsh, LInv, IInv, TypeOK
<1>3. \A g \in Gen : DueOf(g)' = DueOf(g)
  BY <1>1 DEF DueOf, Pending, StartSsh, LInv, IInv, TypeOK
<1>4. Due' = Due
  BY <1>3 DEF Due
<1>5. Leaving' = Leaving
  BY <1>1 DEF Leaving, StartSsh, LInv, IInv, TypeOK
<1>6. Life!SayClosedIfOpen
  BY DEF StartSsh, CloseInstalled, Emit, Life!SayClosedIfOpen, Life!Say
<1>7. PICK g \in Gen : g = next
  BY <1>1
<1>8. Life!Open(g)
  BY <1>1, <1>2, <1>4, <1>5, <1>6, <1>7 DEF Life!Open, StartSsh, Opened, Due, Leaving
<1>9. QED
  BY <1>8 DEF Life!Next

\* A start that fails closes it all the same (lib.rs 98-136).
LEMMA StartSshFailsOpens ==
  ASSUME StartSshFails
  PROVE  Life!Next
<1>1. UNCHANGED <<Opened, Due, Leaving>>
  BY DEF Opened, Due, DueOf, Pending, Leaving, StartSshFails
<1>2. Life!SayClosedIfOpen
  BY DEF StartSshFails, CloseInstalled, Emit, Life!SayClosedIfOpen, Life!Say
<1>3. Life!OpenFails
  BY <1>1, <1>2 DEF Life!OpenFails, StartSshFails, Opened, Due, Leaving
<1>4. QED
  BY <1>3 DEF Life!Next

\* close_ssh never closes another session (lib.rs 267-279).
LEMMA CloseSshCloses ==
  ASSUME NEW g \in Gen, CloseSsh(g)
  PROVE  Life!Next
<1>1. UNCHANGED <<Opened, Due, Leaving>>
  BY DEF Opened, Due, DueOf, Pending, Leaving, CloseSsh
<1>2. Life!Close(g)
  BY <1>1 DEF Life!Close, Life!Say, CloseSsh, CloseIsStale, Emit, Opened, Due, Leaving
<1>3. QED
  BY <1>2 DEF Life!Next

\* The check of emit_if_current decides, or drops what it found (lib.rs 288-294).
LEMMA CheckCurrentDecides ==
  ASSUME LInv, NEW g \in Gen, CheckCurrent(g), IInv'
  PROVE  [Life!Next]_(Life!lives)
<1> DEFINE k == Pending(g)
<1>1. \A h \in Gen \ {g} : DueOf(h)' = DueOf(h)
  <2>1. \A h \in Gen \ {g} : reader'[h] = reader[h] /\ chunk'[h] = chunk[h]
    BY DEF CheckCurrent, LInv, IInv, TypeOK
  <2>2. QED
    BY <2>1 DEF DueOf, Pending
<1>2. CASE session = g
  <2>1. chunk'[g] = chunk[g] /\ reader'[g] = "checked" /\ DueOf(g) = {}
    BY <1>2 DEF CheckCurrent, DueOf, LInv, IInv, TypeOK
  <2>2. DueOf(g)' = {k}
    BY <2>1 DEF DueOf, Pending
  <2>3. Due' = [Due EXCEPT ![g] = {k}] /\ Due[g] = {}
    BY <1>1, <2>1, <2>2 DEF Due
  <2>4. UNCHANGED <<Opened, Leaving>>
    BY <1>2 DEF CheckCurrent, Opened, Leaving, LInv, IInv, TypeOK
  <2>5. k = "authenticated" => k \notin told[g]
    BY DEF Pending, LInv, IInv, AnnouncedOnce
  <2>6. Life!Decide(g, k)
    BY <1>2, <2>3, <2>4, <2>5 DEF Life!Decide, CheckCurrent, Opened, Due, Leaving
  <2>7. QED
    BY <2>6 DEF Life!Next, Pending
<1>3. CASE session # g
  <2>1. DueOf(g)' = DueOf(g)
    BY <1>3 DEF CheckCurrent, DueOf
  <2>2. UNCHANGED <<Opened, Due, Leaving>>
    BY <1>1, <1>3, <2>1 DEF CheckCurrent, Opened, Due, Leaving
  <2>3. QED
    BY <2>2, LifeStutters DEF CheckCurrent
<1>4. QED
  BY <1>2, <1>3

\* emit_if_current emits what it decided, late perhaps (lib.rs 295).
LEMMA PublishTells ==
  ASSUME LInv, NEW g \in Gen, Publish(g), IInv'
  PROVE  Life!Next
<1> DEFINE k == Pending(g)
<1>1. \A h \in Gen \ {g} : DueOf(h)' = DueOf(h)
  BY DEF Publish, DueOf, Pending, LInv, IInv, TypeOK
<1>2. DueOf(g) = {k} /\ DueOf(g)' = {}
  BY DEF Publish, DueOf, LInv, IInv, TypeOK
<1>3. Due' = [Due EXCEPT ![g] = {}] /\ Due[g] = {k}
  BY <1>1, <1>2 DEF Due
<1>4. UNCHANGED <<Opened, Leaving>>
  BY DEF Publish, Opened, Leaving, LInv, IInv, TypeOK
<1>5. Life!Tell(g, k)
  BY <1>3, <1>4 DEF Life!Tell, Life!Say, Publish, Emit, Opened, Due, Leaving
<1>6. QED
  BY <1>5 DEF Life!Next, Pending

\* The thread that takes the installed session owes the report of its end; one
\* that comes too late owes nothing (lib.rs 187-190).
LEMMA ReaderEofLeaves ==
  ASSUME LInv, NEW g \in Gen, ReaderEof(g), IInv'
  PROVE  [Life!Next]_(Life!lives)
<1>1. \A h \in Gen : DueOf(h)' = DueOf(h)
  BY DEF ReaderEof, DueOf, Pending, LInv, IInv, TypeOK
<1>2. Due' = Due
  BY <1>1 DEF Due
<1>3. Opened' = Opened
  BY DEF ReaderEof, Opened, LInv, IInv, TypeOK
<1>4. CASE session = g
  <2>1. Leaving' = Leaving \cup {g}
    BY <1>4 DEF ReaderEof, Leaving, LInv, IInv, TypeOK
  <2>2. Life!Leave(g)
    BY <1>2, <1>3, <1>4, <2>1 DEF Life!Leave, ReaderEof, TakeCurrent, Opened, Due, Leaving
  <2>3. QED
    BY <2>2 DEF Life!Next
<1>5. CASE session # g
  <2>1. Leaving' = Leaving
    BY <1>5 DEF ReaderEof, Leaving, LInv, IInv, TypeOK
  <2>2. QED
    BY <1>2, <1>3, <1>5, <2>1, LifeStutters DEF ReaderEof, TakeCurrent
<1>6. QED
  BY <1>4, <1>5

\* The same of the timer (lib.rs 203-204).
LEMMA TimerTakeLeaves ==
  ASSUME LInv, NEW g \in Gen, TimerTake(g), IInv'
  PROVE  [Life!Next]_(Life!lives)
<1>1. UNCHANGED <<Opened, Due>>
  BY DEF TimerTake, Opened, Due, DueOf, Pending
<1>2. CASE session = g
  <2>1. Leaving' = Leaving \cup {g}
    BY <1>2 DEF TimerTake, Leaving, LInv, IInv, TypeOK
  <2>2. Life!Leave(g)
    BY <1>1, <1>2, <2>1 DEF Life!Leave, TimerTake, TakeCurrent, Opened, Due, Leaving
  <2>3. QED
    BY <2>2 DEF Life!Next
<1>3. CASE session # g
  <2>1. Leaving' = Leaving
    BY <1>3 DEF TimerTake, Leaving, LInv, IInv, TypeOK
  <2>2. QED
    BY <1>1, <1>3, <2>1, LifeStutters DEF TimerTake, TakeCurrent
<1>4. QED
  BY <1>2, <1>3

\* The reader meets its obligation once, and says closed only of a session whose
\* authentication it announced (lib.rs 191-196).
LEMMA ReaderReports ==
  ASSUME LInv, NEW g \in Gen, ReaderReport(g), IInv'
  PROVE  Life!Next
<1> PICK k \in {"closed", "failed"} : k = IF authed[g] THEN "closed" ELSE "failed"
  BY DEF LInv, IInv, TypeOK
<1>1. \A h \in Gen : DueOf(h)' = DueOf(h)
  BY DEF ReaderReport, DueOf, Pending, LInv, IInv, TypeOK
<1>2. Due' = Due
  BY <1>1 DEF Due
<1>3. Opened' = Opened
  BY DEF ReaderReport, Opened, LInv, IInv, TypeOK
<1>4. g \in Leaving /\ Leaving' = Leaving \ {g}
  BY DEF ReaderReport, Leaving, LInv, IInv, TypeOK, TakenOnce
<1>5. k = "closed" => "authenticated" \in told[g]
  BY DEF ReaderReport, LInv, SentinelIsAnnounced
<1>6. Life!Report(g, k)
  BY <1>2, <1>3, <1>4, <1>5 DEF Life!Report, Life!Say, ReaderReport, Emit, Opened, Due, Leaving
<1>7. QED
  BY <1>6 DEF Life!Next

\* So does the timer: reader and timer never owe the same report (lib.rs 205-206).
LEMMA TimerReports ==
  ASSUME LInv, NEW g \in Gen, TimerKill(g), IInv'
  PROVE  Life!Next
<1>1. UNCHANGED <<Opened, Due>>
  BY DEF TimerKill, Opened, Due, DueOf, Pending
<1>2. g \in Leaving /\ Leaving' = Leaving \ {g}
  BY DEF TimerKill, Leaving, LInv, IInv, TypeOK, TakenOnce
<1>3. Life!Report(g, "failed")
  BY <1>1, <1>2 DEF Life!Report, Life!Say, TimerKill, Emit, Opened, Due, Leaving
<1>4. QED
  BY <1>3 DEF Life!Next

\* Parsing, waiting and exiting are not seen from outside.
LEMMA OthersStutter ==
  ASSUME LInv, NEW g \in Gen, IInv',
         ReadChunk(g) \/ TimerDisarm(g) \/ TimerExpire(g) \/ ChildExit(g)
  PROVE  UNCHANGED Life!lives
<1>1. \A h \in Gen : DueOf(h)' = DueOf(h)
  BY DEF ReadChunk, TimerDisarm, TimerExpire, ChildExit, threads, DueOf, Pending, LInv, IInv, TypeOK
<1>2. Due' = Due
  BY <1>1 DEF Due
<1>3. UNCHANGED <<Opened, Leaving>>
  BY DEF ReadChunk, TimerDisarm, TimerExpire, ChildExit, threads, Opened, Leaving, LInv, IInv, TypeOK
<1>4. QED
  BY <1>2, <1>3, LifeStutters DEF ReadChunk, TimerDisarm, TimerExpire, ChildExit, threads

\* The webview hears what was said first.
LEMMA DeliverIsHeard ==
  ASSUME Deliver
  PROVE  Life!Next
<1>1. UNCHANGED <<Opened, Due, Leaving>>
  BY DEF Deliver, threads, Opened, Due, DueOf, Pending, Leaving
<1>2. Life!Hear
  BY <1>1 DEF Life!Hear, Deliver, Opened, Due, Leaving
<1>3. QED
  BY <1>2 DEF Life!Next

\* Every step of the session manager is a step of the abstract life or a stutter.
LEMMA LifeStep == LInv /\ [Next]_vars /\ IInv' => [Life!Next]_(Life!lives)
<1> SUFFICES ASSUME LInv, [Next]_vars, IInv' PROVE [Life!Next]_(Life!lives)
  OBVIOUS
<1>1. ASSUME NEW g \in Gen, Thread(g) \/ ChildExit(g) PROVE [Life!Next]_(Life!lives)
  BY <1>1, CheckCurrentDecides, PublishTells, ReaderEofLeaves, TimerTakeLeaves, ReaderReports,
     TimerReports, OthersStutter DEF Thread
<1>2. CASE Command
  BY <1>2, StartSshOpens, StartSshFailsOpens, CloseSshCloses DEF Command
<1>3. CASE Deliver
  BY <1>3, DeliverIsHeard
<1>4. CASE UNCHANGED vars
  <2>1. UNCHANGED <<Opened, Due, Leaving>>
    BY <1>4 DEF vars, threads, Opened, Due, DueOf, Pending, Leaving
  <2>2. QED
    BY <1>4, <2>1, LifeStutters DEF vars
<1>5. QED
  BY <1>1, <1>2, <1>3, <1>4 DEF Next

\* The application starts with no session, open or owed.
LEMMA LifeBegins == Init => Life!Init
<1> SUFFICES ASSUME Init PROVE Life!Init
  OBVIOUS
<1>1. Opened = {} /\ Leaving = {}
  BY DEF Init, Opened, Leaving
<1>2. Due = [g \in Gen |-> {}]
  BY DEF Init, Due, DueOf
<1>3. QED
  BY <1>1, <1>2 DEF Init, Life!Init, Opened, Due, Leaving

\* Commands, readers, timers and clients of any number of sessions keep what is
\* promised about their lives (lib.rs 98, 187-207, 267-296).
THEOREM SessionsLive == Spec => ImplementsLifecycle
<1>1. Init => LInv
  BY InitEstablishes DEF LInv, Init, SentinelIsAnnounced
<1>2. LInv /\ [Next]_vars => LInv'
  BY StepPreserves, SentinelStep DEF LInv
<1>3. Spec => []LInv
  BY <1>1, <1>2, PTL DEF Spec
<1>4. LInv => IInv
  BY DEF LInv
<1>5. QED
  BY <1>3, <1>4, LifeBegins, LifeStep, PTL DEF Spec, ImplementsLifecycle, Life!LifeSpec
=============================================================================
