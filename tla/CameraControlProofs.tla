------------------------ MODULE CameraControlProofs ------------------------
(***************************************************************************)
(* The camera and its tunnels, for any sessions, enclaves, runs and        *)
(* streams, and any bounds.                                                *)
(*                                                                         *)
(* TypeOK comes first; the other parts of the inductive invariant IInv     *)
(* rest on it and on Graceful, which says that whoever starts to stop a    *)
(* view has nothing else to stop.                                          *)
(***************************************************************************)
EXTENDS CameraControl, FiniteSetTheorems, TLAPS

\* What camControl.mu guards, by type.
CameraType ==
  /\ on \in [Views -> BOOLEAN]
  /\ pending \in Graces \cup {0} /\ gen \in Graces \cup {0}
  /\ started \subseteq Captures
  /\ mustStop \in [Actors -> SUBSET Captures]
  /\ overtaken \subseteq Graces

\* What manager.mu guards, and where the runs are, by type.
RunsType ==
  /\ tunnels \in [Sessions -> Runs \cup {None}]
  /\ pc \in [Runs -> Locations]
  /\ sess \in [Runs -> Sessions \cup {None}] /\ origin \in [Runs -> Origins \cup {None}]
  /\ ticket \in [Runs -> Tickets \cup {0}] /\ dialed \in [Runs -> Tickets \cup {0}]
  /\ cancelled \in [Runs -> BOOLEAN] /\ ended \in [Runs -> BOOLEAN]
  /\ reset \in [Runs -> BOOLEAN]
  /\ sent \in Tickets \cup {0}
  /\ newest \in [Sessions -> Tickets \cup {0}]

\* The streams and whom they come over, by type.
TunnelType ==
  /\ backlog \in Runs \cup {None}
  /\ streams \in [Streams -> {"none", "accepted", "relaying", "closed"}]
  /\ carrier \in [Streams -> Runs \cup {None}]

\* The rest, by type.
OtherType ==
  /\ main \in {"up", "closed", "dark"}
  /\ allowed \in [Views -> BOOLEAN] /\ fired \subseteq Graces
  /\ offer \in [Views -> 1 .. MaxOffers]
  /\ waiting \in Views \cup {"none"} /\ building \in Views \cup {"none"}
  /\ woken \in Nat /\ switches \in 0 .. MaxSwitches

\* One session has an entry, and its run is that session's; a run no entry
\* names has been ended.
Entries ==
  /\ \A s \in Sessions : tunnels[s] # None => pc[tunnels[s]] # "none" /\ sess[tunnels[s]] = s
  /\ \A s, t \in Sessions : tunnels[s] # None /\ tunnels[t] # None => s = t
  /\ \A r \in Begun : sess[r] \in Sessions /\ (~cancelled[r] => tunnels[sess[r]] = r)

\* A grace stops the camera at most once, main stops it last, and a grace
\* that runs has not been overtaken by a stream.
Graceful ==
  /\ pending <= gen
  /\ \A g \in Graces : g = pending \/ g > gen => mustStop[GraceOf(g)] = {}
  /\ main # "dark" => mustStop[Main] = {}
  /\ \A g \in overtaken : g <= gen /\ g # pending

IInv ==
  /\ TypeOK /\ Entries /\ HoldsNewest /\ BacklogLives
  /\ Graceful /\ CaptureAccounted /\ SwitchedOffIsOff /\ WaitingIsWoken

-----------------------------------------------------------------------------
(* Types. *)

\* The type invariant is its four parts.
LEMMA TypeParts == TypeOK <=> CameraType /\ RunsType /\ TunnelType /\ OtherType
  BY DEF TypeOK, CameraType, RunsType, TunnelType, OtherType

\* Turning views off keeps what camControl.mu guards within its type.
LEMMA StopSomeType ==
  ASSUME TypeOK, NEW a \in Actors, NEW views, StopSome(a, views), pending' \in Graces \cup {0}
  PROVE  CameraType'
<1>1. {<<v, offer[v]>> : v \in views \cap Lit} \subseteq Captures
  BY DEF TypeOK, Lit, Captures
<1> QED
  BY <1>1 DEF TypeOK, CameraType, StopSome

\* So does off, at once or by a grace.
LEMMA OffType ==
  ASSUME TypeOK, NEW a \in Actors, NEW later, Off(a, later)
  PROVE  CameraType'
<1>1. CASE UNCHANGED camera
  BY <1>1 DEF camera, TypeOK, CameraType
<1>2. CASE StopSome(a, Lit) /\ pending' = 0
  BY <1>2, StopSomeType
<1>3. CASE /\ gen < MaxGraces /\ gen' = gen + 1 /\ pending' = gen'
           /\ UNCHANGED <<on, started, mustStop, overtaken>>
  <2>1. gen' \in Graces
    BY <1>3, CameraAssumption DEF TypeOK, Graces
  <2> QED
    BY <1>3, <2>1 DEF TypeOK, CameraType
<1> QED
  BY <1>1, <1>2, <1>3 DEF Off

\* Every variable starts within its type.
LEMMA InitType == Init => TypeOK
  BY CameraAssumption DEF Init, TypeOK, Locations

\* And every action keeps each within its type.
LEMMA TypeStep == TypeOK /\ [Next]_vars => TypeOK'
<1> SUFFICES ASSUME TypeOK, [Next]_vars
             PROVE  CameraType' /\ RunsType' /\ TunnelType' /\ OtherType'
  BY PTL, TypeParts
<1> USE DEF runs, tunnel, camera, source
<1>0. CameraType /\ RunsType /\ TunnelType /\ OtherType
  BY TypeParts
<1>1. ASSUME NEW s \in Sessions, NEW o \in Origins, OnDial(s, o)
      PROVE  CameraType' /\ RunsType' /\ TunnelType' /\ OtherType'
  <2>1. sent' \in Tickets
    BY <1>0, <1>1, CameraAssumption DEF RunsType, OnDial, Tickets
  <2>2. RunsType'
    <3>1. CASE Keeps(s, o)
      BY <1>0, <1>1, <2>1, <3>1 DEF RunsType, OnDial, Take
    <3>2. CASE ~Keeps(s, o)
      <4>1. PICK r \in Runs \ Begun :
              /\ cancelled' = [q \in Runs |-> cancelled[q] \/ q \in Replaced(s)]
              /\ tunnels' = [t \in Sessions |-> IF t = s THEN r ELSE None]
              /\ pc' = [pc EXCEPT ![r] = "top"]
              /\ sess' = [sess EXCEPT ![r] = s]
              /\ origin' = [origin EXCEPT ![r] = o]
              /\ ticket' = [ticket EXCEPT ![r] = sent']
        BY <1>1, <3>2 DEF OnDial
      <4>2. cancelled' \in [Runs -> BOOLEAN]
        BY <4>1
      <4>3. /\ tunnels' \in [Sessions -> Runs \cup {None}]
            /\ pc' \in [Runs -> Locations]
            /\ sess' \in [Runs -> Sessions \cup {None}]
            /\ origin' \in [Runs -> Origins \cup {None}]
            /\ ticket' \in [Runs -> Tickets \cup {0}]
        BY <1>0, <2>1, <4>1 DEF RunsType, Locations
      <4>4. newest' \in [Sessions -> Tickets \cup {0}]
        BY <1>0, <1>1, <2>1 DEF RunsType, OnDial
      <4> QED
        BY <1>0, <1>1, <2>1, <4>2, <4>3, <4>4 DEF RunsType, OnDial
    <3> QED
      BY <3>1, <3>2
  <2> QED
    BY <1>0, <1>1, <2>2 DEF OnDial, CameraType, TunnelType, OtherType
<1>2. ASSUME NEW s \in Sessions, OnClear(s)
      PROVE  CameraType' /\ RunsType' /\ TunnelType' /\ OtherType'
  BY <1>0, <1>2 DEF OnClear, CameraType, RunsType, TunnelType, OtherType
<1>3. ASSUME NEW r \in Runs, Run(r)
      PROVE  CameraType' /\ RunsType' /\ TunnelType' /\ OtherType'
  <2>1. CASE NewAttempt(r) \/ DialReturns(r) \/ AfterTunnel(r)
    BY <1>0, <2>1 DEF NewAttempt, DialReturns, AfterTunnel, Move, Locations,
                      CameraType, RunsType, TunnelType, OtherType
  <2>2. CASE Attach(r) \/ Detach(r)
    BY <1>0, <2>2 DEF Attach, Detach, Move, Locations,
                      CameraType, RunsType, TunnelType, OtherType
  <2>4. ASSUME NEW closed \in BOOLEAN, ServeReturns(r, closed)
        PROVE  CameraType' /\ RunsType' /\ TunnelType' /\ OtherType'
    <3>1. carrier' \in [Streams -> Runs \cup {None}]
      BY <1>0, <2>4 DEF ServeReturns, TunnelType
    <3>2. reset' \in [Runs -> BOOLEAN] /\ pc' \in [Runs -> Locations]
      BY <1>0, <2>4 DEF ServeReturns, Move, Locations, RunsType
    <3> QED
      BY <1>0, <2>4, <3>1, <3>2 DEF ServeReturns, CameraType, RunsType, TunnelType, OtherType
  <2>3. CASE TunnelOff(r) \/ FinalOff(r)
    <3>1. RunOf(r) \in Actors
      BY DEF Actors
    <3>2. CameraType'
      BY <2>3, <3>1, OffType DEF TunnelOff, FinalOff
    <3> QED
      BY <1>0, <2>3, <3>2 DEF TunnelOff, FinalOff, Move, Locations,
                              RunsType, TunnelType, OtherType
  <2> QED
    BY <1>3, <2>1, <2>2, <2>3, <2>4 DEF Run
<1>4. ASSUME NEW s \in Streams, Enclave(s)
      PROVE  CameraType' /\ RunsType' /\ TunnelType' /\ OtherType'
  <2>1. CASE Open(s) \/ CloseStream(s)
    BY <1>0, <2>1 DEF Open, CloseStream, CameraType, RunsType, TunnelType, OtherType
  <2>2. CASE DialLocal(s)
    <3>1. <<"body", offer["body"]>> \in Captures
      BY <1>0, CameraAssumption DEF OtherType, Captures
    <3>2. CameraType'
      <4>1. on' \in [Views -> BOOLEAN]
        BY <1>0, <2>2 DEF DialLocal, CameraType
      <4>2. started' \subseteq Captures /\ mustStop' = mustStop /\ gen' = gen
        BY <1>0, <2>2, <3>1 DEF DialLocal, CameraType
      <4>3. pending' \in Graces \cup {0} /\ overtaken' \subseteq Graces
        BY <1>0, <2>2 DEF DialLocal, CameraType
      <4> QED
        BY <1>0, <4>1, <4>2, <4>3 DEF CameraType
    <3>3. streams' \in [Streams -> {"none", "accepted", "relaying", "closed"}]
          /\ carrier' \in [Streams -> Runs \cup {None}]
      BY <1>0, <2>2 DEF DialLocal, TunnelType
    <3> QED
      BY <1>0, <2>2, <3>2, <3>3 DEF DialLocal, RunsType, TunnelType, OtherType
  <2>3. CASE Describe(s)
    <3>1. <<"face", offer["face"]>> \in Captures
      BY <1>0, <2>3 DEF Describe, OtherType, Captures
    <3> QED
      BY <1>0, <2>3, <3>1 DEF Describe, CameraType, RunsType, TunnelType, OtherType
  <2> QED
    BY <1>4, <2>1, <2>2, <2>3 DEF Enclave
<1>5. ASSUME NEW v \in Views, NEW b \in BOOLEAN, SetEnabled(v, b)
      PROVE  CameraType' /\ RunsType' /\ TunnelType' /\ OtherType'
  <2>1. CameraType'
    <3>1. CASE UNCHANGED camera
      BY <1>0, <3>1 DEF CameraType
    <3>2. CASE StopSome(Window, {v}) /\ pending' \in {0, pending}
      BY <1>0, <3>2, StopSomeType DEF CameraType, Actors
    <3> QED
      BY <1>5, <3>1, <3>2 DEF SetEnabled
  <2> QED
    BY <1>0, <1>5, <2>1, CameraAssumption
       DEF SetEnabled, WindowReads, RunsType, TunnelType, OtherType
<1>6. ASSUME NEW v \in Views, SetSource(v)
      PROVE  CameraType' /\ RunsType' /\ TunnelType' /\ OtherType'
  BY <1>0, <1>6, CameraAssumption
     DEF SetSource, WindowReads, CameraType, RunsType, TunnelType, OtherType
<1>7. ASSUME Background
      PROVE  CameraType' /\ RunsType' /\ TunnelType' /\ OtherType'
  <2>1. CASE GraceFires
    BY <1>0, <2>1 DEF GraceFires, CameraType, RunsType, TunnelType, OtherType
  <2>2. ASSUME NEW g \in Graces, GraceOver(g)
        PROVE  CameraType' /\ RunsType' /\ TunnelType' /\ OtherType'
    <3>1. CameraType'
      <4>1. CASE UNCHANGED camera
        BY <1>0, <4>1 DEF CameraType
      <4>2. CASE StopSome(GraceOf(g), Lit) /\ pending' = 0
        BY <4>2, StopSomeType DEF Actors
      <4> QED
        BY <2>2, <4>1, <4>2 DEF GraceOver
    <3> QED
      BY <1>0, <2>2, <3>1 DEF GraceOver, RunsType, TunnelType, OtherType
  <2>3. ASSUME NEW a \in Actors, StopCapture(a)
        PROVE  CameraType' /\ RunsType' /\ TunnelType' /\ OtherType'
    BY <1>0, <2>3 DEF StopCapture, CameraType, RunsType, TunnelType, OtherType
  <2>4. CASE ApplyPending
    BY <1>0, <2>4 DEF ApplyPending, CameraType, RunsType, TunnelType, OtherType
  <2>5. CASE SetOffer
    BY <1>0, <2>5, CameraAssumption DEF SetOffer, CameraType, RunsType, TunnelType, OtherType
  <2> QED
    BY <1>7, <2>1, <2>2, <2>3, <2>4, <2>5 DEF Background
<1>8. ASSUME Exit
      PROVE  CameraType' /\ RunsType' /\ TunnelType' /\ OtherType'
  <2>1. CASE CloseAll
    BY <1>0, <2>1 DEF CloseAll, CameraType, RunsType, TunnelType, OtherType
  <2>2. CASE MainOff
    <3>1. CameraType'
      BY <2>2, OffType DEF MainOff, Actors
    <3> QED
      BY <1>0, <2>2, <3>1 DEF MainOff, RunsType, TunnelType, OtherType
  <2> QED
    BY <1>8, <2>1, <2>2 DEF Exit
<1>9. CASE UNCHANGED vars
  BY <1>0, <1>9 DEF vars, CameraType, RunsType, TunnelType, OtherType
<1> QED
  BY <1>1, <1>2, <1>3, <1>4, <1>5, <1>6, <1>7, <1>8, <1>9
     DEF Next, Rendezvous, WindowCommand

\* Every variable always has its type.
THEOREM CameraTyped == Spec => []TypeOK
  BY InitType, TypeStep, PTL DEF Spec

-----------------------------------------------------------------------------
(* One session at a time. *)

\* What a step does to the sessions' entries: a dial, the end of a session,
\* the exit, or nothing but moving runs that have begun.
LEMMA RunsSteps ==
  ASSUME TypeOK, [Next]_vars
  PROVE  \/ \E s \in Sessions, o \in Origins : OnDial(s, o)
         \/ \E s \in Sessions : OnClear(s)
         \/ CloseAll
         \/ /\ UNCHANGED <<tunnels, sess, ticket, newest, cancelled>>
            /\ Begun' = Begun
<1> USE DEF runs
<1>1. ASSUME NEW r \in Runs, Run(r)
      PROVE  UNCHANGED <<tunnels, sess, ticket, newest, cancelled>> /\ Begun' = Begun
  <2>1. UNCHANGED <<tunnels, sess, ticket, newest, cancelled>>
    BY <1>1 DEF Run, NewAttempt, DialReturns, Attach, ServeReturns, Detach, TunnelOff,
                AfterTunnel, FinalOff
  <2>2. pc[r] # "none" /\ \E l \in Locations \ {"none"} : pc' = [pc EXCEPT ![r] = l]
    BY <1>1 DEF Run, NewAttempt, DialReturns, Attach, ServeReturns, Detach, TunnelOff,
                AfterTunnel, FinalOff, At, Move, Locations
  <2> QED
    BY <2>1, <2>2 DEF TypeOK, Begun
<1>2. ASSUME UNCHANGED runs
      PROVE  UNCHANGED <<tunnels, sess, ticket, newest, cancelled>> /\ Begun' = Begun
  BY <1>2 DEF Begun
<1>3. CASE \E s \in Streams : Enclave(s)
  BY <1>2, <1>3 DEF Enclave, Open, DialLocal, Describe, CloseStream
<1>4. CASE WindowCommand
  BY <1>2, <1>4 DEF WindowCommand, SetEnabled, SetSource
<1>5. CASE Background
  BY <1>2, <1>5 DEF Background, GraceFires, GraceOver, StopCapture, ApplyPending, SetOffer
<1>6. CASE MainOff
  BY <1>2, <1>6 DEF MainOff
<1>7. CASE UNCHANGED vars
  BY <1>2, <1>7 DEF vars
<1> QED
  BY <1>1, <1>3, <1>4, <1>5, <1>6, <1>7 DEF Next, Rendezvous, Exit

\* A run that has begun has been ended, or an entry names it.
LEMMA EndedOrEntered ==
  ASSUME TypeOK, Entries, NEW r \in Begun
  PROVE  r \in Runs /\ (cancelled[r] \/ r \in Entered)
<1>1. r \in Runs /\ sess[r] \in Sessions /\ (~cancelled[r] => tunnels[sess[r]] = r)
  BY DEF Entries, Begun
<1>2. r # None
  BY <1>1, CameraAssumption
<1> QED
  BY <1>1, <1>2 DEF Entered

\* A run no entry names has been ended, and one session has an entry.
LEMMA EntriesStep == TypeOK /\ Entries /\ [Next]_vars => Entries'
<1> SUFFICES ASSUME TypeOK, Entries, [Next]_vars
             PROVE  Entries'
  OBVIOUS
<1>1. ASSUME NEW s \in Sessions, NEW o \in Origins, OnDial(s, o)
      PROVE  Entries'
  <2>1. CASE Keeps(s, o)
    BY <1>1, <2>1 DEF OnDial, Entries, Begun
  <2>2. CASE ~Keeps(s, o)
    <3>1. PICK r \in Runs \ Begun :
            /\ cancelled' = [q \in Runs |-> cancelled[q] \/ q \in Replaced(s)]
            /\ tunnels' = [t \in Sessions |-> IF t = s THEN r ELSE None]
            /\ pc' = [pc EXCEPT ![r] = "top"]
            /\ sess' = [sess EXCEPT ![r] = s]
      BY <1>1, <2>2 DEF OnDial
    <3>2. \A q \in Begun : cancelled'[q]
      BY <3>1, EndedOrEntered, Zenon DEF Replaced
    <3>3. r # None /\ pc'[r] = "top" /\ sess'[r] = s /\ tunnels'[s] = r
      BY <3>1, CameraAssumption DEF TypeOK
    <3>4. Begun' = Begun \cup {r} /\ \A q \in Begun : sess'[q] = sess[q]
      BY <3>1 DEF TypeOK, Begun
    <3> QED
      BY <3>1, <3>2, <3>3, <3>4 DEF Entries
  <2> QED
    BY <2>1, <2>2
<1>2. ASSUME NEW s \in Sessions, OnClear(s)
      PROVE  Entries'
  BY <1>2 DEF OnClear, TypeOK, Entries, Begun
<1>3. CASE CloseAll
  <2>1. \A q \in Begun : cancelled'[q]
    BY <1>3, EndedOrEntered, Zenon DEF CloseAll
  <2> QED
    BY <1>3, <2>1 DEF CloseAll, TypeOK, Entries, Begun
<1>4. CASE UNCHANGED <<tunnels, sess, ticket, newest, cancelled>> /\ Begun' = Begun
  <2>1. \A s \in Sessions : tunnels[s] # None => tunnels[s] \in Begun
    BY DEF TypeOK, Entries, Begun
  <2>2. \A s \in Sessions : tunnels[s] # None => pc'[tunnels[s]] # "none"
    BY <1>4, <2>1 DEF Begun
  <2> QED
    BY <1>4, <2>2 DEF Entries
<1> QED
  BY <1>1, <1>2, <1>3, <1>4, RunsSteps

\* The live run of a session carries the last ticket sent for it.
LEMMA HoldsNewestStep == TypeOK /\ Entries /\ HoldsNewest /\ [Next]_vars => HoldsNewest'
<1> SUFFICES ASSUME TypeOK, Entries, HoldsNewest, [Next]_vars,
                    NEW r \in Begun', ~cancelled'[r]
             PROVE  ticket'[r] = newest'[sess'[r]]
  BY DEF HoldsNewest
<1>1. ASSUME NEW s \in Sessions, NEW o \in Origins, OnDial(s, o)
      PROVE  ticket'[r] = newest'[sess'[r]]
  <2>1. CASE Keeps(s, o)
    <3>1. r \in Begun /\ ~cancelled[r] /\ tunnels[sess[r]] = r /\ sess[r] \in Sessions
      BY <1>1, <2>1 DEF OnDial, Entries, Begun
    <3>2. sess[r] = s => r = tunnels[s]
      BY <3>1
    <3>3. r = tunnels[s] => sess[r] = s
      BY <2>1 DEF Keeps, Entries
    <3> QED
      BY <1>1, <2>1, <3>1, <3>2, <3>3 DEF OnDial, Take, TypeOK, HoldsNewest, Begun
  <2>2. CASE ~Keeps(s, o)
    <3>1. PICK q \in Runs \ Begun :
            /\ cancelled' = [p \in Runs |-> cancelled[p] \/ p \in Replaced(s)]
            /\ pc' = [pc EXCEPT ![q] = "top"]
            /\ sess' = [sess EXCEPT ![q] = s]
            /\ ticket' = [ticket EXCEPT ![q] = sent']
      BY <1>1, <2>2 DEF OnDial
    <3>2. \A p \in Begun : cancelled'[p]
      BY <3>1, EndedOrEntered, Zenon DEF Replaced
    <3>3. r = q
      BY <3>1, <3>2 DEF TypeOK, Begun
    <3> QED
      BY <1>1, <3>1, <3>3 DEF OnDial, TypeOK
  <2> QED
    BY <2>1, <2>2
<1>2. ASSUME NEW s \in Sessions, OnClear(s)
      PROVE  ticket'[r] = newest'[sess'[r]]
  BY <1>2 DEF OnClear, TypeOK, HoldsNewest, Begun
<1>3. CASE CloseAll
  BY <1>3 DEF CloseAll, TypeOK, HoldsNewest, Begun
<1>4. CASE UNCHANGED <<tunnels, sess, ticket, newest, cancelled>> /\ Begun' = Begun
  BY <1>4 DEF HoldsNewest
<1> QED
  BY <1>1, <1>2, <1>3, <1>4, RunsSteps

\* Two runs that may still attach would both be an entry's, so they are one.
LEMMA OneEntry == Entries => OneTunnel
<1> SUFFICES ASSUME Entries
             PROVE  OneTunnel
  OBVIOUS
<1> DEFINE L == {r \in Begun : ~cancelled[r] /\ ~Finished(r)}
<1>1. ASSUME NEW q \in L, NEW r \in L
      PROVE  q = r
  <2>1. /\ sess[q] \in Sessions /\ tunnels[sess[q]] = q
        /\ sess[r] \in Sessions /\ tunnels[sess[r]] = r
    BY <1>1 DEF Entries
  <2>2. q # None /\ r # None
    BY <1>1, CameraAssumption DEF Begun
  <2> QED
    BY <2>1, <2>2 DEF Entries
<1>2. CASE L = {}
  BY <1>2, FS_EmptySet DEF OneTunnel
<1>3. CASE L # {}
  <2>1. PICK r \in L : TRUE
    BY <1>3
  <2>2. L = {r}
    BY <1>1, <2>1
  <2> QED
    BY <2>2, FS_Singleton DEF OneTunnel
<1> QED
  BY <1>2, <1>3

\* The backlog is dropped by its own run before that run goes on.
LEMMA BacklogLivesStep == TypeOK /\ BacklogLives /\ [Next]_vars => BacklogLives'
<1> SUFFICES ASSUME TypeOK, BacklogLives, [Next]_vars, backlog' # None
             PROVE  pc'[backlog'] \in {"serve", "detach"}
  BY DEF BacklogLives
<1> USE DEF runs, tunnel
<1>1. ASSUME UNCHANGED <<pc, backlog>>
      PROVE  pc'[backlog'] \in {"serve", "detach"}
  BY <1>1 DEF BacklogLives
<1>2. ASSUME NEW s \in Sessions, NEW o \in Origins, OnDial(s, o)
      PROVE  pc'[backlog'] \in {"serve", "detach"}
  BY <1>2 DEF OnDial, TypeOK, BacklogLives, Begun
<1>3. ASSUME NEW r \in Runs, Run(r)
      PROVE  pc'[backlog'] \in {"serve", "detach"}
  BY <1>3 DEF Run, NewAttempt, DialReturns, Attach, ServeReturns, Detach, TunnelOff,
              AfterTunnel, FinalOff, At, Move, TypeOK, BacklogLives
<1>4. CASE \E s \in Sessions : OnClear(s)
  BY <1>1, <1>4 DEF OnClear
<1>5. CASE \E s \in Streams : Enclave(s)
  BY <1>1, <1>5 DEF Enclave, Open, DialLocal, Describe, CloseStream
<1>6. CASE WindowCommand
  BY <1>1, <1>6 DEF WindowCommand, SetEnabled, SetSource
<1>7. CASE Background
  BY <1>1, <1>7 DEF Background, GraceFires, GraceOver, StopCapture, ApplyPending, SetOffer
<1>8. CASE Exit
  BY <1>1, <1>8 DEF Exit, CloseAll, MainOff
<1>9. CASE UNCHANGED vars
  BY <1>1, <1>9 DEF vars
<1> QED
  BY <1>2, <1>3, <1>4, <1>5, <1>6, <1>7, <1>8, <1>9 DEF Next, Rendezvous

-----------------------------------------------------------------------------
(* The camera goes off through whoever has nothing else to stop. *)

\* What the callers of off leave alone, whichever way it goes.
LEMMA OffKeeps ==
  ASSUME NEW a, NEW later, Off(a, later)
  PROVE  \/ UNCHANGED <<on, started, mustStop>>
         \/ StopSome(a, Lit)
  BY DEF Off, camera

\* Nobody begins to stop anything but the caller whose step it is, and a
\* grace only while it is the one that runs.
LEMMA StopStarts ==
  ASSUME TypeOK, [Next]_vars, NEW a \in Actors, mustStop[a] = {}, mustStop'[a] # {}
  PROVE  \/ \E r \in Runs : a = RunOf(r)
         \/ \E g \in Graces : a = GraceOf(g) /\ GraceOver(g) /\ Counts(g)
         \/ a = Window
         \/ a = Main /\ MainOff
<1> USE DEF camera
<1>1. ASSUME NEW b \in Actors, NEW views, StopSome(b, views)
      PROVE  a = b
  BY <1>1 DEF StopSome, TypeOK
<1>2. ASSUME NEW r \in Runs, Run(r)
      PROVE  a = RunOf(r)
  <2>1. TunnelOff(r) \/ FinalOff(r)
    BY <1>2 DEF Run, NewAttempt, DialReturns, Attach, ServeReturns, Detach, AfterTunnel
  <2>2. StopSome(RunOf(r), Lit)
    BY <2>1, OffKeeps DEF TunnelOff, FinalOff
  <2> QED
    BY <1>1, <2>2 DEF Actors
<1>3. CASE Rendezvous
  BY <1>3 DEF Rendezvous, OnDial, OnClear
<1>4. CASE \E s \in Streams : Enclave(s)
  BY <1>4 DEF Enclave, Open, DialLocal, Describe, CloseStream
<1>5. CASE WindowCommand
  <2>1. \E v : StopSome(Window, {v})
    BY <1>5 DEF WindowCommand, SetEnabled, SetSource
  <2> QED
    BY <1>1, <2>1 DEF Actors
<1>6. CASE Background
  <2>1. CASE GraceFires \/ ApplyPending \/ SetOffer
    BY <2>1 DEF GraceFires, ApplyPending, SetOffer
  <2>2. CASE \E b \in Actors : StopCapture(b)
    BY <2>2 DEF StopCapture, TypeOK
  <2>3. ASSUME NEW g \in Graces, GraceOver(g)
        PROVE  a = GraceOf(g) /\ Counts(g)
    <3>1. StopSome(GraceOf(g), Lit) /\ Counts(g)
      BY <2>3 DEF GraceOver
    <3> QED
      BY <1>1, <3>1 DEF Actors
  <2> QED
    BY <1>6, <2>1, <2>2, <2>3 DEF Background
<1>7. CASE Exit
  <2>1. MainOff
    BY <1>7 DEF Exit, CloseAll
  <2>2. StopSome(Main, Lit)
    BY <2>1, OffKeeps DEF MainOff
  <2> QED
    BY <1>1, <2>1, <2>2 DEF Actors
<1>8. CASE UNCHANGED vars
  BY <1>8 DEF vars
<1> QED
  BY <1>2, <1>3, <1>4, <1>5, <1>6, <1>7, <1>8 DEF Next

\* A grace begins to stop the camera once, main last, and a stream overtakes
\* the grace that runs.
LEMMA GracefulStep == TypeOK /\ Graceful /\ [Next]_vars => Graceful'
<1> SUFFICES ASSUME TypeOK, Graceful, [Next]_vars
             PROVE  Graceful'
  OBVIOUS
<1> DEFINE Kept == pending' = pending /\ gen' = gen /\ overtaken' = overtaken
           Dropped == pending' = 0 /\ gen' = gen /\ overtaken' = overtaken
           Begins == gen' = gen + 1 /\ pending' = gen' /\ overtaken' = overtaken
           Opened == pending' = 0 /\ gen' = gen
                     /\ overtaken' = overtaken \cup (Graces \cap (1 .. gen))
<1>1. Kept \/ Dropped \/ Begins \/ Opened
  <2> USE DEF camera
  <2>1. ASSUME NEW r \in Runs, Run(r)
        PROVE  Kept \/ Dropped \/ Begins
    BY <2>1 DEF Run, NewAttempt, DialReturns, Attach, ServeReturns, Detach, TunnelOff,
                AfterTunnel, FinalOff, Off, StopSome
  <2>2. CASE Rendezvous
    BY <2>2 DEF Rendezvous, OnDial, OnClear
  <2>3. CASE \E s \in Streams : Enclave(s)
    BY <2>3 DEF Enclave, Open, DialLocal, Describe, CloseStream
  <2>4. CASE WindowCommand
    BY <2>4 DEF WindowCommand, SetEnabled, SetSource, StopSome
  <2>5. CASE Background
    BY <2>5 DEF Background, GraceFires, GraceOver, StopCapture, ApplyPending, SetOffer, StopSome
  <2>6. CASE Exit
    BY <2>6 DEF Exit, CloseAll, MainOff, Off, StopSome
  <2>7. CASE UNCHANGED vars
    BY <2>7 DEF vars
  <2> QED
    BY <2>1, <2>2, <2>3, <2>4, <2>5, <2>6, <2>7 DEF Next
<1>2. pending' <= gen' /\ \A g \in overtaken' : g <= gen' /\ g # pending'
  <2>0. gen \in Nat /\ pending \in Nat /\ overtaken \subseteq Nat \ {0}
    BY CameraAssumption DEF TypeOK, Graces
  <2>1. CASE Kept
    BY <2>1 DEF Graceful
  <2>3. CASE Dropped
    BY <2>0, <2>3 DEF Graceful
  <2>4. CASE Begins
    BY <2>0, <2>4 DEF Graceful
  <2>2. CASE Opened
    BY <2>0, <2>2, CameraAssumption DEF Graceful, Graces
  <2> QED
    BY <1>1, <2>1, <2>2, <2>3, <2>4
<1>3. ASSUME NEW g \in Graces, g = pending' \/ g > gen'
      PROVE  mustStop'[GraceOf(g)] = {}
  <2>1. mustStop[GraceOf(g)] = {}
    BY <1>1, <1>3 DEF TypeOK, Graceful, Graces
  <2>2. ASSUME GraceOver(g), Counts(g)
        PROVE  FALSE
    BY <1>3, <2>2 DEF GraceOver, Counts, StopSome, TypeOK, Graceful, Graces
  <2> QED
    BY <2>1, <2>2, StopStarts DEF Actors, RunOf, GraceOf, Window, Main
<1>4. ASSUME main' # "dark"
      PROVE  mustStop'[Main] = {}
  <2>1. main # "dark"
    BY <1>4 DEF Next, Rendezvous, OnDial, OnClear, Run, NewAttempt, DialReturns, Attach,
                ServeReturns, Detach, TunnelOff, AfterTunnel, FinalOff, Enclave, Open,
                DialLocal, Describe, CloseStream, WindowCommand, SetEnabled, SetSource,
                Background, GraceFires, GraceOver, StopCapture, ApplyPending, SetOffer,
                Exit, CloseAll, MainOff, vars
  <2>2. mustStop[Main] = {} /\ ~MainOff
    BY <1>4, <2>1 DEF Graceful, MainOff
  <2>3. Main \in Actors /\ Main # Window
    BY DEF Actors, Main, Window
  <2>4. (\A r \in Runs : Main # RunOf(r)) /\ \A g \in Graces : Main # GraceOf(g)
    BY DEF Main, RunOf, GraceOf
  <2> QED
    BY <2>2, <2>3, <2>4, StopStarts
<1> QED
  BY <1>2, <1>3, <1>4 DEF Graceful

\* Somebody with nothing left to stop takes views down.
TakesDown ==
  \E a \in Actors, views \in SUBSET Views : mustStop[a] = {} /\ StopSome(a, views)

\* The ways a step touches what is on, and what of it is to be stopped.
LEMMA CameraSteps ==
  ASSUME TypeOK, Graceful, [Next]_vars
  PROVE  \/ /\ UNCHANGED <<on, started, mustStop>> \/ TakesDown
            /\ UNCHANGED <<offer, waiting, woken>>
            /\ UNCHANGED allowed \/ \E v \in Views, b \in BOOLEAN : SetEnabled(v, b)
         \/ \E a \in Actors : StopCapture(a)
         \/ \E s \in Streams : DialLocal(s) \/ Describe(s)
         \/ \E v \in Views : SetSource(v)
         \/ ApplyPending
         \/ SetOffer
<1> USE DEF camera, source
<1> DEFINE Touched ==
      /\ UNCHANGED <<on, started, mustStop>> \/ TakesDown
      /\ UNCHANGED <<offer, waiting, woken>>
      /\ UNCHANGED allowed \/ \E v \in Views, b \in BOOLEAN : SetEnabled(v, b)
<1>1. Lit \in SUBSET Views
  BY DEF Lit
<1>2. CASE Rendezvous
  BY <1>2 DEF Rendezvous, OnDial, OnClear
<1>3. ASSUME NEW r \in Runs, Run(r)
      PROVE  Touched
  <2>1. CASE TunnelOff(r) \/ FinalOff(r)
    <3>1. mustStop[RunOf(r)] = {} /\ RunOf(r) \in Actors
      BY <2>1 DEF TunnelOff, FinalOff, At, Actors
    <3>2. UNCHANGED <<on, started, mustStop>> \/ StopSome(RunOf(r), Lit)
      BY <2>1, OffKeeps DEF TunnelOff, FinalOff
    <3>3. UNCHANGED <<on, started, mustStop>> \/ TakesDown
      BY <1>1, <3>1, <3>2 DEF TakesDown
    <3> QED
      BY <2>1, <3>3 DEF TunnelOff, FinalOff
  <2> QED
    BY <1>3, <2>1 DEF Run, NewAttempt, DialReturns, Attach, ServeReturns, Detach, AfterTunnel
<1>4. ASSUME NEW s \in Streams, Open(s) \/ CloseStream(s)
      PROVE  Touched
  BY <1>4 DEF Open, CloseStream
<1>5. ASSUME NEW v \in Views, NEW b \in BOOLEAN, SetEnabled(v, b)
      PROVE  Touched
  <2>1. UNCHANGED <<on, started, mustStop>> \/ StopSome(Window, {v})
    BY <1>5 DEF SetEnabled
  <2>2. UNCHANGED <<on, started, mustStop>> \/ TakesDown
    BY <1>5, <2>1 DEF SetEnabled, WindowReads, TakesDown, Actors
  <2> QED
    BY <1>5, <2>2 DEF SetEnabled
<1>6. CASE GraceFires
  BY <1>6 DEF GraceFires
<1>7. ASSUME NEW g \in Graces, GraceOver(g)
      PROVE  Touched
  <2>1. CASE Counts(g)
    <3>1. mustStop[GraceOf(g)] = {} /\ GraceOf(g) \in Actors
      BY <2>1 DEF Counts, Graceful, Actors
    <3>2. StopSome(GraceOf(g), Lit)
      BY <1>7, <2>1 DEF GraceOver
    <3>3. TakesDown
      BY <1>1, <3>1, <3>2 DEF TakesDown
    <3> QED
      BY <1>7, <3>3 DEF GraceOver
  <2>2. CASE ~Counts(g)
    BY <1>7, <2>2 DEF GraceOver
  <2> QED
    BY <2>1, <2>2
<1>8. CASE Exit
  <2>1. CASE CloseAll
    BY <2>1 DEF CloseAll
  <2>2. CASE MainOff
    <3>1. mustStop[Main] = {} /\ Main \in Actors
      BY <2>2 DEF MainOff, Graceful, Actors
    <3>2. UNCHANGED <<on, started, mustStop>> \/ StopSome(Main, Lit)
      BY <2>2, OffKeeps DEF MainOff
    <3>3. UNCHANGED <<on, started, mustStop>> \/ TakesDown
      BY <1>1, <3>1, <3>2 DEF TakesDown
    <3> QED
      BY <2>2, <3>3 DEF MainOff
  <2> QED
    BY <1>8, <2>1, <2>2 DEF Exit
<1>9. CASE UNCHANGED vars
  BY <1>9 DEF vars
<1> QED
  BY <1>2, <1>3, <1>4, <1>5, <1>6, <1>7, <1>8, <1>9 DEF Next, Enclave, WindowCommand, Background

\* A capture leaves its view's offer only for somebody's list to stop.
LEMMA CaptureStep ==
  TypeOK /\ Graceful /\ CaptureAccounted /\ [Next]_vars => CaptureAccounted'
<1> SUFFICES ASSUME TypeOK, Graceful, CaptureAccounted, [Next]_vars,
                    NEW c \in started'
             PROVE  \/ on'[c[1]] /\ offer'[c[1]] = c[2]
                    \/ \E a \in Actors : c \in mustStop'[a]
  BY DEF CaptureAccounted
<1> DEFINE Accounted == \/ on'[c[1]] /\ offer'[c[1]] = c[2]
                        \/ \E a \in Actors : c \in mustStop'[a]
<1>1. CASE UNCHANGED <<on, started, mustStop, offer>>
  BY <1>1 DEF CaptureAccounted
<1>2. CASE TakesDown /\ UNCHANGED offer
  <2>1. PICK a \in Actors, views \in SUBSET Views : mustStop[a] = {} /\ StopSome(a, views)
    BY <1>2 DEF TakesDown
  <2>2. c \in started /\ c \in Captures
    BY <2>1 DEF StopSome, TypeOK
  <2>3. c[1] \in Views /\ c = <<c[1], c[2]>>
    BY <2>2 DEF Captures
  <2>4. CASE \E b \in Actors : c \in mustStop[b]
    <3>1. PICK b \in Actors : c \in mustStop[b]
      BY <2>4
    <3>2. b # a
      BY <2>1, <3>1
    <3> QED
      BY <2>1, <3>1, <3>2 DEF StopSome, TypeOK
  <2>5. CASE on[c[1]] /\ offer[c[1]] = c[2] /\ c[1] \in views
    <3>1. c \in {<<v, offer[v]>> : v \in views \cap Lit}
      BY <2>3, <2>5 DEF Lit
    <3> QED
      BY <2>1, <3>1 DEF StopSome, TypeOK
  <2>6. CASE on[c[1]] /\ offer[c[1]] = c[2] /\ c[1] \notin views
    BY <1>2, <2>1, <2>3, <2>6 DEF StopSome
  <2> QED
    BY <2>2, <2>4, <2>5, <2>6 DEF CaptureAccounted
<1>3. ASSUME NEW a \in Actors, StopCapture(a)
      PROVE  Accounted
  <2>1. PICK d \in mustStop[a] :
          started' = started \ {d} /\ mustStop' = [mustStop EXCEPT ![a] = @ \ {d}]
    BY <1>3 DEF StopCapture
  <2>2. UNCHANGED <<on, offer>>
    BY <1>3 DEF StopCapture, source
  <2> QED
    BY <2>1, <2>2 DEF CaptureAccounted, TypeOK
<1>4. ASSUME NEW s \in Streams, NEW v \in Views,
             on' = [on EXCEPT ![v] = TRUE], offer' = offer, mustStop' = mustStop,
             started' = started \/ started' = started \cup {<<v, offer[v]>>}
      PROVE  Accounted
  <2>1. CASE c \in started
    <3>1. c[1] \in Views
      BY <2>1 DEF TypeOK, Captures
    <3> QED
      BY <1>4, <2>1, <3>1 DEF CaptureAccounted, TypeOK
  <2>2. CASE c = <<v, offer[v]>>
    BY <1>4, <2>2 DEF TypeOK
  <2> QED
    BY <1>4, <2>1, <2>2
<1>5. ASSUME NEW s \in Streams, DialLocal(s)
      PROVE  Accounted
  <2>1. CASE UNCHANGED camera
    BY <1>1, <1>5, <2>1 DEF DialLocal, camera, source
  <2>2. CASE allowed["body"]
    BY <1>4, <1>5, <2>2, CameraAssumption DEF DialLocal, source
  <2> QED
    BY <1>5, <2>1, <2>2 DEF DialLocal
<1>6. ASSUME NEW s \in Streams, Describe(s)
      PROVE  Accounted
  BY <1>4, <1>6 DEF Describe, source
<1>7. CASE SetOffer
  <2>1. CASE offer' = offer
    BY <1>1, <1>7, <2>1 DEF SetOffer, camera
  <2>2. CASE building \in Views /\ ~on[building] /\ offer' = [offer EXCEPT ![building] = @ + 1]
    <3>1. UNCHANGED <<on, started, mustStop>>
      BY <1>7 DEF SetOffer, camera
    <3>2. c[1] \in Views
      BY <3>1 DEF TypeOK, Captures
    <3> QED
      BY <2>2, <3>1, <3>2 DEF CaptureAccounted, TypeOK
  <2> QED
    BY <1>7, <2>1, <2>2 DEF SetOffer, TypeOK
<1>8. ASSUME ApplyPending \/ \E v \in Views : SetSource(v)
      PROVE  Accounted
  BY <1>1, <1>8 DEF ApplyPending, SetSource, camera
<1> QED
  BY <1>1, <1>2, <1>3, <1>5, <1>6, <1>7, <1>8, CameraSteps

\* Only a stream and a DESCRIBE turn a view on, and they ask first.
LEMMA SwitchedOffStep ==
  TypeOK /\ Graceful /\ SwitchedOffIsOff /\ [Next]_vars => SwitchedOffIsOff'
<1> SUFFICES ASSUME TypeOK, Graceful, SwitchedOffIsOff, [Next]_vars,
                    NEW v \in Views, on'[v]
             PROVE  allowed'[v]
  BY DEF SwitchedOffIsOff
<1>1. CASE UNCHANGED <<on, allowed>>
  BY <1>1 DEF SwitchedOffIsOff
<1>2. CASE TakesDown /\ UNCHANGED allowed
  <2>1. on[v]
    BY <1>2 DEF TakesDown, StopSome
  <2> QED
    BY <1>2, <2>1 DEF SwitchedOffIsOff
<1>3. ASSUME NEW w \in Views, NEW b \in BOOLEAN, SetEnabled(w, b)
      PROVE  allowed'[v]
  <2>1. on[v]
    BY <1>3 DEF SetEnabled, camera, StopSome
  <2>2. ~b => v # w
    BY <1>3, <2>1 DEF SetEnabled, camera, StopSome
  <2> QED
    BY <1>3, <2>1, <2>2 DEF SetEnabled, SwitchedOffIsOff, TypeOK
<1>4. ASSUME NEW s \in Streams, DialLocal(s)
      PROVE  allowed'[v]
  BY <1>4 DEF DialLocal, camera, SwitchedOffIsOff, TypeOK
<1>5. ASSUME NEW s \in Streams, Describe(s)
      PROVE  allowed'[v]
  BY <1>5 DEF Describe, SwitchedOffIsOff, TypeOK
<1>6. ASSUME \/ \E a \in Actors : StopCapture(a)
             \/ \E w \in Views : SetSource(w)
             \/ ApplyPending \/ SetOffer
      PROVE  allowed'[v]
  BY <1>1, <1>6 DEF StopCapture, SetSource, ApplyPending, SetOffer, camera
<1> QED
  BY <1>1, <1>2, <1>3, <1>4, <1>5, <1>6, CameraSteps

\* The last stop of a caller wakes applyPending, and a change waits only for a
\* view that is on.
LEMMA WaitingStep ==
  TypeOK /\ Graceful /\ WaitingIsWoken /\ [Next]_vars => WaitingIsWoken'
<1> SUFFICES ASSUME TypeOK, Graceful, WaitingIsWoken, [Next]_vars, waiting' # "none"
             PROVE  Lit' # {} \/ woken' > 0 \/ \E a \in Actors : mustStop'[a] # {}
  BY DEF WaitingIsWoken
<1> DEFINE Woken == Lit' # {} \/ woken' > 0 \/ \E a \in Actors : mustStop'[a] # {}
<1>1. CASE UNCHANGED <<on, mustStop, waiting, woken>>
  BY <1>1 DEF WaitingIsWoken, Lit
<1>2. CASE TakesDown /\ UNCHANGED <<waiting, woken>>
  <2>1. PICK a \in Actors, views \in SUBSET Views : mustStop[a] = {} /\ StopSome(a, views)
    BY <1>2 DEF TakesDown
  <2>2. ASSUME NEW v \in Lit, v \notin views
        PROVE  v \in Lit'
    BY <2>1, <2>2 DEF StopSome, Lit
  <2>3. ASSUME NEW v \in Lit, v \in views
        PROVE  mustStop'[a] # {}
    <3>1. <<v, offer[v]>> \in {<<w, offer[w]>> : w \in views \cap Lit}
      BY <2>3
    <3> QED
      BY <2>1, <3>1 DEF StopSome, TypeOK
  <2>4. ASSUME NEW b \in Actors, mustStop[b] # {}
        PROVE  mustStop'[b] # {}
    BY <2>1, <2>4 DEF StopSome, TypeOK
  <2> QED
    BY <1>2, <2>2, <2>3, <2>4 DEF WaitingIsWoken
<1>3. ASSUME NEW a \in Actors, StopCapture(a)
      PROVE  Woken
  <2>1. CASE mustStop'[a] = {}
    BY <1>3, <2>1 DEF StopCapture, TypeOK
  <2>2. CASE mustStop'[a] # {}
    BY <2>2
  <2> QED
    BY <2>1, <2>2
<1>4. ASSUME NEW s \in Streams, DialLocal(s) \/ Describe(s)
      PROVE  Woken
  <2>1. UNCHANGED <<mustStop, waiting, woken>>
    BY <1>4 DEF DialLocal, Describe, camera, source
  <2>2. \A v \in Views : on[v] => on'[v]
    BY <1>4 DEF DialLocal, Describe, camera, TypeOK
  <2> QED
    BY <2>1, <2>2 DEF WaitingIsWoken, Lit
<1>5. ASSUME NEW v \in Views, SetSource(v)
      PROVE  Woken
  BY <1>5 DEF SetSource, camera, Lit
<1>6. CASE ApplyPending
  BY <1>6 DEF ApplyPending, camera, Lit
<1>7. CASE SetOffer
  BY <1>1, <1>7 DEF SetOffer, camera
<1> QED
  BY <1>1, <1>2, <1>3, <1>4, <1>5, <1>6, <1>7, CameraSteps

-----------------------------------------------------------------------------
(* The invariant, and what follows from it. *)

\* The first state.
LEMMA InitInvariant == Init => IInv
<1> SUFFICES ASSUME Init
             PROVE  IInv
  OBVIOUS
<1>1. Begun = {}
  BY DEF Init, Begun
<1>2. Entries /\ HoldsNewest
  BY <1>1 DEF Init, Entries, HoldsNewest
<1>3. Graceful
  BY CameraAssumption DEF Init, Graceful, Graces, Actors
<1>4. BacklogLives /\ CaptureAccounted /\ SwitchedOffIsOff /\ WaitingIsWoken
  BY DEF Init, BacklogLives, CaptureAccounted, SwitchedOffIsOff, WaitingIsWoken
<1> QED
  BY <1>2, <1>3, <1>4, InitType DEF IInv

\* And every step after it.
LEMMA Inductive == IInv /\ [Next]_vars => IInv'
  BY TypeStep, EntriesStep, HoldsNewestStep, BacklogLivesStep, GracefulStep, CaptureStep,
     SwitchedOffStep, WaitingStep
     DEF IInv

\* The invariant holds of every behaviour.
THEOREM CameraInvariant == Spec => []IInv
  BY InitInvariant, Inductive, PTL DEF Spec

\* One session at a time: at most one run may still dial and attach, whatever
\* dials and ends of sessions reach the connector (OnDial, OnClear, closeAll).
THEOREM OneTunnelAtATime == Spec => []OneTunnel
<1>1. IInv => OneTunnel
  BY OneEntry DEF IInv
<1> QED
  BY <1>1, CameraInvariant, PTL

\* The ticket a live run's next attempt carries is the last sent for its
\* session (OnDial, active.take).
THEOREM NewestTicketHeld == Spec => []HoldsNewest
<1>1. IInv => HoldsNewest
  BY DEF IInv
<1> QED
  BY <1>1, CameraInvariant, PTL

\* The backlog read is that of a tunnel that serves (attach).
THEOREM BacklogOfLiveTunnel == Spec => []BacklogLives
<1>1. IInv => BacklogLives
  BY DEF IInv
<1> QED
  BY <1>1, CameraInvariant, PTL

\* No capture runs that is neither a lit view's offer nor on its way to be
\* stopped (stopSomeLocked, setOffer).
THEOREM CapturesAccounted == Spec => []CaptureAccounted
<1>1. IInv => CaptureAccounted
  BY DEF IInv
<1> QED
  BY <1>1, CameraInvariant, PTL

\* A view switched off in the window is off (setEnabled, dialLocal, startFace).
THEOREM SwitchedOffStaysOff == Spec => []SwitchedOffIsOff
<1>1. IInv => SwitchedOffIsOff
  BY DEF IInv
<1> QED
  BY <1>1, CameraInvariant, PTL

\* A change of source that waits has somebody left to apply it (applySource,
\* onOff, applyPending).
THEOREM WaitingChangeKept == Spec => []WaitingIsWoken
<1>1. IInv => WaitingIsWoken
  BY DEF IInv
<1> QED
  BY <1>1, CameraInvariant, PTL

\* A grace a stream has been opened during never takes the camera, however
\* late its timer's goroutine runs (graceOver, pendingGen).
THEOREM OvertakenGraceNeverActs == Spec => FullGrace
<1>1. ASSUME IInv, [Next]_vars, NEW g \in overtaken, mustStop[GraceOf(g)] = {}
      PROVE  mustStop'[GraceOf(g)] = {}
  <2>1. g \in Graces /\ ~Counts(g)
    BY <1>1 DEF IInv, TypeOK, Graceful, Counts
  <2>2. GraceOf(g) \in Actors /\ GraceOf(g) # Window /\ GraceOf(g) # Main
    BY <2>1 DEF Actors, GraceOf, Window, Main
  <2>3. /\ \A r \in Runs : GraceOf(g) # RunOf(r)
        /\ \A h \in Graces : GraceOf(g) = GraceOf(h) => g = h
    BY DEF GraceOf, RunOf
  <2> QED
    BY <1>1, <2>1, <2>2, <2>3, StopStarts DEF IInv
<1>2. IInv /\ [Next]_vars =>
        [\A g \in overtaken : mustStop[GraceOf(g)] = {} => mustStop'[GraceOf(g)] = {}]_vars
  BY <1>1
<1> QED
  BY <1>2, CameraInvariant, PTL DEF Spec, FullGrace

\* The last look of a run whose session has ended leaves nothing on (run's
\* deferred off).
THEOREM EndedRunTurnsOff == Spec => EndedRunGoesDark
<1>1. ASSUME TypeOK, [Next]_vars, NEW r \in Runs, ended[r], pc[r] # "done", pc'[r] = "done"
      PROVE  Lit' = {}
  <2>1. FinalOff(r)
    <3>1. ASSUME NEW q \in Runs, Run(q)
          PROVE  FinalOff(r)
      BY <1>1, <3>1 DEF Run, NewAttempt, DialReturns, Attach, ServeReturns, Detach, TunnelOff,
                        AfterTunnel, FinalOff, Move, TypeOK
    <3>2. CASE Rendezvous
      BY <1>1, <3>2 DEF Rendezvous, OnDial, OnClear, TypeOK
    <3>3. ASSUME UNCHANGED pc
          PROVE  FALSE
      BY <1>1, <3>3
    <3>4. CASE \E s \in Streams : Enclave(s)
      BY <3>3, <3>4 DEF Enclave, Open, DialLocal, Describe, CloseStream, runs
    <3>5. CASE WindowCommand
      BY <3>3, <3>5 DEF WindowCommand, SetEnabled, SetSource, runs
    <3>6. CASE Background
      BY <3>3, <3>6 DEF Background, GraceFires, GraceOver, StopCapture, ApplyPending,
                        SetOffer, runs
    <3>7. CASE Exit
      BY <3>3, <3>7 DEF Exit, CloseAll, MainOff, runs
    <3>8. CASE UNCHANGED vars
      BY <3>3, <3>8 DEF vars, runs
    <3> QED
      BY <1>1, <3>1, <3>2, <3>4, <3>5, <3>6, <3>7, <3>8 DEF Next
  <2>2. CASE Lit = {}
    BY <1>1, <2>1, <2>2 DEF FinalOff, Off, camera, Lit
  <2>3. CASE Lit # {}
    <3>1. StopSome(RunOf(r), Lit)
      BY <1>1, <2>1, <2>3 DEF FinalOff, Off
    <3> QED
      BY <3>1 DEF StopSome, Lit
  <2> QED
    BY <2>2, <2>3
<1>2. IInv /\ [Next]_vars =>
        [\A r \in Runs :
           ended[r] /\ pc[r] # "done" /\ pc'[r] = "done" => Lit' = {}]_vars
  BY <1>1 DEF IInv
<1> QED
  BY <1>2, CameraInvariant, PTL DEF Spec, EndedRunGoesDark
=============================================================================
