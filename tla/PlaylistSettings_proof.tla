----------------------- MODULE PlaylistSettings_proof -----------------------
(***************************************************************************)
(* Proofs about PlaylistEngine, SettingsStore and PlaylistCursor, which    *)
(* share no state (playback/playlist/engine.rs, the settings store, and    *)
(* playback/playlist/cursor.rs with the data of a session).                *)
(*                                                                         *)
(* Owners and sessions of the playlists agree, the settings remember the   *)
(* owners, and the sessions run what is saved, for every set of displays,  *)
(* playlists and users and any number of requests.  What the store keeps   *)
(* holds for any number of clients, canvases and displays, and with        *)
(* failing writes, crashes and an aborted writer.  The cursors of a        *)
(* session fit its definition, whatever definitions it is edited to.       *)
(***************************************************************************)
EXTENDS PlaylistEngine, SettingsStore, PlaylistCursor, FiniteSetTheorems, SequenceTheorems,
        TLAPS

----------------------------------------------------------------------------
(* The Engine's own changes.                                                *)

Typed(s, o, m) ==
  /\ s \in [Playlist -> Session \cup {NoSession}]
  /\ o \in [Display -> Playlist \cup {NoPlaylist}]
  /\ m \in Nat

Agree(s, o) == \A d \in Display, p \in Playlist : o[d] = p <=> d \in Members(s, p)

LEMMA SessionFact ==
  ASSUME NEW s \in [Playlist -> Session \cup {NoSession}], NEW p \in Playlist
  PROVE  /\ Members(s, p) \subseteq Display
         /\ s[p] # NoSession => s[p] \in Session /\ Members(s, p) = s[p].members
BY Distinct DEF Members, Session

LEMMA DeactivateKeeps ==
  ASSUME Typed(session, owner, made), Agree(session, owner),
         NEW ds \in SUBSET Display, EngineDeactivate(ds)
  PROVE  Typed(session', owner', made') /\ Agree(session', owner')
<1> DEFINE owned == {d \in Display : owner[d] # NoPlaylist}
           cut == ds \cap owned
<1>1. session' = WithoutDisplays(cut) /\ owner' = Disowned(ds) /\ made' = made
  BY DEF EngineDeactivate
<1>2. owner' \in [Display -> Playlist \cup {NoPlaylist}]
  BY <1>1 DEF Disowned, Typed
<1>3. ASSUME NEW p \in Playlist
      PROVE  session'[p] \in Session \cup {NoSession} /\ Members(session', p) = Members(session, p) \ cut
  <2>1. CASE ~Live(p)
    BY <2>1, <1>1 DEF WithoutDisplays, Members, Live
  <2>2. CASE Live(p) /\ session[p].members \subseteq cut
    BY <2>2, <1>1 DEF WithoutDisplays, Members, Live
  <2>3. CASE Live(p) /\ ~(session[p].members \subseteq cut)
    <3>1. session[p] \in Session
      BY <2>3, SessionFact DEF Typed, Live
    <3>2. session'[p] = [session[p] EXCEPT !.members = @ \ cut]
      BY <2>3, <1>1 DEF WithoutDisplays
    <3>3. session'[p] \in Session /\ session'[p].members = session[p].members \ cut
      BY <3>1, <3>2 DEF Session
    <3> QED BY <3>3, <2>3, SessionFact, Distinct DEF Members, Live
  <2> QED BY <2>1, <2>2, <2>3
<1>4. Typed(session', owner', made')
  BY <1>1, <1>2, <1>3 DEF WithoutDisplays, Typed
<1>5. ASSUME NEW d \in Display, NEW p \in Playlist
      PROVE  owner'[d] = p <=> d \in Members(session', p)
  <2>1. owner'[d] = IF d \in ds THEN NoPlaylist ELSE owner[d]
    BY <1>1 DEF Disowned
  <2>2. Members(session', p) = Members(session, p) \ cut
    BY <1>3
  <2>3. p # NoPlaylist /\ (owner[d] = p <=> d \in Members(session, p))
    BY Distinct DEF Agree
  <2> QED BY <2>1, <2>2, <2>3
<1> QED BY <1>4, <1>5 DEF Agree

LEMMA ActivateKeeps ==
  ASSUME Typed(session, owner, made), Agree(session, owner),
         NEW p \in Playlist, NEW def \in Definitions, NEW ds \in SUBSET Display,
         EngineActivate(p, def, ds)
  PROVE  Typed(session', owner', made') /\ Agree(session', owner')
<1> DEFINE conflicts == {d \in ds : owner[d] \notin {p, NoPlaylist}}
           new == [id |-> IF Live(p) THEN session[p].id ELSE made + 1,
                   definition |-> def, members |-> Members(session, p) \cup ds]
<1>1. session' = [WithoutDisplays(conflicts) EXCEPT ![p] = new]
  BY DEF EngineActivate
<1>2. owner' = [d \in Display |-> IF d \in ds THEN p ELSE owner[d]]
  BY DEF EngineActivate
<1>3. new \in Session /\ made' \in Nat
  <2>1. Members(session, p) \subseteq Display /\ (Live(p) => session[p] \in Session)
    BY SessionFact DEF Typed, Live
  <2> QED BY <2>1 DEF EngineActivate, Typed, Session, Definitions
<1>4. session'[p] = new /\ Members(session', p) = Members(session, p) \cup ds
  <2>1. session'[p] = new
    BY <1>1 DEF WithoutDisplays
  <2>2. new # NoSession /\ new.members = Members(session, p) \cup ds
    BY <1>3, Distinct
  <2> HIDE DEF new
  <2> QED BY <2>1, <2>2 DEF Members
<1>5. ASSUME NEW q \in Playlist, q # p
      PROVE  /\ session'[q] \in Session \cup {NoSession}
             /\ Members(session', q) = Members(session, q) \ conflicts
  <2> DEFINE was == session[q]
  <2>1. session'[q] = IF ~Live(q) \/ was.members \subseteq conflicts THEN NoSession
                      ELSE [was EXCEPT !.members = @ \ conflicts]
    BY <1>1, <1>5 DEF WithoutDisplays
  <2>2. CASE ~Live(q)
    BY <2>2, <2>1 DEF Members, Live
  <2>3. CASE Live(q) /\ was.members \subseteq conflicts
    BY <2>3, <2>1 DEF Members, Live
  <2>4. CASE Live(q) /\ ~(was.members \subseteq conflicts)
    <3>1. was \in Session
      BY <2>4, SessionFact DEF Typed, Live
    <3>2. session'[q] = [was EXCEPT !.members = @ \ conflicts]
      BY <2>4, <2>1
    <3>3. session'[q] \in Session /\ session'[q].members = was.members \ conflicts
      BY <3>1, <3>2 DEF Session
    <3> QED BY <3>3, <2>4, SessionFact, Distinct DEF Members, Live
  <2> QED BY <2>2, <2>3, <2>4
<1>6. Typed(session', owner', made')
  <2>1. session' \in [Playlist -> Session \cup {NoSession}]
    BY <1>1, <1>3, <1>4, <1>5 DEF WithoutDisplays
  <2> QED BY <2>1, <1>2, <1>3 DEF Typed
<1>7. ASSUME NEW d \in Display, NEW q \in Playlist
      PROVE  owner'[d] = q <=> d \in Members(session', q)
  <2>1. CASE q = p
    BY <2>1, <1>2, <1>4 DEF Agree, Typed
  <2>2. CASE q # p
    <3>1. Members(session', q) = Members(session, q) \ conflicts
      BY <2>2, <1>5
    <3>2. CASE d \in ds
      BY <3>1, <3>2, <2>2, <1>2, Distinct DEF Agree
    <3>3. CASE d \notin ds
      BY <3>1, <3>3, <1>2 DEF Agree
    <3> QED BY <3>2, <3>3
  <2> QED BY <2>1, <2>2
<1> QED BY <1>6, <1>7 DEF Agree

LEMMA AttachKeeps ==
  ASSUME Typed(session, owner, made), Agree(session, owner),
         NEW p \in Playlist, NEW d \in Display, CanAttach(p, d), EngineAttach(p, d)
  PROVE  Typed(session', owner', made') /\ Agree(session', owner')
<1>1. session[p] \in Session /\ Members(session, p) = session[p].members
  BY SessionFact DEF Typed, CanAttach, Live
<1>2. session' = [session EXCEPT ![p] = [session[p] EXCEPT !.members = @ \cup {d}]]
  BY DEF EngineAttach
<1>3. session'[p] \in Session /\ session'[p].members = session[p].members \cup {d}
  BY <1>1, <1>2 DEF Session, Typed
<1>4. Typed(session', owner', made')
  BY <1>2, <1>3 DEF Typed, EngineAttach
<1>5. Members(session', p) = Members(session, p) \cup {d}
  BY <1>1, <1>3, Distinct DEF Members
<1>6. ASSUME NEW q \in Playlist, q # p PROVE Members(session', q) = Members(session, q)
  BY <1>2, <1>6 DEF Members, Typed
<1>7. ASSUME NEW e \in Display, NEW q \in Playlist
      PROVE  owner'[e] = q <=> e \in Members(session', q)
  <2>1. owner' = [owner EXCEPT ![d] = p] /\ owner[d] \in {p, NoPlaylist}
    BY DEF EngineAttach, CanAttach
  <2>2. CASE q = p
    BY <2>1, <2>2, <1>5 DEF Agree, Typed
  <2>3. CASE q # p
    BY <2>1, <2>3, <1>6, Distinct DEF Agree, Typed
  <2> QED BY <2>2, <2>3
<1> QED BY <1>4, <1>7 DEF Agree

LEMMA EndKeeps ==
  ASSUME Typed(session, owner, made), Agree(session, owner),
         NEW p \in Playlist, EngineEnd(p)
  PROVE  Typed(session', owner', made') /\ Agree(session', owner')
<1>1. session' = [session EXCEPT ![p] = NoSession]
  BY DEF EngineEnd
<1>2. owner' = [d \in Display |-> IF owner[d] = p THEN NoPlaylist ELSE owner[d]]
  BY DEF EngineEnd, Disowned
<1>3. Typed(session', owner', made')
  BY <1>1, <1>2 DEF Typed, EngineEnd
<1>4. Members(session', p) = {} /\ \A q \in Playlist \ {p} : Members(session', q) = Members(session, q)
  BY <1>1 DEF Members, Typed
<1>5. ASSUME NEW d \in Display, NEW q \in Playlist
      PROVE  owner'[d] = q <=> d \in Members(session', q)
  BY <1>2, <1>4, Distinct DEF Agree
<1> QED BY <1>3, <1>5 DEF Agree

LEMMA RebuildKeeps ==
  ASSUME Typed(session, owner, made), Agree(session, owner),
         NEW p \in Playlist, NEW def \in Definitions, EngineRebuild(p, def)
  PROVE  Typed(session', owner', made') /\ Agree(session', owner')
<1>1. CASE ~Live(p)
  BY <1>1 DEF EngineRebuild, engineVars, Typed, Agree, Members
<1>2. CASE Live(p) /\ Empty(p, def)
  BY <1>2, EndKeeps DEF EngineRebuild
<1>3. CASE Live(p) /\ ~Empty(p, def)
  <2>1. session' = [session EXCEPT ![p] = [session[p] EXCEPT !.definition = def]]
    BY <1>3 DEF EngineRebuild
  <2>2. session[p] \in Session
    BY <1>3, SessionFact DEF Typed, Live
  <2>3. session'[p] \in Session /\ session'[p].members = session[p].members
    BY <2>1, <2>2 DEF Session, Definitions, Typed
  <2>4. Typed(session', owner', made')
    BY <1>3, <2>1, <2>3 DEF Typed, EngineRebuild
  <2>5. \A q \in Playlist : Members(session', q) = Members(session, q)
    BY <2>1, <2>2, <2>3, Distinct DEF Members, Typed
  <2> QED BY <2>4, <2>5, <1>3 DEF Agree, EngineRebuild
<1> QED BY <1>1, <1>2, <1>3

----------------------------------------------------------------------------
LEMMA EngineInvInit == Init => EngineInv
<1> SUFFICES ASSUME Init PROVE EngineInv
  OBVIOUS
<1>1. TypeOK
  BY Distinct DEF Init, TypeOK, Ops, Kinds, Idle, NoDefinition, Definitions, NoDetail
<1>2. OpsNameTheirs
  BY DEF Init, OpsNameTheirs, Idle, Targeted
<1>3. OwnersAreMembers
  BY Distinct DEF Init, OwnersAreMembers, Members
<1> QED BY <1>1, <1>2, <1>3 DEF EngineInv

(* What Agree and Typed are of the invariant. *)
LEMMA InvParts ==
  /\ OwnersAreMembers <=> Agree(session, owner)
  /\ OwnersAreMembers' <=> Agree(session', owner')
  /\ TypeOK => Typed(session, owner, made)
BY DEF OwnersAreMembers, Agree, TypeOK, Typed, Members

(* A step that leaves the engine alone keeps what is said of it. *)
LEMMA EngineAlone ==
  ASSUME EngineInv, UNCHANGED engineVars
  PROVE  Typed(session', owner', made') /\ Agree(session', owner')
BY InvParts DEF EngineInv, engineVars, Typed, Agree, Members

LEMMA RequestKeeps ==
  ASSUME EngineInv, NEW u \in User, NEW kind \in mix.kinds, NEW p \in Playlist \cup {NoPlaylist},
         NEW ds \in SUBSET Display, Request(u, kind, p, ds)
  PROVE  EngineInv'
<1>1. UNCHANGED engineVars
  BY DEF Request, engineVars
<1>2. kind \in {"activate", "deactivate", "edit", "rename", "delete"}
  BY Distinct DEF EngineInv, TypeOK
<1>3. [kind |-> kind, phase |-> "wait", p |-> p, ds |-> ds, def |-> NoDefinition] \in Ops
  BY <1>2 DEF Ops, Kinds, NoDefinition, Definitions
<1>4. TypeOK'
  BY <1>1, <1>3 DEF EngineInv, TypeOK, Request, engineVars, dbVars, plugVars, Actor
<1>5. OpsNameTheirs'
  BY <1>2 DEF EngineInv, TypeOK, OpsNameTheirs, Request, Targeted, Actor
<1> QED BY <1>1, <1>4, <1>5, EngineAlone, InvParts DEF EngineInv
-----------------------------------------------------------------------------

LEMMA DefinitionFact ==
  ASSUME TypeOK, NEW p \in Playlist
  PROVE  Definition(p) \in Definitions
BY DEF TypeOK, Definition, Definitions

LEMMA AcquireKeeps ==
  ASSUME EngineInv, NEW a \in Actor, Acquire(a)
  PROVE  EngineInv'
<1> DEFINE p == op[a].p
<1>1. UNCHANGED engineVars
  BY DEF Acquire, engineVars
<1>2. TypeOK /\ OpsNameTheirs
  BY DEF EngineInv
<1>3. op[a] \in Ops /\ op \in [Actor -> Ops]
  BY <1>2 DEF TypeOK
<1>4. Acquired(a) \in [Actor -> Ops] /\ Acquired(a)[a].kind = op[a].kind
      /\ Acquired(a)[a].p = p /\ Acquired(a)[a].ds = op[a].ds
      /\ \A b \in Actor \ {a} : Acquired(a)[b] = op[b]
  <2> DEFINE def == IF p = NoPlaylist \/ ~Exists(p) THEN NoDefinition ELSE Definition(p)
  <2>1. def \in Definitions
    BY <1>2, <1>3, DefinitionFact DEF Ops, NoDefinition, Definitions
  <2> HIDE DEF def
  <2>2. Acquired(a) = [op EXCEPT ![a].phase = "held", ![a].def = def]
    BY DEF Acquired, def
  <2>3. [op[a] EXCEPT !.phase = "held", !.def = def] \in Ops
    BY <1>3, <2>1 DEF Ops
  <2>4. Acquired(a) = [op EXCEPT ![a] = [op[a] EXCEPT !.phase = "held", !.def = def]]
    BY <1>3, <2>2 DEF Ops
  <2>5. /\ [op[a] EXCEPT !.phase = "held", !.def = def].kind = op[a].kind
        /\ [op[a] EXCEPT !.phase = "held", !.def = def].p = p
        /\ [op[a] EXCEPT !.phase = "held", !.def = def].ds = op[a].ds
    BY <1>3 DEF Ops
  <2> QED BY <1>3, <2>3, <2>4, <2>5
<1>5. /\ saved' \in [Playlist -> [rev : Nat, form : Nat]]
      /\ op' \in [Actor -> Ops]
      /\ \A b \in Actor \ {a} : op'[b] = op[b]
      /\ op'[a] = Idle \/ (op'[a].kind = op[a].kind /\ op'[a].p = p /\ op'[a].ds = op[a].ds)
  <2>1. CASE op' = [op EXCEPT ![a] = Idle] /\ UNCHANGED saved
    BY <2>1, <1>2, <1>3 DEF Ops, Kinds, Idle, NoDefinition, Definitions, TypeOK
  <2>2. CASE /\ op[a].kind = "edit"
             /\ \E form \in Form :
                  /\ saved' = [saved EXCEPT ![p] = [rev |-> @.rev + 1, form |-> form]]
                  /\ op' = [Acquired(a) EXCEPT ![a].def.form = form]
    <3>1. PICK form \in Form : /\ saved' = [saved EXCEPT ![p] = [rev |-> @.rev + 1, form |-> form]]
                               /\ op' = [Acquired(a) EXCEPT ![a].def.form = form]
      BY <2>2
    <3>2. form \in Nat /\ p \in Playlist
      BY <2>2, <1>2 DEF Form, OpsNameTheirs
    <3>3. saved' \in [Playlist -> [rev : Nat, form : Nat]]
      BY <3>1, <3>2, <1>2 DEF TypeOK
    <3>4. Acquired(a)[a] \in Ops /\ Acquired(a)[a].def \in Definitions
      BY <1>4 DEF Ops
    <3>5. op' = [Acquired(a) EXCEPT ![a] = [Acquired(a)[a] EXCEPT !.def =
                    [Acquired(a)[a].def EXCEPT !.form = form]]]
      BY <3>1
    <3>6. [Acquired(a)[a].def EXCEPT !.form = form] \in Definitions
      BY <3>2, <3>4 DEF Definitions
    <3>7. op' \in [Actor -> Ops] /\ op'[a].kind = op[a].kind /\ op'[a].p = p
          /\ op'[a].ds = op[a].ds
      BY <3>4, <3>5, <3>6, <1>4 DEF Ops
    <3> QED BY <3>3, <3>5, <3>7, <1>4
  <2>3. CASE op[a].kind = "rename" /\ saved' = [saved EXCEPT ![p].rev = @ + 1] /\ op' = Acquired(a)
    <3>1. p \in Playlist
      BY <2>3, <1>2 DEF OpsNameTheirs
    <3>2. saved' \in [Playlist -> [rev : Nat, form : Nat]]
      <4>1. saved \in [Playlist -> [rev : Nat, form : Nat]] /\ saved[p] \in [rev : Nat, form : Nat]
        BY <3>1, <1>2 DEF TypeOK
      <4>2. [saved[p] EXCEPT !.rev = @ + 1] \in [rev : Nat, form : Nat]
        BY <4>1
      <4>3. saved' = [saved EXCEPT ![p] = [saved[p] EXCEPT !.rev = @ + 1]]
        BY <2>3
      <4> QED BY <4>1, <4>2, <4>3
    <3> QED BY <3>2, <2>3, <1>4
  <2>4. CASE op' = Acquired(a) /\ UNCHANGED saved
    BY <2>4, <1>2, <1>4 DEF TypeOK
  <2> QED BY <2>1, <2>2, <2>3, <2>4 DEF Acquire
<1>6. TypeOK'
  BY <1>1, <1>2, <1>5 DEF TypeOK, Acquire, engineVars, plugVars, counts
<1>7. OpsNameTheirs'
  BY <1>2, <1>5 DEF OpsNameTheirs, Idle, Targeted
<1> QED BY <1>1, <1>6, <1>7, EngineAlone, InvParts DEF EngineInv

LEMMA CallKeeps ==
  ASSUME EngineInv, NEW a \in Actor, Call(a)
  PROVE  EngineInv'
<1> DEFINE o == op[a]
<1>1. TypeOK /\ OpsNameTheirs /\ Typed(session, owner, made) /\ Agree(session, owner)
  BY InvParts DEF EngineInv
<1>2. o \in Ops /\ op \in [Actor -> Ops] /\ o.def \in Definitions /\ o.ds \in SUBSET Display
  BY <1>1 DEF TypeOK, Ops
<1>3. Typed(session', owner', made') /\ Agree(session', owner')
  <2>1. CASE CallActivate(a)
    <3>1. o.p \in Playlist
      BY <2>1, <1>1 DEF CallActivate, OpsNameTheirs
    <3> QED BY <2>1, <3>1, <1>1, <1>2, ActivateKeeps, EngineAlone DEF CallActivate
  <2>2. CASE CallAttach(a)
    <3> DEFINE d == CHOOSE d \in o.ds : TRUE
    <3>1. o.p \in Playlist /\ d \in Display
      BY <2>2, <1>1, <1>2 DEF CallAttach, OpsNameTheirs, Targeted
    <3>2. CASE CanAttach(o.p, d)
      BY <2>2, <3>1, <3>2, <1>1, AttachKeeps DEF CallAttach
    <3>3. CASE ~CanAttach(o.p, d)
      BY <2>2, <3>3, EngineAlone DEF CallAttach
    <3> QED BY <3>2, <3>3
  <2>3. CASE CallOther(a)
    <3>1. CASE o.kind = "deactivate"
      BY <2>3, <3>1, <1>1, <1>2, DeactivateKeeps DEF CallOther
    <3>2. CASE o.kind = "edit"
      <4>1. o.p \in Playlist
        BY <3>2, <1>1 DEF OpsNameTheirs
      <4> QED BY <2>3, <3>2, <4>1, <1>1, <1>2, RebuildKeeps DEF CallOther
    <3>3. CASE o.kind = "delete"
      <4>1. o.p \in Playlist
        BY <3>3, <1>1 DEF OpsNameTheirs
      <4> QED BY <2>3, <3>3, <4>1, <1>1, EndKeeps DEF CallOther
    <3>4. CASE o.kind = "rename"
      BY <2>3, <3>4, EngineAlone DEF CallOther
    <3> QED BY <2>3, <3>1, <3>2, <3>3, <3>4 DEF CallOther
  <2> QED BY <2>1, <2>2, <2>3 DEF Call
<1>4. /\ op' \in [Actor -> Ops]
      /\ \A b \in Actor \ {a} : op'[b] = op[b]
      /\ \/ op'[a] = Idle
         \/ /\ op'[a].kind = o.kind /\ op'[a].p = o.p
            /\ op'[a].ds = o.ds \/ o.kind \in {"edit", "delete"}
  <2>1. CASE op' = [op EXCEPT ![a] = Idle]
    BY <2>1, <1>2 DEF Ops, Kinds, Idle, NoDefinition, Definitions
  <2>2. CASE op' = [op EXCEPT ![a].phase = "applying"] \/ op' = [op EXCEPT ![a].phase = "persisting"]
    BY <2>2, <1>2 DEF Ops
  <2>3. CASE CallOther(a)
    <3> DEFINE ds == IF o.kind \in {"edit", "delete"}
                     THEN {d \in Display : owner[d] = o.p /\ owner'[d] = NoPlaylist} ELSE o.ds
    <3>1. ds \in SUBSET Display
      BY <1>2
    <3>2. op' = [op EXCEPT ![a] = [o EXCEPT !.phase = "persisting", !.ds = ds]]
      BY <2>3 DEF CallOther
    <3>3. ds = o.ds \/ o.kind \in {"edit", "delete"}
      OBVIOUS
    <3> HIDE DEF ds
    <3> QED BY <3>1, <3>2, <3>3, <1>2 DEF Ops
  <2> QED BY <2>1, <2>2, <2>3 DEF Call, CallActivate, CallAttach, Refused, Applying, Persisting
<1>5. pending' \in {pending'} /\ saved' = saved /\ library' = library
      /\ UNCHANGED <<prefs, connected, events, refresher, mix, unsaved>>
  BY DEF Call, dbVars, counts
<1>6. TypeOK'
  BY <1>1, <1>3, <1>4, <1>5 DEF TypeOK, Typed
<1>7. OpsNameTheirs'
  BY <1>1, <1>4 DEF OpsNameTheirs, Idle, Targeted
<1> QED BY <1>3, <1>6, <1>7, InvParts DEF EngineInv

LEMMA FinishKeeps ==
  ASSUME EngineInv, NEW a \in Actor, Finish(a)
  PROVE  EngineInv'
<1>1. TypeOK /\ OpsNameTheirs /\ op[a] \in Ops
  BY DEF EngineInv, TypeOK
<1>2. UNCHANGED engineVars
  BY DEF Finish, engineVars
<1>3. saved' \in [Playlist -> [rev : Nat, form : Nat]]
  BY <1>1 DEF Finish, TypeOK, Deleted
<1>4. prefs' \in [Key -> Playlist \cup {NoPlaylist}]
  BY <1>1 DEF Finish, TypeOK, Remembered, Ops
<1>5. op' = [op EXCEPT ![a] = Idle] /\ op' \in [Actor -> Ops]
  BY <1>1 DEF Finish, TypeOK, Ops, Kinds, Idle, NoDefinition, Definitions
<1>6. unsaved' \in [Display -> {"no", "kept", "dropped"}]
  BY <1>1 DEF Finish, TypeOK
<1>7. TypeOK'
  BY <1>1, <1>2, <1>3, <1>4, <1>5, <1>6 DEF Finish, TypeOK, engineVars, plugVars
<1>8. OpsNameTheirs'
  BY <1>1, <1>5 DEF OpsNameTheirs, TypeOK, Idle, Targeted
<1> QED BY <1>2, <1>7, <1>8, EngineAlone, InvParts DEF EngineInv

LEMMA FailKeeps ==
  ASSUME EngineInv, NEW a \in Actor, ApplyFails(a)
  PROVE  EngineInv'
<1>1. TypeOK /\ OpsNameTheirs /\ op[a] \in Ops
  BY DEF EngineInv, TypeOK
<1>2. Typed(session, owner, made) /\ Agree(session, owner) /\ op[a].ds \in SUBSET Display
  BY <1>1, InvParts DEF EngineInv, Ops
<1>3. Typed(session', owner', made') /\ Agree(session', owner')
  <2>1. CASE EngineDeactivate(op[a].ds)
    BY <2>1, <1>2, DeactivateKeeps
  <2>2. CASE UNCHANGED engineVars
    BY <2>2, EngineAlone
  <2> QED BY <2>1, <2>2 DEF ApplyFails
<1>4. op' = [op EXCEPT ![a] = Idle] /\ op' \in [Actor -> Ops]
  BY <1>1 DEF ApplyFails, TypeOK, Ops, Kinds, Idle, NoDefinition, Definitions
<1>5. unsaved' \in [Display -> {"no", "kept", "dropped"}]
  BY <1>1 DEF ApplyFails, TypeOK
<1>6. TypeOK'
  BY <1>1, <1>3, <1>4, <1>5 DEF ApplyFails, TypeOK, Typed, dbVars, plugVars
<1>7. OpsNameTheirs'
  BY <1>1, <1>4 DEF OpsNameTheirs, TypeOK, Idle, Targeted
<1> QED BY <1>3, <1>6, <1>7, InvParts DEF EngineInv

LEMMA WatchKeeps ==
  ASSUME EngineInv,
         \/ WatchRemoved \/ WatchUpsert
         \/ \E d \in Display : Unplug(d) \/ Plug(d)
         \/ \E p \in Playlist : WatchSettled(p)
  PROVE  EngineInv'
<1>1. TypeOK /\ OpsNameTheirs /\ Typed(session, owner, made) /\ Agree(session, owner)
  BY InvParts DEF EngineInv
<1>2. op \in [Actor -> Ops] /\ Watcher \in Actor
  BY <1>1 DEF TypeOK, Actor
<1>3. ASSUME events # <<>>
      PROVE  Head(events)[2] \in Display /\ Tail(events) \in Seq({"removed", "upsert"} \X Display)
  <2>1. Head(events) \in {"removed", "upsert"} \X Display
    BY <1>1, <1>3 DEF TypeOK
  <2> QED BY <2>1, <1>1, <1>3 DEF TypeOK
<1>4. CASE \E d \in Display : Unplug(d) \/ Plug(d)
  <2>1. PICK d \in Display : Unplug(d) \/ Plug(d)
    BY <1>4
  <2>2. UNCHANGED engineVars
    BY <2>1 DEF Unplug, Plug, engineVars
  <2>3. events' \in Seq({"removed", "upsert"} \X Display)
    <3>1. events' = Append(events, <<"removed", d>>) \/ events' = Append(events, <<"upsert", d>>)
      BY <2>1 DEF Unplug, Plug
    <3>2. <<"removed", d>> \in {"removed", "upsert"} \X Display
          /\ <<"upsert", d>> \in {"removed", "upsert"} \X Display
          /\ events \in Seq({"removed", "upsert"} \X Display)
      BY <1>1 DEF TypeOK
    <3>3. ASSUME NEW S, NEW s \in Seq(S), NEW e \in S
          PROVE  Append(s, e) \in Seq(S)
      OBVIOUS
    <3>4. PICK e \in {"removed", "upsert"} \X Display : events' = Append(events, e)
      BY <3>1, <3>2
    <3> QED BY <3>2, <3>3, <3>4
  <2>4. TypeOK'
    BY <2>1, <2>2, <2>3, <1>1 DEF Unplug, Plug, TypeOK, dbVars, engineVars, counts
  <2>5. OpsNameTheirs'
    BY <2>1, <1>1 DEF Unplug, Plug, OpsNameTheirs
  <2> QED BY <2>2, <2>4, <2>5, EngineAlone, InvParts DEF EngineInv
<1>5. CASE WatchRemoved
  <2>1. Typed(session', owner', made') /\ Agree(session', owner')
    BY <1>1, <1>3, <1>5, DeactivateKeeps DEF WatchRemoved
  <2>2. TypeOK'
    BY <2>1, <1>1, <1>3, <1>5 DEF WatchRemoved, TypeOK, Typed, dbVars, counts
  <2>3. OpsNameTheirs'
    BY <1>1, <1>5 DEF WatchRemoved, OpsNameTheirs
  <2> QED BY <2>1, <2>2, <2>3, InvParts DEF EngineInv
<1>6. CASE WatchUpsert
  <2> DEFINE d == Head(events)[2]
             p == IF owner[d] # NoPlaylist THEN owner[d] ELSE prefs[KeyOf[d]]
             new == [kind |-> "attach", phase |-> "wait", p |-> p, ds |-> {d}, def |-> NoDefinition]
  <2>1. d \in Display /\ p \in Playlist \cup {NoPlaylist}
    BY <1>1, <1>3, <1>6, Distinct DEF WatchUpsert, TypeOK
  <2>2. new \in Ops
    BY <2>1 DEF Ops, Kinds, NoDefinition, Definitions
  <2>3. op' = op \/ (p # NoPlaylist /\ op' = [op EXCEPT ![Watcher] = new])
    BY <1>6 DEF WatchUpsert
  <2>4. UNCHANGED engineVars
    BY <1>6 DEF WatchUpsert, engineVars
  <2>5. new.kind = "attach" /\ new.p = p /\ new.ds # {}
    OBVIOUS
  <2> HIDE DEF new, p, d
  <2>6. TypeOK'
    BY <2>2, <2>3, <2>4, <1>1, <1>3, <1>6 DEF WatchUpsert, TypeOK, dbVars, engineVars, counts
  <2>7. OpsNameTheirs'
    BY <2>1, <2>3, <2>5, <1>1, <1>2 DEF OpsNameTheirs, Targeted
  <2> QED BY <2>4, <2>6, <2>7, EngineAlone, InvParts DEF EngineInv
<1>7. CASE \E p \in Playlist : WatchSettled(p)
  <2>1. PICK p \in Playlist : WatchSettled(p)
    BY <1>7
  <2> DEFINE new == [kind |-> "activate", phase |-> "wait", p |-> p, ds |-> Collected(p), def |-> NoDefinition]
  <2>2. new \in Ops
    BY <1>1 DEF Ops, Kinds, NoDefinition, Definitions, Collected, TypeOK
  <2>3. op' = op \/ (Collected(p) # {} /\ op' = [op EXCEPT ![Watcher] = new])
    BY <2>1 DEF WatchSettled
  <2>4. UNCHANGED engineVars
    BY <2>1 DEF WatchSettled, engineVars
  <2>5. new.kind = "activate" /\ new.p = p /\ new.ds = Collected(p)
    OBVIOUS
  <2> HIDE DEF new
  <2>6. TypeOK'
    <3>1. op' \in [Actor -> Ops]
      BY <2>2, <2>3, <1>1 DEF TypeOK
    <3>2. UNCHANGED <<saved, library, session, owner, made, prefs, connected, events, refresher, mix, unsaved>>
      BY <2>1 DEF WatchSettled, dbVars, engineVars, counts
    <3> QED BY <3>1, <3>2, <1>1 DEF TypeOK
  <2>7. OpsNameTheirs'
    BY <2>3, <2>5, <1>1, <1>2 DEF OpsNameTheirs, Targeted
  <2> QED BY <2>4, <2>6, <2>7, EngineAlone, InvParts DEF EngineInv
<1> QED BY <1>4, <1>5, <1>6, <1>7

LEMMA RefresherKeeps ==
  ASSUME EngineInv,
         \/ LibraryWrites \/ LibraryAnnounces \/ Wake
         \/ \E t \in refresher.tickets : ReadDetail(t) \/ ReadFails(t) \/ Refresh(t) \/ RefreshFails(t)
  PROVE  EngineInv'
<1> DEFINE R == refresher
<1>1. TypeOK /\ OpsNameTheirs /\ Typed(session, owner, made) /\ Agree(session, owner)
  BY InvParts DEF EngineInv
<1>2. NoDetail.def \in Definitions
  BY DEF NoDetail, NoDefinition, Definitions
<1>3. CASE LibraryWrites \/ LibraryAnnounces
  <2>1. UNCHANGED engineVars
    BY <1>3 DEF LibraryWrites, LibraryAnnounces, engineVars
  <2>2. TypeOK'
    BY <2>1, <1>1, <1>3 DEF LibraryWrites, LibraryAnnounces, TypeOK, engineVars, plugVars, counts
  <2>3. OpsNameTheirs'
    BY <1>1, <1>3 DEF LibraryWrites, LibraryAnnounces, OpsNameTheirs
  <2> QED BY <2>1, <2>2, <2>3, EngineAlone, InvParts DEF EngineInv
<1>4. CASE Wake
  <2>1. UNCHANGED engineVars
    BY <1>4 DEF Wake, engineVars
  <2>2. \A t \in refresher'.tickets : t.p \in Playlist
    BY <1>4, Distinct DEF Wake, Ticket
  <2>3. TypeOK'
    BY <2>1, <2>2, <1>1, <1>2, <1>4 DEF Wake, TypeOK, engineVars, plugVars, counts, dbVars
  <2>4. OpsNameTheirs'
    BY <1>1, <1>4 DEF Wake, OpsNameTheirs
  <2> QED BY <2>1, <2>3, <2>4, EngineAlone, InvParts DEF EngineInv
<1>5. ASSUME NEW t \in R.tickets, ReadDetail(t) \/ ReadFails(t) \/ Refresh(t) \/ RefreshFails(t)
      PROVE  EngineInv'
  <2>1. t.p \in Playlist
    BY <1>1, <1>5 DEF TypeOK
  <2>2. R = [seen |-> R.seen, tickets |-> R.tickets, failed |-> R.failed, detail |-> R.detail]
    BY <1>1 DEF TypeOK
  <2>3. /\ refresher' = [seen |-> refresher'.seen, tickets |-> refresher'.tickets,
                         failed |-> refresher'.failed, detail |-> refresher'.detail]
        /\ refresher'.tickets \subseteq R.tickets
        /\ refresher'.detail \in {R.detail, NoDetail, [p |-> t.p, rev |-> saved[t.p].rev, def |-> Definition(t.p)]}
    <3>1. CASE ReadDetail(t)
      BY <2>2, <3>1 DEF ReadDetail
    <3>2. CASE ReadFails(t)
      BY <2>2, <3>2 DEF ReadFails
    <3>3. CASE Refresh(t)
      BY <2>2, <3>3 DEF Refresh
    <3>4. CASE RefreshFails(t)
      BY <2>2, <3>4 DEF RefreshFails
    <3> QED BY <3>1, <3>2, <3>3, <3>4, <1>5
  <2>4. refresher'.detail.def \in Definitions
    BY <2>1, <2>3, <1>1, <1>2, DefinitionFact DEF TypeOK
  <2>5. Typed(session', owner', made') /\ Agree(session', owner')
    <3>1. CASE UNCHANGED engineVars
      BY <3>1, EngineAlone
    <3>2. CASE EngineRebuild(t.p, R.detail.def)
      BY <3>2, <2>1, <1>1, RebuildKeeps DEF TypeOK
    <3> QED BY <3>1, <3>2, <1>5 DEF ReadDetail, ReadFails, Refresh, RefreshFails
  <2>6. UNCHANGED <<saved, library, prefs, connected, events, op, mix, unsaved>>
    BY <1>5 DEF ReadDetail, ReadFails, Refresh, RefreshFails, dbVars, plugVars, counts
  <2>7. TypeOK'
    BY <2>3, <2>4, <2>5, <2>6, <1>1 DEF TypeOK, Typed
  <2>8. OpsNameTheirs'
    BY <2>6, <1>1 DEF OpsNameTheirs
  <2> QED BY <2>5, <2>7, <2>8, InvParts DEF EngineInv
<1> QED BY <1>3, <1>4, <1>5

----------------------------------------------------------------------------
LEMMA EngineInvNext == EngineInv /\ [Next]_vars => EngineInv'
<1> SUFFICES ASSUME EngineInv, [Next]_vars PROVE EngineInv'
  OBVIOUS
<1>1. CASE UNCHANGED vars
  <2>1. UNCHANGED engineVars
    BY <1>1 DEF vars, engineVars
  <2>2. TypeOK' /\ OpsNameTheirs'
    BY <1>1 DEF vars, EngineInv, TypeOK, OpsNameTheirs
  <2> QED BY <2>1, <2>2, EngineAlone, InvParts DEF EngineInv
<1>2. CASE Next
  BY <1>2, RequestKeeps, AcquireKeeps, CallKeeps, FinishKeeps, FailKeeps, WatchKeeps, RefresherKeeps
     DEF Next
<1> QED BY <1>1, <1>2

(* A playlist owns a display exactly when the display is shown by its       *)
(* session: by_display and by_playlist of Engine never part, whatever       *)
(* activations, attachments, departures, edits and refreshes interleave.    *)
THEOREM OwnersAgree == Spec => []OwnersAreMembers
<1>1. Init => EngineInv
  BY EngineInvInit
<1>2. EngineInv /\ [Next]_vars => EngineInv'
  BY EngineInvNext
<1>3. EngineInv => OwnersAreMembers
  BY DEF EngineInv
<1> QED BY <1>1, <1>2, <1>3, PTL DEF Spec

----------------------------------------------------------------------------
(* What the settings remember.                                              *)

\* The display d was registered, and the watcher has not heard of it yet
Arrives(d) == \E i \in 1..Len(events) : events[i] = <<"upsert", d>>

\* The watcher is about to give the display d to the playlist p
Taking(d, p) == op[Watcher].phase \in {"wait", "held"} /\ d \in op[Watcher].ds /\ op[Watcher].p = p

\* The playlist given to d last was not remembered
Lost(d) == unsaved[d] = IF owner[d] = NoPlaylist THEN "dropped" ELSE "kept"

\* The settings name the owner of d, or somebody is about to see to it, unless an apply failed
Follows(d) ==
  LET p == prefs[KeyOf[d]]
  IN  \/ owner[d] = p \/ Lost(d)
      \/ \E a \in Actor : op[a].phase \in {"applying", "persisting"} /\ d \in op[a].ds
      \/ /\ owner[d] = NoPlaylist
         /\ p \in Playlist
         /\ Touched(p) \/ Arrives(d) \/ d \in pending[p] \/ Taking(d, p)

FollowInv == \A d \in connected : Follows(d)

\* Who holds the lock is past it, and what each actor may be about
LockInv ==
  \A a \in Actor :
    /\ op[a].phase \in {"held", "applying", "persisting"} <=> mutation = a
    /\ op[a].phase = "idle" => op[a] = Idle
    /\ op[a].kind = "idle" => op[a] = Idle
    /\ op[a].kind = "attach" => a = Watcher /\ \E d \in Display : op[a].ds = {d}
    /\ op[a].kind = "rename" => op[a].ds = {}
    /\ op[a].phase = "applying" => op[a].kind \in Targeted
    /\ a = Watcher => op[a].kind \in {"idle", "activate", "attach"}

\* The displays of a call that was made have the owner they were to have
DoneInv ==
  \A a \in Actor : op[a].phase \in {"applying", "persisting"} =>
    \A d \in op[a].ds \cap connected :
       owner[d] = IF op[a].kind \in Targeted THEN op[a].p ELSE NoPlaylist

\* What is activated is the row as it is saved
ReadInv ==
  \A a \in Actor : op[a].phase = "held" /\ op[a].kind = "activate" =>
    op[a].def.form = saved[op[a].p].form

\* A list is empty only after an edit, or when it is deleted
SavedInv ==
  \A p \in Playlist : saved[p].rev \in {0, 1} => saved[p].form = saved[p].rev

\* Nothing is under way for a display that never was, and who is gone is gone
FreshInv ==
  /\ connected \cap gone = {}
  /\ \A d \in Display \ (connected \cup gone) :
       /\ owner[d] = NoPlaylist
       /\ \A a \in Actor : d \notin op[a].ds
       /\ \A p \in Playlist : d \notin pending[p]

EventInv ==
  \A i \in 1..Len(events) :
    events[i][2] \in IF events[i][1] = "removed" THEN gone ELSE connected \cup gone

KeyInv == \A c, d \in connected : KeyOf[c] = KeyOf[d] => c = d

BookInv == pending \in [Playlist -> SUBSET Display]

RememberInv ==
  /\ BookInv /\ LockInv /\ DoneInv /\ ReadInv /\ SavedInv
  /\ FreshInv /\ EventInv /\ KeyInv /\ FollowInv

TicketInv == \A t \in refresher.tickets : t.p \in Smart

LEMMA RememberInit == Init => RememberInv /\ TicketInv
<1> SUFFICES ASSUME Init PROVE RememberInv /\ TicketInv
  OBVIOUS
<1>1. op = [a \in Actor |-> Idle] /\ mutation = Free /\ events = <<>>
  BY DEF Init
<1>2. Free \notin Actor
  BY Apart DEF Actor, Free, Watcher
<1>3. BookInv /\ DoneInv /\ ReadInv
  BY <1>1 DEF Init, BookInv, DoneInv, ReadInv, Idle
<1>4. LockInv
  BY <1>1, <1>2 DEF LockInv, Idle
<1>5. SavedInv /\ KeyInv
  BY Apart DEF Init, SavedInv, KeyInv
<1>6. FreshInv
  BY <1>1 DEF Init, FreshInv, Idle
<1>7. EventInv
  BY <1>1 DEF EventInv
<1>8. FollowInv
  BY Distinct DEF Init, FollowInv, Follows
<1> QED BY <1>3, <1>4, <1>5, <1>6, <1>7, <1>8 DEF RememberInv, TicketInv, Init

\* What the invariant is about
bookVars == <<saved, owner, prefs, connected, gone, events, pending, mutation, op, unsaved>>

LEMMA BookAlone ==
  ASSUME RememberInv, UNCHANGED bookVars
  PROVE  RememberInv'
<1>1. BookInv' /\ LockInv' /\ DoneInv' /\ ReadInv' /\ SavedInv'
  BY DEF RememberInv, bookVars, BookInv, LockInv, DoneInv, ReadInv, SavedInv
<1>2. FreshInv' /\ EventInv' /\ KeyInv'
  BY DEF RememberInv, bookVars, FreshInv, EventInv, KeyInv
<1>3. FollowInv'
  BY DEF RememberInv, bookVars, FollowInv, Follows, Touched, Arrives, Taking, Lost
<1> QED BY <1>1, <1>2, <1>3 DEF RememberInv

LEMMA RequestRemembers ==
  ASSUME EngineInv, RememberInv, NEW u \in User, NEW kind \in mix.kinds,
         NEW p \in Playlist \cup {NoPlaylist}, NEW ds \in SUBSET Display, Request(u, kind, p, ds)
  PROVE  RememberInv'
<1> DEFINE new == [kind |-> kind, phase |-> "wait", p |-> p, ds |-> ds, def |-> NoDefinition]
<1>1. /\ op[u] = Idle /\ u \in Actor /\ u # Watcher /\ u # Free
      /\ op \in [Actor -> Ops] /\ Watcher \in Actor
  BY Apart DEF Request, Actor, EngineInv, TypeOK
<1>2. /\ op'[u] = new
      /\ \A b \in Actor : b # u => op'[b] = op[b]
  BY <1>1 DEF Request
<1>3. UNCHANGED <<saved, owner, prefs, connected, gone, events, pending, mutation, unsaved>>
  BY DEF Request, dbVars, engineVars, plugVars
<1>4. /\ kind \in {"activate", "deactivate", "edit", "rename", "delete"}
      /\ ds \subseteq connected /\ (kind = "rename" => ds = {})
  BY Distinct DEF EngineInv, TypeOK, Request
<1>5. new.phase = "wait" /\ new.kind = kind /\ new.ds = ds
  OBVIOUS
<1> HIDE DEF new
<1>6. LockInv'
  <2>1. mutation # u
    BY <1>1 DEF RememberInv, LockInv, Idle
  <2> QED BY <2>1, <1>1, <1>2, <1>3, <1>4, <1>5 DEF RememberInv, LockInv
<1>7. DoneInv' /\ ReadInv'
  BY <1>2, <1>3, <1>5 DEF RememberInv, DoneInv, ReadInv
<1>8. FreshInv'
  BY <1>2, <1>3, <1>4, <1>5 DEF RememberInv, FreshInv
<1>9. BookInv' /\ SavedInv' /\ EventInv' /\ KeyInv'
  BY <1>3 DEF RememberInv, BookInv, SavedInv, EventInv, KeyInv
<1>10. FollowInv'
  <2> SUFFICES ASSUME NEW d \in connected PROVE Follows(d)'
    BY <1>3 DEF FollowInv
  <2>1. Follows(d)
    BY DEF RememberInv, FollowInv
  <2>2. op'[Watcher] = op[Watcher]
    BY <1>1, <1>2
  <2>3. \A a \in Actor : op[a].phase \in {"applying", "persisting"} => op'[a] = op[a]
    BY <1>1, <1>2 DEF Idle
  <2> QED BY <2>1, <2>2, <2>3, <1>3 DEF Follows, Touched, Arrives, Taking, Lost
<1> QED BY <1>6, <1>7, <1>8, <1>9, <1>10 DEF RememberInv

\* What taking the lock makes of a request
LEMMA AcquireShape ==
  ASSUME EngineInv, NEW a \in Actor, Acquire(a)
  PROVE  /\ \A b \in Actor : b # a => op'[b] = op[b]
         /\ \/ /\ op'[a] = Idle /\ UNCHANGED <<mutation, saved>>
               /\ NeedsRow(op[a].kind) /\ ~Exists(op[a].p)
            \/ /\ op'[a].phase = "held" /\ op'[a].kind = op[a].kind
               /\ op'[a].p = op[a].p /\ op'[a].ds = op[a].ds
               /\ mutation' = a
               /\ op[a].kind \in {"activate", "edit"} =>
                    /\ Exists(op[a].p)
                    /\ op'[a].def.form = saved'[op[a].p].form
                    /\ op'[a].def.items = IF op[a].p \in Smart THEN library ELSE 0
               /\ \/ UNCHANGED saved /\ op[a].kind # "edit"
                  \/ /\ op[a].kind \in {"edit", "rename"} /\ Exists(op[a].p)
                     /\ saved'[op[a].p].rev = saved[op[a].p].rev + 1
                     /\ \A q \in Playlist : q # op[a].p => saved'[q] = saved[q]
<1> DEFINE p == op[a].p
           def == IF p = NoPlaylist \/ ~Exists(p) THEN NoDefinition ELSE Definition(p)
           got == [op[a] EXCEPT !.phase = "held", !.def = def]
<1>1. op[a] \in Ops /\ op \in [Actor -> Ops] /\ TypeOK
  BY DEF EngineInv, TypeOK
<1>2. op[a].kind \notin {"idle", "deactivate"} => p \in Playlist
  BY DEF EngineInv, OpsNameTheirs
<1>3. def \in Definitions
  BY <1>1, DefinitionFact DEF Ops, NoDefinition, Definitions
<1>4. Acquired(a) = [op EXCEPT ![a].phase = "held", ![a].def = def]
  BY DEF Acquired
<1>5. p \in Playlist /\ Exists(p) =>
        def.form = saved[p].form /\ def.items = IF p \in Smart THEN library ELSE 0
  BY Distinct DEF Definition
<1> HIDE DEF def
<1>6. Acquired(a) = [op EXCEPT ![a] = got]
  BY <1>1, <1>4 DEF Ops
<1>7. /\ got.phase = "held" /\ got.kind = op[a].kind /\ got.p = p
      /\ got.ds = op[a].ds /\ got.def = def /\ got \in Ops
  BY <1>1, <1>3 DEF Ops
<1> HIDE DEF got
<1>8. CASE op' = [op EXCEPT ![a] = Idle] /\ UNCHANGED <<mutation, saved>>
           /\ NeedsRow(op[a].kind) /\ ~Exists(p)
  BY <1>8, <1>1
<1>9. CASE /\ op[a].kind = "edit" /\ Exists(p)
           /\ \E form \in Form :
                /\ mutation' = a
                /\ saved' = [saved EXCEPT ![p] = [rev |-> @.rev + 1, form |-> form]]
                /\ op' = [Acquired(a) EXCEPT ![a].def.form = form]
  <2>1. PICK form \in Form :
                /\ mutation' = a
                /\ saved' = [saved EXCEPT ![p] = [rev |-> @.rev + 1, form |-> form]]
                /\ op' = [Acquired(a) EXCEPT ![a].def.form = form]
    BY <1>9
  <2>2. op' = [op EXCEPT ![a] = [got EXCEPT !.def.form = form]]
    BY <2>1, <1>6, <1>1
  <2>3. /\ op'[a] = [got EXCEPT !.def.form = form]
        /\ \A b \in Actor : b # a => op'[b] = op[b]
    BY <2>2, <1>1
  <2>4. op'[a].phase = "held" /\ op'[a].kind = op[a].kind /\ op'[a].p = p /\ op'[a].ds = op[a].ds
    BY <2>3, <1>7 DEF Ops
  <2>5. op'[a].def = [def EXCEPT !.form = form]
    BY <2>3, <1>7 DEF Ops
  <2>6. op'[a].def.form = form /\ op'[a].def.items = def.items
    BY <2>5, <1>3 DEF Definitions
  <2>7. /\ saved'[p].rev = saved[p].rev + 1 /\ saved'[p].form = form
        /\ \A q \in Playlist : q # p => saved'[q] = saved[q]
    BY <2>1, <1>1, <1>2, <1>9 DEF TypeOK
  <2> QED BY <2>1, <2>3, <2>4, <2>6, <2>7, <1>2, <1>5, <1>9
<1>10. CASE /\ op[a].kind = "rename" /\ Exists(p)
            /\ mutation' = a /\ saved' = [saved EXCEPT ![p].rev = @ + 1] /\ op' = Acquired(a)
  <2>1. saved[p] \in [rev : Nat, form : Nat] /\ saved \in [Playlist -> [rev : Nat, form : Nat]]
        /\ p \in Playlist
    BY <1>10, <1>1, <1>2 DEF TypeOK
  <2>2. saved' = [saved EXCEPT ![p] = [saved[p] EXCEPT !.rev = @ + 1]]
    BY <1>10
  <2>3. /\ saved'[p].rev = saved[p].rev + 1
        /\ \A q \in Playlist : q # p => saved'[q] = saved[q]
    BY <2>1, <2>2
  <2> QED BY <2>3, <1>1, <1>6, <1>7, <1>10
<1>11. CASE /\ mutation' = a /\ op' = Acquired(a) /\ UNCHANGED saved
            /\ ~(NeedsRow(op[a].kind) /\ ~Exists(p)) /\ op[a].kind # "edit"
  <2>1. op[a].kind \in {"activate", "edit"} => Exists(p) /\ p \in Playlist
    BY <1>2, <1>11 DEF NeedsRow
  <2> QED BY <2>1, <1>1, <1>5, <1>6, <1>7, <1>11
<1>12. CASE op[a].kind = "edit"
  BY <1>8, <1>9, <1>12 DEF Acquire, NeedsRow
<1>13. CASE op[a].kind # "edit"
  BY <1>8, <1>10, <1>11, <1>13 DEF Acquire
<1> QED BY <1>12, <1>13

LEMMA AcquireRemembers ==
  ASSUME EngineInv, RememberInv, NEW a \in Actor, Acquire(a)
  PROVE  RememberInv'
<1> DEFINE p == op[a].p
           unread == op'[a] = Idle /\ UNCHANGED <<mutation, saved>> /\ ~Exists(p) /\ NeedsRow(op[a].kind)
           held == /\ op'[a].phase = "held" /\ op'[a].kind = op[a].kind
                   /\ op'[a].p = p /\ op'[a].ds = op[a].ds /\ mutation' = a
           same == UNCHANGED saved
           edited == /\ op[a].kind \in {"edit", "rename"} /\ Exists(p)
                     /\ saved'[p].rev = saved[p].rev + 1
                     /\ \A q \in Playlist : q # p => saved'[q] = saved[q]
<1>1. UNCHANGED <<owner, prefs, connected, gone, events, pending, unsaved>>
  BY DEF Acquire, engineVars, plugVars, counts
<1>2. \A b \in Actor : b # a => op'[b] = op[b]
  BY AcquireShape
<1>3. unread \/ (held /\ same) \/ (held /\ edited)
  BY AcquireShape
<1>4. held /\ op[a].kind = "activate" => op'[a].def.form = saved[p].form /\ UNCHANGED saved
  BY AcquireShape DEF Idle
<1>5. op[a].phase = "wait" /\ mutation = Free /\ op[a].kind # "idle" /\ Free \notin Actor
  BY Apart DEF Acquire, LockFree, RememberInv, LockInv, Idle, Actor, Free, Watcher
<1>6. op[a].kind \notin {"idle", "deactivate"} => p \in Playlist
  BY DEF EngineInv, OpsNameTheirs
<1>7. saved \in [Playlist -> [rev : Nat, form : Nat]]
  BY DEF EngineInv, TypeOK
<1> HIDE DEF unread, held, same, edited
<1>8. LockInv'
  <2> SUFFICES ASSUME NEW b \in Actor
               PROVE  /\ op'[b].phase \in {"held", "applying", "persisting"} <=> mutation' = b
                      /\ op'[b].phase = "idle" => op'[b] = Idle
                      /\ op'[b].kind = "idle" => op'[b] = Idle
                      /\ op'[b].kind = "attach" => b = Watcher /\ \E d \in Display : op'[b].ds = {d}
                      /\ op'[b].kind = "rename" => op'[b].ds = {}
                      /\ op'[b].phase = "applying" => op'[b].kind \in Targeted
                      /\ b = Watcher => op'[b].kind \in {"idle", "activate", "attach"}
    BY DEF LockInv
  <2>1. CASE b = a
    BY <2>1, <1>3, <1>5 DEF RememberInv, LockInv, Idle, unread, held
  <2>2. CASE b # a
    BY <2>2, <1>2, <1>3, <1>5 DEF RememberInv, LockInv, unread, held
  <2> QED BY <2>1, <2>2
<1>9. DoneInv'
  BY <1>1, <1>2, <1>3 DEF RememberInv, DoneInv, Idle, unread, held
<1>10. ReadInv'
  <2> SUFFICES ASSUME NEW b \in Actor, op'[b].phase = "held", op'[b].kind = "activate"
               PROVE  op'[b].def.form = saved'[op'[b].p].form
    BY DEF ReadInv
  <2>1. CASE b = a
    BY <2>1, <1>3, <1>4 DEF Idle, unread, held
  <2>2. CASE b # a
    BY <2>2, <1>2, <1>5 DEF RememberInv, LockInv
  <2> QED BY <2>1, <2>2
<1>11. SavedInv'
  <2> SUFFICES ASSUME NEW q \in Playlist
               PROVE  saved'[q].rev \in {0, 1} => saved'[q].form = saved'[q].rev
    BY DEF SavedInv
  <2>1. saved[q].rev \in {0, 1} => saved[q].form = saved[q].rev
    BY DEF RememberInv, SavedInv
  <2>2. CASE saved'[q] = saved[q]
    BY <2>1, <2>2
  <2>3. CASE edited /\ q = p
    <3>1. saved[p] # Deleted /\ saved[p] \in [rev : Nat, form : Nat]
      BY <2>3, <1>7 DEF edited, Exists
    <3>2. saved[p].rev # 0
      BY <3>1, <2>1, <2>3 DEF Deleted
    <3> QED BY <3>1, <3>2, <2>3 DEF edited
  <2> QED BY <2>2, <2>3, <1>3 DEF unread, same, edited
<1>12. FreshInv'
  BY <1>1, <1>2, <1>3 DEF RememberInv, FreshInv, Idle, unread, held
<1>13. BookInv' /\ EventInv' /\ KeyInv'
  BY <1>1 DEF RememberInv, BookInv, EventInv, KeyInv
<1>14. \A q \in Playlist : Touched(q) => Touched(q)'
  <2> SUFFICES ASSUME NEW q \in Playlist, saved[q].rev # 1 PROVE saved'[q].rev # 1
    BY DEF Touched
  <2>1. CASE saved'[q] = saved[q]
    BY <2>1
  <2>2. CASE edited /\ q = p
    <3>1. saved[p].rev \in Nat /\ saved[p] \in [rev : Nat, form : Nat]
      BY <2>2, <1>7
    <3>2. saved[p].rev # 0
      BY <3>1, <2>2 DEF edited, Exists, Deleted, RememberInv, SavedInv
    <3> QED BY <3>1, <3>2, <2>2 DEF edited
  <2> QED BY <2>1, <2>2, <1>3 DEF unread, same, edited
<1>15. FollowInv'
  <2> SUFFICES ASSUME NEW d \in connected PROVE Follows(d)'
    BY <1>1 DEF FollowInv
  <2> DEFINE q == prefs[KeyOf[d]]
  <2>1. Follows(d)
    BY DEF RememberInv, FollowInv
  <2>2. CASE \E b \in Actor : op[b].phase \in {"applying", "persisting"} /\ d \in op[b].ds
    BY <2>2, <1>2, <1>5 DEF Follows
  <2>3. CASE owner[d] = q \/ Lost(d)
    BY <2>3, <1>1 DEF Follows, Lost
  <2>4. CASE /\ owner[d] = NoPlaylist /\ q \in Playlist
             /\ Touched(q) \/ Arrives(d) \/ d \in pending[q]
    <3>1. Touched(q)' \/ Arrives(d)' \/ d \in pending'[q]
      BY <2>4, <1>1, <1>14 DEF Arrives
    <3> QED BY <3>1, <2>4, <1>1 DEF Follows
  <2>5. CASE owner[d] = NoPlaylist /\ q \in Playlist /\ Taking(d, q)
    <3>1. CASE Taking(d, q)'
      BY <3>1, <2>5, <1>1 DEF Follows
    <3>2. CASE a = Watcher /\ unread
      <4>1. Touched(q)
        BY <3>2, <2>5 DEF unread, Taking, Exists, Deleted, Touched
      <4> QED BY <4>1, <1>14, <2>5, <1>1 DEF Follows
    <3>3. a # Watcher => Taking(d, q)'
      BY <2>5, <1>1, <1>2 DEF Taking, Actor
    <3>4. held => Taking(d, q)'
      BY <2>5, <1>1, <1>2 DEF Taking, held, Actor
    <3> QED BY <3>1, <3>2, <3>3, <3>4, <1>3
  <2> QED BY <2>1, <2>2, <2>3, <2>4, <2>5 DEF Follows
<1> QED BY <1>8, <1>9, <1>10, <1>11, <1>12, <1>13, <1>15 DEF RememberInv

\* The owners after a call: its displays have the owner they are to have, the others theirs
Given(a) == IF op[a].kind \in Targeted THEN op[a].p ELSE NoPlaylist

Owned(a, ds) ==
  \A d \in Display : owner'[d] = IF d \in ds THEN Given(a) ELSE owner[d]

\* An activation or attachment that is refused leaves the displays to those who wait
Declined(a) ==
  /\ op'[a] = Idle /\ mutation' = Free /\ UNCHANGED owner
  /\ \/ op[a].kind = "activate" /\ Touched(op[a].p) /\ UNCHANGED pending
     \/ /\ op[a].kind = "attach"
        /\ pending' = [pending EXCEPT ![op[a].p] = @ \cup op[a].ds]

Made(a) ==
  /\ op'[a].phase \in {"applying", "persisting"} /\ op'[a].kind = op[a].kind /\ op'[a].p = op[a].p
  /\ op'[a].phase = "applying" => op[a].kind \in Targeted
  /\ UNCHANGED <<mutation, pending>>
  /\ op'[a].ds = op[a].ds \/ op[a].kind \in {"edit", "delete"}
  /\ \A d \in op'[a].ds : d \in op[a].ds \/ owner[d] # NoPlaylist
  /\ Owned(a, op'[a].ds)

LEMMA CallShape ==
  ASSUME EngineInv, RememberInv, NEW a \in Actor, Call(a)
  PROVE  /\ \A b \in Actor : b # a => op'[b] = op[b]
         /\ Declined(a) \/ Made(a)
<1> DEFINE o == op[a]
<1>1. o \in Ops /\ op \in [Actor -> Ops] /\ owner \in [Display -> Playlist \cup {NoPlaylist}]
  BY DEF EngineInv, TypeOK
<1>2. o.kind \notin {"idle", "deactivate"} => o.p \in Playlist
  BY DEF EngineInv, OpsNameTheirs
<1>3. o.ds \subseteq Display
  BY <1>1 DEF Ops
<1>4. /\ o.kind = "attach" => \E d \in Display : o.ds = {d}
      /\ o.kind = "rename" => o.ds = {}
  BY DEF RememberInv, LockInv
<1>5. ASSUME Applying(a) \/ Persisting(a)
      PROVE  /\ \A b \in Actor : b # a => op'[b] = op[b]
             /\ op'[a].phase \in {"applying", "persisting"} /\ op'[a].kind = o.kind /\ op'[a].p = o.p
             /\ op'[a].ds = o.ds
  BY <1>1, <1>5 DEF Applying, Persisting, Ops
<1>6. ASSUME Refused(a)
      PROVE  /\ \A b \in Actor : b # a => op'[b] = op[b]
             /\ op'[a] = Idle /\ mutation' = Free
  BY <1>1, <1>6 DEF Refused
<1>7. CASE CallActivate(a)
  <2>1. CASE Empty(o.p, o.def) /\ Refused(a) /\ UNCHANGED engineVars
    <3>1. o.def.form = saved[o.p].form /\ o.p \in Playlist
      BY <1>2, <1>7 DEF Call, CallActivate, RememberInv, ReadInv
    <3>2. saved[o.p].form = 0
      BY <2>1, <3>1 DEF Empty
    <3>3. Touched(o.p)
      BY <3>1, <3>2 DEF RememberInv, SavedInv, Touched
    <3> QED BY <2>1, <3>3, <1>6, <1>7 DEF CallActivate, Declined, engineVars
  <2>2. CASE EngineActivate(o.p, o.def, o.ds) /\ Applying(a) /\ UNCHANGED mutation
    <3>1. owner' = [d \in Display |-> IF d \in o.ds THEN o.p ELSE owner[d]]
      BY <2>2 DEF EngineActivate
    <3>2. Given(a) = o.p
      BY <1>7 DEF CallActivate, Given, Targeted
    <3>3. Owned(a, o.ds)
      BY <3>1, <3>2 DEF Owned
    <3> QED BY <2>2, <3>3, <1>5, <1>7 DEF CallActivate, Made, Targeted
  <2> QED BY <2>1, <2>2, <1>7 DEF CallActivate
<1>8. CASE CallAttach(a)
  <2> DEFINE d == CHOOSE d \in o.ds : TRUE
  <2>1. o.kind = "attach" /\ o.ds = {d} /\ d \in Display
    BY <1>4, <1>8 DEF CallAttach
  <2>2. CASE /\ EngineAttach(o.p, d) /\ UNCHANGED <<mutation, pending>>
             /\ Applying(a) \/ Persisting(a)
    <3>1. owner' = [owner EXCEPT ![d] = o.p]
      BY <2>2 DEF EngineAttach
    <3>2. Given(a) = o.p
      BY <2>1 DEF Given, Targeted
    <3>3. Owned(a, o.ds)
      BY <2>1, <3>1, <3>2, <1>1 DEF Owned
    <3> QED BY <2>1, <2>2, <3>3, <1>5 DEF Made, Targeted
  <2>3. CASE /\ pending' = [pending EXCEPT ![o.p] = @ \cup {d}]
             /\ Refused(a) /\ UNCHANGED engineVars
    BY <2>1, <2>3, <1>6 DEF Declined, engineVars
  <2> QED BY <2>2, <2>3, <1>8 DEF CallAttach
<1>9. CASE CallOther(a)
  <2> DEFINE lost == {d \in Display : owner[d] = o.p /\ owner'[d] = NoPlaylist}
             ds == IF o.kind \in {"edit", "delete"} THEN lost ELSE o.ds
  <2>1. op' = [op EXCEPT ![a].phase = "persisting", ![a].ds = ds] /\ UNCHANGED <<mutation, pending>>
    BY <1>9 DEF CallOther
  <2>2. o.kind \in {"deactivate", "edit", "delete", "rename"}
    BY <1>9 DEF CallOther
  <2>3. Given(a) = NoPlaylist
    BY <2>2 DEF Given, Targeted
  <2>4. Owned(a, ds)
    <3>1. CASE o.kind = "deactivate"
      <4>1. owner' = [d \in Display |-> IF d \in o.ds THEN NoPlaylist ELSE owner[d]]
        BY <3>1, <1>9 DEF CallOther, EngineDeactivate, Disowned
      <4> QED BY <3>1, <4>1, <2>3 DEF Owned
    <3>2. ASSUME EngineEnd(o.p), o.kind \in {"edit", "delete"}
          PROVE  Owned(a, ds)
      <4>1. owner' = [d \in Display |-> IF owner[d] = o.p THEN NoPlaylist ELSE owner[d]]
        BY <3>2 DEF EngineEnd, Disowned
      <4>2. \A d \in Display : d \in ds <=> owner[d] = o.p
        BY <3>2, <4>1
      <4> QED BY <4>1, <4>2, <2>3 DEF Owned
    <3>3. CASE o.kind = "edit"
      <4>1. CASE EngineEnd(o.p)
        BY <3>2, <3>3, <4>1
      <4>2. CASE UNCHANGED owner
        <5>1. ds = {}
          BY <3>3, <4>2, <1>2, Distinct
        <5> QED BY <4>2, <5>1 DEF Owned
      <4> QED BY <3>3, <4>1, <4>2, <1>9 DEF CallOther, EngineRebuild, engineVars
    <3>4. CASE o.kind = "delete"
      BY <3>2, <3>4, <1>9 DEF CallOther
    <3>5. CASE o.kind = "rename"
      <4>1. UNCHANGED owner /\ ds = {}
        BY <3>5, <1>4, <1>9 DEF CallOther, engineVars
      <4> QED BY <4>1 DEF Owned
    <3> QED BY <3>1, <3>3, <3>4, <3>5, <2>2
  <2>5. \A d \in ds : d \in o.ds \/ owner[d] # NoPlaylist
    BY <1>2, Distinct
  <2>6. ds = o.ds \/ o.kind \in {"edit", "delete"}
    OBVIOUS
  <2> HIDE DEF ds
  <2>7. op' = [op EXCEPT ![a] = [o EXCEPT !.phase = "persisting", !.ds = ds]]
    BY <2>1, <1>1 DEF Ops
  <2>8. /\ op'[a].phase = "persisting" /\ op'[a].kind = o.kind /\ op'[a].p = o.p
        /\ op'[a].ds = ds /\ \A b \in Actor : b # a => op'[b] = op[b]
    BY <2>7, <1>1 DEF Ops
  <2> QED BY <2>1, <2>4, <2>5, <2>6, <2>8 DEF Made
<1> QED BY <1>7, <1>8, <1>9 DEF Call

LEMMA CallRemembers ==
  ASSUME EngineInv, RememberInv, NEW a \in Actor, Call(a)
  PROVE  RememberInv'
<1>1. UNCHANGED <<saved, prefs, connected, gone, events, unsaved>>
  BY DEF Call, dbVars, counts
<1>2. /\ \A b \in Actor : b # a => op'[b] = op[b]
      /\ Declined(a) \/ Made(a)
  BY CallShape
<1>3. op[a].phase = "held" /\ mutation = a /\ op[a].kind # "idle" /\ Free \notin Actor
  BY Apart DEF Call, RememberInv, LockInv, Idle, Actor, Free, Watcher
<1>4. op[a] \in Ops /\ connected \subseteq Display
  BY DEF EngineInv, TypeOK
<1>5. op[a].kind \notin {"idle", "deactivate"} => op[a].p \in Playlist
  BY DEF EngineInv, OpsNameTheirs
<1>6. LockInv'
  <2> SUFFICES ASSUME NEW b \in Actor
               PROVE  /\ op'[b].phase \in {"held", "applying", "persisting"} <=> mutation' = b
                      /\ op'[b].phase = "idle" => op'[b] = Idle
                      /\ op'[b].kind = "idle" => op'[b] = Idle
                      /\ op'[b].kind = "attach" => b = Watcher /\ \E d \in Display : op'[b].ds = {d}
                      /\ op'[b].kind = "rename" => op'[b].ds = {}
                      /\ op'[b].phase = "applying" => op'[b].kind \in Targeted
                      /\ b = Watcher => op'[b].kind \in {"idle", "activate", "attach"}
    BY DEF LockInv
  <2>1. CASE b = a
    BY <2>1, <1>2, <1>3 DEF RememberInv, LockInv, Idle, Declined, Made
  <2>2. CASE b # a
    BY <2>2, <1>2, <1>3 DEF RememberInv, LockInv, Declined, Made
  <2> QED BY <2>1, <2>2
<1>7. \A b \in Actor : b # a => op'[b].phase \notin {"held", "applying", "persisting"}
  BY <1>2, <1>3 DEF RememberInv, LockInv
<1>8. DoneInv'
  <2> SUFFICES ASSUME NEW b \in Actor, op'[b].phase \in {"applying", "persisting"}, NEW d \in op'[b].ds \cap connected
               PROVE  owner'[d] = IF op'[b].kind \in Targeted THEN op'[b].p ELSE NoPlaylist
    BY <1>1 DEF DoneInv
  <2>1. b = a /\ Made(a)
    BY <1>2, <1>7 DEF Declined, Idle
  <2> QED BY <2>1, <1>4 DEF Made, Owned, Given
<1>9. ReadInv'
  BY <1>2, <1>7 DEF ReadInv, Declined, Made, Idle
<1>10. BookInv'
  BY <1>2, <1>4 DEF RememberInv, BookInv, Declined, Made, Ops
<1>11. FreshInv'
  <2> SUFFICES ASSUME NEW d \in Display \ (connected \cup gone)
               PROVE  /\ owner'[d] = NoPlaylist
                      /\ \A b \in Actor : d \notin op'[b].ds
                      /\ \A p \in Playlist : d \notin pending'[p]
    BY <1>1 DEF RememberInv, FreshInv
  <2>1. /\ owner[d] = NoPlaylist
        /\ \A b \in Actor : d \notin op[b].ds
        /\ \A p \in Playlist : d \notin pending[p]
    BY DEF RememberInv, FreshInv
  <2>2. CASE Declined(a)
    <3>1. \A p \in Playlist : d \notin pending'[p]
      BY <2>1, <2>2 DEF Declined, RememberInv, BookInv
    <3> QED BY <2>1, <2>2, <3>1, <1>2 DEF Declined, Idle
  <2>3. CASE Made(a)
    BY <2>1, <2>3, <1>2 DEF Made, Owned
  <2> QED BY <2>2, <2>3, <1>2
<1>12. SavedInv' /\ EventInv' /\ KeyInv'
  BY <1>1 DEF RememberInv, SavedInv, EventInv, KeyInv
<1>13. FollowInv'
  <2> SUFFICES ASSUME NEW d \in connected PROVE Follows(d)'
    BY <1>1 DEF FollowInv
  <2> DEFINE q == prefs[KeyOf[d]]
  <2>1. Follows(d) /\ d \in Display
    BY <1>4 DEF RememberInv, FollowInv
  <2>2. \A b \in Actor : op[b].phase \notin {"applying", "persisting"}
    BY <1>3 DEF RememberInv, LockInv
  <2>3. CASE Made(a)
    <3>1. CASE d \in op'[a].ds
      BY <2>3, <3>1 DEF Follows, Made
    <3>2. CASE d \notin op'[a].ds
      <4>1. owner'[d] = owner[d]
        BY <2>1, <2>3, <3>2 DEF Made, Owned
      <4>2. CASE owner[d] = q \/ Lost(d)
        BY <4>1, <4>2, <1>1 DEF Follows, Lost
      <4>3. CASE owner[d] = NoPlaylist /\ q \in Playlist /\ (Touched(q) \/ Arrives(d) \/ d \in pending[q])
        BY <4>1, <4>3, <2>3, <1>1 DEF Follows, Touched, Arrives, Made
      <4>4. CASE owner[d] = NoPlaylist /\ q \in Playlist /\ Taking(d, q)
        <5>1. a # Watcher
          <6>1. SUFFICES ASSUME a = Watcher PROVE FALSE
            OBVIOUS
          <6>2. op[a].kind \in {"activate", "attach"} /\ d \in op[a].ds
            BY <6>1, <4>4, <1>3 DEF RememberInv, LockInv, Taking
          <6>3. op'[a].ds = op[a].ds
            BY <6>2, <2>3 DEF Made
          <6> QED BY <6>2, <6>3, <3>2
        <5>2. op'[Watcher] = op[Watcher]
          BY <5>1, <1>2 DEF Actor
        <5> QED BY <4>1, <4>4, <5>2, <1>1 DEF Follows, Taking
      <4> QED BY <4>2, <4>3, <4>4, <2>1, <2>2 DEF Follows
    <3> QED BY <3>1, <3>2
  <2>4. CASE Declined(a)
    <3>1. owner'[d] = owner[d] /\ \A p \in Playlist : pending[p] \subseteq pending'[p]
      BY <2>4 DEF Declined, RememberInv, BookInv
    <3>2. CASE owner[d] = q \/ Lost(d)
      BY <3>1, <3>2, <1>1 DEF Follows, Lost
    <3>3. CASE owner[d] = NoPlaylist /\ q \in Playlist /\ (Touched(q) \/ Arrives(d) \/ d \in pending[q])
      BY <3>1, <3>3, <1>1 DEF Follows, Touched, Arrives
    <3>4. CASE owner[d] = NoPlaylist /\ q \in Playlist /\ Taking(d, q)
      <4>1. CASE a # Watcher
        <5>1. op'[Watcher] = op[Watcher]
          BY <4>1, <1>2 DEF Actor
        <5> QED BY <3>1, <3>4, <5>1, <1>1 DEF Follows, Taking
      <4>2. CASE a = Watcher /\ op[a].kind = "activate"
        <5>1. Touched(q)
          BY <2>4, <3>4, <4>2 DEF Declined, Taking
        <5> QED BY <5>1, <3>1, <3>4, <1>1 DEF Follows, Touched
      <4>3. CASE a = Watcher /\ op[a].kind = "attach"
        <5>1. d \in pending'[q]
          BY <2>4, <3>4, <4>3 DEF Declined, Taking, RememberInv, BookInv
        <5> QED BY <5>1, <3>1, <3>4, <1>1 DEF Follows
      <4> QED BY <4>1, <4>2, <4>3, <2>4 DEF Declined
    <3> QED BY <3>2, <3>3, <3>4, <2>1, <2>2 DEF Follows
  <2> QED BY <2>3, <2>4, <1>2
<1> QED BY <1>6, <1>8, <1>9, <1>10, <1>11, <1>12, <1>13 DEF RememberInv

LEMMA FinishRemembers ==
  ASSUME EngineInv, RememberInv, NEW a \in Actor, Finish(a)
  PROVE  RememberInv'
<1> DEFINE keys == {KeyOf[d] : d \in op[a].ds \cap connected}
<1>1. UNCHANGED <<owner, connected, gone, events, pending>>
  BY DEF Finish, engineVars, plugVars
<1>2. /\ op \in [Actor -> Ops] /\ op'[a] = Idle
      /\ \A b \in Actor : b # a => op'[b] = op[b]
  BY DEF Finish, EngineInv, TypeOK
<1>3. op[a].phase \in {"applying", "persisting"} /\ mutation = a /\ op[a].kind # "idle" /\ mutation' = Free /\ Free \notin Actor
  BY Apart DEF Finish, RememberInv, LockInv, Idle, Actor, Free, Watcher
<1>4. connected \subseteq Display /\ KeyOf \in [Display -> Key]
  BY Distinct DEF EngineInv, TypeOK
<1>5. \A b \in Actor : b # a => op[b].phase \notin {"held", "applying", "persisting"}
  BY <1>3 DEF RememberInv, LockInv
<1>6. \A q \in Playlist : saved'[q] = saved[q] \/ saved'[q] = Deleted
  BY DEF Finish, EngineInv, TypeOK
<1>7. LockInv'
  <2> SUFFICES ASSUME NEW b \in Actor
               PROVE  /\ op'[b].phase \in {"held", "applying", "persisting"} <=> mutation' = b
                      /\ op'[b].phase = "idle" => op'[b] = Idle
                      /\ op'[b].kind = "idle" => op'[b] = Idle
                      /\ op'[b].kind = "attach" => b = Watcher /\ \E d \in Display : op'[b].ds = {d}
                      /\ op'[b].kind = "rename" => op'[b].ds = {}
                      /\ op'[b].phase = "applying" => op'[b].kind \in Targeted
                      /\ b = Watcher => op'[b].kind \in {"idle", "activate", "attach"}
    BY DEF LockInv
  <2>1. CASE b = a
    BY <2>1, <1>2, <1>3 DEF Idle
  <2>2. CASE b # a
    BY <2>2, <1>2, <1>3, <1>5 DEF RememberInv, LockInv
  <2> QED BY <2>1, <2>2
<1>8. DoneInv' /\ ReadInv'
  BY <1>2, <1>5 DEF DoneInv, ReadInv, Idle
<1>9. SavedInv'
  BY <1>6 DEF RememberInv, SavedInv, Deleted
<1>10. FreshInv'
  BY <1>1, <1>2 DEF RememberInv, FreshInv, Idle
<1>11. BookInv' /\ EventInv' /\ KeyInv'
  BY <1>1 DEF RememberInv, BookInv, EventInv, KeyInv
<1>12. FollowInv'
  <2> SUFFICES ASSUME NEW d \in connected PROVE Follows(d)'
    BY <1>1 DEF FollowInv
  <2> DEFINE q == prefs[KeyOf[d]]
  <2>1. Follows(d) /\ d \in Display /\ KeyOf[d] \in Key
    BY <1>4 DEF RememberInv, FollowInv
  <2>2. CASE d \in op[a].ds
    <3>1. KeyOf[d] \in keys
      BY <2>2
    <3>2. prefs'[KeyOf[d]] = IF op[a].kind \in {"activate", "attach"} THEN op[a].p ELSE NoPlaylist
      BY <2>1, <3>1 DEF Finish, Remembered
    <3>3. owner[d] = IF op[a].kind \in {"activate", "attach"} THEN op[a].p ELSE NoPlaylist
      BY <2>2, <1>3 DEF RememberInv, DoneInv, Targeted
    <3> QED BY <3>2, <3>3, <1>1 DEF Follows
  <2>3. CASE d \notin op[a].ds
    <3>1. KeyOf[d] \notin keys
      BY <2>3, <1>4 DEF RememberInv, KeyInv
    <3>2. prefs'[KeyOf[d]] = q
      BY <2>1, <3>1 DEF Finish, Remembered
    <3>3. \A b \in Actor : ~(op[b].phase \in {"applying", "persisting"} /\ d \in op[b].ds)
      BY <2>3, <1>5
    <3>4. CASE owner[d] = q \/ Lost(d)
      <4>1. unsaved'[d] = unsaved[d]
        BY <2>1, <2>3 DEF Finish
      <4> QED BY <3>2, <3>4, <4>1, <1>1 DEF Follows, Lost
    <3>5. CASE owner[d] = NoPlaylist /\ q \in Playlist /\ (Touched(q) \/ Arrives(d) \/ d \in pending[q])
      <4>1. Touched(q) => saved'[q].rev # 1
        BY <3>5, <1>6 DEF Touched, Deleted
      <4> QED BY <3>2, <3>5, <4>1, <1>1 DEF Follows, Touched, Arrives
    <3>6. CASE owner[d] = NoPlaylist /\ q \in Playlist /\ Taking(d, q)
      <4>1. op'[Watcher] = op[Watcher]
        BY <3>6, <1>2, <1>3 DEF Taking, Actor
      <4> QED BY <3>2, <3>6, <4>1, <1>1 DEF Follows, Taking
    <3> QED BY <3>3, <3>4, <3>5, <3>6, <2>1 DEF Follows
  <2> QED BY <2>2, <2>3
<1> QED BY <1>7, <1>8, <1>9, <1>10, <1>11, <1>12 DEF RememberInv

\* A failed apply leaves the settings; its displays keep the owner, or have none
LEMMA FailRemembers ==
  ASSUME EngineInv, RememberInv, NEW a \in Actor, ApplyFails(a)
  PROVE  RememberInv'
<1> DEFINE ds == op[a].ds
           dropped == op[a].kind = "activate" /\ a = Watcher
<1>1. UNCHANGED <<saved, prefs, connected, gone, events, pending>>
  BY DEF ApplyFails, dbVars, plugVars
<1>2. /\ op \in [Actor -> Ops] /\ op'[a] = Idle
      /\ \A b \in Actor : b # a => op'[b] = op[b]
  BY DEF ApplyFails, EngineInv, TypeOK
<1>3. /\ op[a].phase = "applying" /\ op[a].kind \in Targeted /\ op[a].p \in Playlist
      /\ mutation = a /\ mutation' = Free /\ Free \notin Actor
  <2>1. op[a].phase = "applying" /\ mutation' = Free /\ Free \notin Actor
    BY Apart DEF ApplyFails, Actor, Free, Watcher
  <2>2. mutation = a /\ op[a].kind \in Targeted
    BY <2>1 DEF RememberInv, LockInv
  <2> QED BY <2>1, <2>2 DEF EngineInv, OpsNameTheirs, Targeted
<1>4. \A b \in Actor : b # a => op[b].phase \notin {"held", "applying", "persisting"}
  BY <1>3 DEF RememberInv, LockInv
<1>5. /\ \A d \in Display : owner'[d] = IF dropped /\ d \in ds THEN NoPlaylist ELSE owner[d]
      /\ \A d \in Display : unsaved'[d] = IF d \notin ds THEN unsaved[d]
                                          ELSE IF dropped THEN "dropped" ELSE "kept"
  BY DEF ApplyFails, EngineDeactivate, Disowned, engineVars
<1>6. \A d \in ds \cap connected : owner[d] = op[a].p /\ owner[d] # NoPlaylist
  BY <1>3, Distinct DEF RememberInv, DoneInv
<1>7. connected \subseteq Display
  BY DEF EngineInv, TypeOK
<1> HIDE DEF ds, dropped
<1>8. LockInv'
  <2> SUFFICES ASSUME NEW b \in Actor
               PROVE  /\ op'[b].phase \in {"held", "applying", "persisting"} <=> mutation' = b
                      /\ op'[b].phase = "idle" => op'[b] = Idle
                      /\ op'[b].kind = "idle" => op'[b] = Idle
                      /\ op'[b].kind = "attach" => b = Watcher /\ \E d \in Display : op'[b].ds = {d}
                      /\ op'[b].kind = "rename" => op'[b].ds = {}
                      /\ op'[b].phase = "applying" => op'[b].kind \in Targeted
                      /\ b = Watcher => op'[b].kind \in {"idle", "activate", "attach"}
    BY DEF LockInv
  <2>1. CASE b = a
    BY <2>1, <1>2, <1>3 DEF Idle
  <2>2. CASE b # a
    BY <2>2, <1>2, <1>3, <1>4 DEF RememberInv, LockInv
  <2> QED BY <2>1, <2>2
<1>9. DoneInv' /\ ReadInv'
  BY <1>2, <1>4 DEF DoneInv, ReadInv, Idle
<1>10. FreshInv'
  BY <1>1, <1>2, <1>5 DEF RememberInv, FreshInv, Idle
<1>11. BookInv' /\ SavedInv' /\ EventInv' /\ KeyInv'
  BY <1>1 DEF RememberInv, BookInv, SavedInv, EventInv, KeyInv
<1>12. FollowInv'
  <2> SUFFICES ASSUME NEW d \in connected PROVE Follows(d)'
    BY <1>1 DEF FollowInv
  <2>1. Follows(d) /\ d \in Display
    BY <1>7 DEF RememberInv, FollowInv
  <2>2. CASE d \in ds
    BY <2>1, <2>2, <1>5, <1>6 DEF Follows, Lost
  <2>3. CASE d \notin ds
    <3>1. owner'[d] = owner[d] /\ unsaved'[d] = unsaved[d]
      BY <2>1, <2>3, <1>5
    <3>2. \A b \in Actor : ~(op[b].phase \in {"applying", "persisting"} /\ d \in op[b].ds)
      BY <2>3, <1>4 DEF ds
    <3>3. \A p \in Playlist : Taking(d, p) => Taking(d, p)'
      BY <1>2, <1>3 DEF Taking, Actor
    <3> QED BY <2>1, <3>1, <3>2, <3>3, <1>1 DEF Follows, Lost, Touched, Arrives
  <2> QED BY <2>2, <2>3
<1> QED BY <1>8, <1>9, <1>10, <1>11, <1>12 DEF RememberInv

\* An event at the end of the queue, and one taken from its head
LEMMA QueueGrows ==
  ASSUME NEW S, events \in Seq(S), NEW e \in S, events' = Append(events, e)
  PROVE  /\ Len(events') = Len(events) + 1 /\ Len(events) \in Nat
         /\ events'[Len(events) + 1] = e
         /\ \A i \in 1..Len(events) : events'[i] = events[i]
OBVIOUS

LEMMA QueueShrinks ==
  ASSUME NEW S, events \in Seq(S), events # <<>>, events' = Tail(events)
  PROVE  /\ Len(events') = Len(events) - 1 /\ Len(events) \in Nat
         /\ Head(events) = events[1] /\ 1 \in 1..Len(events)
         /\ \A i \in 1..Len(events') : events'[i] = events[i + 1] /\ i + 1 \in 1..Len(events)
         /\ \A i \in 1..Len(events) : i = 1 \/ (i - 1 \in 1..Len(events') /\ events'[i - 1] = events[i])
OBVIOUS

LEMMA PlugRemembers ==
  ASSUME EngineInv, RememberInv, NEW d \in Display, Unplug(d) \/ Plug(d)
  PROVE  RememberInv'
<1> DEFINE e == IF Plug(d) THEN <<"upsert", d>> ELSE <<"removed", d>>
<1>1. UNCHANGED <<saved, owner, prefs, pending, mutation, op, unsaved>>
  BY DEF Unplug, Plug, dbVars, engineVars, counts
<1>2. events \in Seq({"removed", "upsert"} \X Display) /\ e \in {"removed", "upsert"} \X Display
  BY DEF EngineInv, TypeOK
<1>3. events' = Append(events, e)
  BY DEF Unplug, Plug
<1>4. /\ Len(events') = Len(events) + 1 /\ Len(events) \in Nat
      /\ events'[Len(events) + 1] = e
      /\ \A i \in 1..Len(events) : events'[i] = events[i]
  <2> HIDE DEF e
  <2> QED BY <1>2, <1>3, QueueGrows
<1>5. \/ Plug(d) /\ connected' = connected \cup {d} /\ gone' = gone /\ d \notin connected \cup gone
      \/ ~Plug(d) /\ connected' = connected \ {d} /\ gone' = gone \cup {d} /\ d \in connected
  BY DEF Unplug, Plug
<1>6. BookInv' /\ LockInv' /\ ReadInv' /\ SavedInv'
  BY <1>1 DEF RememberInv, BookInv, LockInv, ReadInv, SavedInv
<1>7. DoneInv'
  <2> SUFFICES ASSUME NEW a \in Actor, op[a].phase \in {"applying", "persisting"}, NEW c \in op[a].ds \cap connected'
               PROVE  owner[c] = IF op[a].kind \in Targeted THEN op[a].p ELSE NoPlaylist
    BY <1>1 DEF DoneInv
  <2>1. c \in connected
    BY <1>5 DEF RememberInv, FreshInv
  <2> QED BY <2>1 DEF RememberInv, DoneInv
<1>8. FreshInv'
  BY <1>1, <1>5 DEF RememberInv, FreshInv
<1>9. EventInv'
  <2> SUFFICES ASSUME NEW i \in 1..Len(events')
               PROVE  events'[i][2] \in IF events'[i][1] = "removed" THEN gone' ELSE connected' \cup gone'
    BY DEF EventInv
  <2>1. CASE i \in 1..Len(events)
    BY <2>1, <1>4, <1>5 DEF RememberInv, EventInv
  <2>2. CASE i = Len(events) + 1
    BY <2>2, <1>4, <1>5
  <2> QED BY <2>1, <2>2, <1>4
<1>10. KeyInv'
  BY <1>5 DEF RememberInv, KeyInv, Plug
<1>11. FollowInv'
  <2> SUFFICES ASSUME NEW c \in connected' PROVE Follows(c)'
    BY DEF FollowInv
  <2>1. CASE c \in connected
    <3>1. Follows(c)
      BY <2>1 DEF RememberInv, FollowInv
    <3>2. Arrives(c) => Arrives(c)'
      BY <1>4 DEF Arrives
    <3> QED BY <3>1, <3>2, <1>1 DEF Follows, Touched, Taking, Lost
  <2>2. CASE c \notin connected
    <3>1. c = d /\ Plug(d) /\ c \in Display
      BY <2>2, <1>5
    <3>2. Len(events) + 1 \in 1..Len(events') /\ events'[Len(events) + 1] = <<"upsert", c>>
      BY <3>1, <1>4
    <3>3. Arrives(c)'
      BY <3>2 DEF Arrives
    <3>4. owner[c] = NoPlaylist
      BY <3>1, <1>5 DEF RememberInv, FreshInv
    <3>5. prefs[KeyOf[c]] \in Playlist \cup {NoPlaylist}
      BY <3>1, Distinct DEF EngineInv, TypeOK
    <3> QED BY <3>3, <3>4, <3>5, <1>1 DEF Follows
  <2> QED BY <2>1, <2>2
<1> QED BY <1>6, <1>7, <1>8, <1>9, <1>10, <1>11 DEF RememberInv

LEMMA RemovedRemembers ==
  ASSUME EngineInv, RememberInv, WatchRemoved
  PROVE  RememberInv'
<1> DEFINE d == Head(events)[2]
<1>1. UNCHANGED <<saved, prefs, connected, gone, mutation, op, unsaved>>
  BY DEF WatchRemoved, dbVars, counts
<1>2. events \in Seq({"removed", "upsert"} \X Display) /\ events # <<>> /\ events' = Tail(events)
  BY DEF EngineInv, TypeOK, WatchRemoved
<1>3. /\ Len(events') = Len(events) - 1 /\ Len(events) \in Nat
      /\ Head(events) = events[1] /\ 1 \in 1..Len(events)
      /\ \A i \in 1..Len(events') : events'[i] = events[i + 1] /\ i + 1 \in 1..Len(events)
      /\ \A i \in 1..Len(events) : i = 1 \/ (i - 1 \in 1..Len(events') /\ events'[i - 1] = events[i])
  BY <1>2, QueueShrinks
<1>4. d \in gone /\ d \notin connected /\ d \in Display /\ events[1][1] = "removed"
  <2>1. events[1][1] = "removed" /\ events[1] \in {"removed", "upsert"} \X Display
    BY <1>2, <1>3 DEF WatchRemoved
  <2>2. events[1][2] \in gone
    BY <2>1, <1>3 DEF RememberInv, EventInv
  <2> QED BY <2>1, <2>2, <1>3 DEF RememberInv, FreshInv
<1>5. /\ owner' = [c \in Display |-> IF c \in {d} THEN NoPlaylist ELSE owner[c]]
      /\ pending' = [p \in Playlist |-> pending[p] \ {d}]
  BY DEF WatchRemoved, EngineDeactivate, Disowned
<1> HIDE DEF d
<1>6. connected \subseteq Display
  BY DEF EngineInv, TypeOK
<1>7. \A c \in Display : c # d => owner'[c] = owner[c] /\ \A p \in Playlist : c \in pending'[p] <=> c \in pending[p]
  BY <1>5
<1>8. LockInv' /\ ReadInv' /\ SavedInv' /\ KeyInv'
  BY <1>1 DEF RememberInv, LockInv, ReadInv, SavedInv, KeyInv
<1>9. BookInv'
  BY <1>5 DEF RememberInv, BookInv
<1>10. DoneInv'
  BY <1>1, <1>4, <1>6, <1>7 DEF RememberInv, DoneInv
<1>11. FreshInv'
  BY <1>1, <1>4, <1>7 DEF RememberInv, FreshInv
<1>12. EventInv'
  BY <1>1, <1>3 DEF RememberInv, EventInv
<1>13. FollowInv'
  <2> SUFFICES ASSUME NEW c \in connected PROVE Follows(c)'
    BY <1>1 DEF FollowInv
  <2>1. Follows(c) /\ c # d /\ c \in Display
    BY <1>4, <1>6 DEF RememberInv, FollowInv
  <2>2. Arrives(c) => Arrives(c)'
    <3> SUFFICES ASSUME NEW i \in 1..Len(events), events[i] = <<"upsert", c>> PROVE Arrives(c)'
      BY DEF Arrives
    <3>1. i # 1
      BY <1>4
    <3>2. i - 1 \in 1..Len(events') /\ events'[i - 1] = <<"upsert", c>>
      BY <3>1, <1>3
    <3> QED BY <3>2 DEF Arrives
  <2> QED BY <2>1, <2>2, <1>1, <1>7 DEF Follows, Touched, Taking, Lost
<1> QED BY <1>8, <1>9, <1>10, <1>11, <1>12, <1>13 DEF RememberInv

\* The watcher takes an event or the displays it waited for
LEMMA WatcherRemembers ==
  ASSUME EngineInv, RememberInv, WatchUpsert \/ \E p \in Playlist : WatchSettled(p)
  PROVE  /\ UNCHANGED <<saved, owner, prefs, connected, gone, mutation, unsaved>>
         /\ op[Watcher] = Idle /\ op \in [Actor -> Ops] /\ Watcher \in Actor
         /\ mutation # Watcher
<1>1. UNCHANGED <<saved, owner, prefs, connected, gone, mutation, unsaved>> /\ op[Watcher] = Idle
  BY DEF WatchUpsert, WatchSettled, dbVars, engineVars, counts
<1>2. op \in [Actor -> Ops] /\ Watcher \in Actor
  BY DEF EngineInv, TypeOK, Actor
<1> QED BY <1>1, <1>2 DEF RememberInv, LockInv, Idle

\* A request of the watcher's, for displays that have been registered, disturbs nothing
LEMMA WatcherAsks ==
  ASSUME EngineInv, RememberInv,
         UNCHANGED <<saved, owner, prefs, connected, gone, mutation>>,
         op[Watcher] = Idle, mutation # Watcher, op \in [Actor -> Ops], Watcher \in Actor,
         NEW kind \in {"activate", "attach"}, NEW p, NEW ds \in SUBSET Display,
         ds \subseteq connected \cup gone,
         kind = "attach" => \E d \in Display : ds = {d},
         op' = [op EXCEPT ![Watcher] =
                  [kind |-> kind, phase |-> "wait", p |-> p, ds |-> ds, def |-> NoDefinition]]
  PROVE  /\ LockInv' /\ DoneInv' /\ ReadInv' /\ SavedInv' /\ KeyInv'
         /\ \A d \in Display \ (connected \cup gone) : \A a \in Actor : d \notin op'[a].ds
         /\ op'[Watcher].phase = "wait" /\ op'[Watcher].p = p /\ op'[Watcher].ds = ds
         /\ \A a \in Actor : a # Watcher => op'[a] = op[a]
<1> DEFINE new == [kind |-> kind, phase |-> "wait", p |-> p, ds |-> ds, def |-> NoDefinition]
<1>1. /\ op'[Watcher] = new
      /\ \A a \in Actor : a # Watcher => op'[a] = op[a]
  OBVIOUS
<1>2. new.kind = kind /\ new.phase = "wait" /\ new.p = p /\ new.ds = ds
  OBVIOUS
<1> HIDE DEF new
<1>3. LockInv'
  BY <1>1, <1>2 DEF RememberInv, LockInv, Idle
<1>4. DoneInv' /\ ReadInv'
  BY <1>1, <1>2 DEF RememberInv, DoneInv, ReadInv
<1>5. SavedInv' /\ KeyInv'
  BY DEF RememberInv, SavedInv, KeyInv
<1>6. \A d \in Display \ (connected \cup gone) : \A a \in Actor : d \notin op'[a].ds
  BY <1>1, <1>2 DEF RememberInv, FreshInv
<1> QED BY <1>1, <1>2, <1>3, <1>4, <1>5, <1>6

LEMMA UpsertRemembers ==
  ASSUME EngineInv, RememberInv, WatchUpsert
  PROVE  RememberInv'
<1> DEFINE d == Head(events)[2]
           p == IF owner[d] # NoPlaylist THEN owner[d] ELSE prefs[KeyOf[d]]
<1>1. /\ UNCHANGED <<saved, owner, prefs, connected, gone, mutation, unsaved>>
      /\ op[Watcher] = Idle /\ op \in [Actor -> Ops] /\ Watcher \in Actor
      /\ mutation # Watcher
  BY WatcherRemembers
<1>2. /\ events \in Seq({"removed", "upsert"} \X Display) /\ events # <<>>
      /\ events' = Tail(events) /\ UNCHANGED pending
  BY DEF EngineInv, TypeOK, WatchUpsert
<1>3. /\ Len(events') = Len(events) - 1 /\ Len(events) \in Nat
      /\ Head(events) = events[1] /\ 1 \in 1..Len(events)
      /\ \A i \in 1..Len(events') : events'[i] = events[i + 1] /\ i + 1 \in 1..Len(events)
      /\ \A i \in 1..Len(events) : i = 1 \/ (i - 1 \in 1..Len(events') /\ events'[i - 1] = events[i])
  BY <1>2, QueueShrinks
<1>4. d \in connected \cup gone /\ d \in Display
  BY <1>2, <1>3 DEF RememberInv, EventInv, WatchUpsert
<1>5. op' = IF p = NoPlaylist THEN op
            ELSE [op EXCEPT ![Watcher] =
                    [kind |-> "attach", phase |-> "wait", p |-> p, ds |-> {d}, def |-> NoDefinition]]
  BY DEF WatchUpsert
<1>6. events[1][2] = d
  BY <1>3
<1> HIDE DEF d, p
<1>7. /\ LockInv' /\ DoneInv' /\ ReadInv' /\ SavedInv' /\ KeyInv'
      /\ \A c \in Display \ (connected \cup gone) : \A a \in Actor : c \notin op'[a].ds
      /\ p # NoPlaylist => op'[Watcher].phase = "wait" /\ op'[Watcher].p = p /\ op'[Watcher].ds = {d}
      /\ \A a \in Actor : a # Watcher => op'[a] = op[a]
  <2>1. CASE p = NoPlaylist
    <3>1. op' = op
      BY <2>1, <1>5
    <3>2. LockInv' /\ DoneInv' /\ ReadInv' /\ SavedInv' /\ KeyInv'
      BY <3>1, <1>1 DEF RememberInv, LockInv, DoneInv, ReadInv, SavedInv, KeyInv
    <3> QED BY <2>1, <3>1, <3>2 DEF RememberInv, FreshInv
  <2>2. CASE p # NoPlaylist
    <3> DEFINE ds == {d}
    <3>1. op' = [op EXCEPT ![Watcher] =
                    [kind |-> "attach", phase |-> "wait", p |-> p, ds |-> ds, def |-> NoDefinition]]
      BY <2>2, <1>5
    <3>2. ds \in SUBSET Display /\ ds \subseteq connected \cup gone /\ \E c \in Display : ds = {c}
      BY <1>4
    <3> HIDE DEF ds
    <3>3. /\ LockInv' /\ DoneInv' /\ ReadInv' /\ SavedInv' /\ KeyInv'
          /\ \A c \in Display \ (connected \cup gone) : \A a \in Actor : c \notin op'[a].ds
          /\ op'[Watcher].phase = "wait" /\ op'[Watcher].p = p /\ op'[Watcher].ds = ds
          /\ \A a \in Actor : a # Watcher => op'[a] = op[a]
      BY <3>1, <3>2, <1>1, WatcherAsks
    <3> QED BY <3>3 DEF ds
  <2> QED BY <2>1, <2>2
<1>8. BookInv' /\ FreshInv'
  BY <1>1, <1>2, <1>7 DEF RememberInv, BookInv, FreshInv
<1>9. EventInv'
  BY <1>1, <1>3 DEF RememberInv, EventInv
<1>10. FollowInv'
  <2> SUFFICES ASSUME NEW c \in connected PROVE Follows(c)'
    BY <1>1 DEF FollowInv
  <2> DEFINE q == prefs[KeyOf[c]]
  <2>1. Follows(c)
    BY DEF RememberInv, FollowInv
  <2>2. CASE owner[c] = q \/ Lost(c)
    BY <2>2, <1>1 DEF Follows, Lost
  <2>3. CASE \E a \in Actor : op[a].phase \in {"applying", "persisting"} /\ c \in op[a].ds
    BY <2>3, <1>1, <1>7 DEF Follows, Idle
  <2>4. CASE owner[c] = NoPlaylist /\ q \in Playlist /\ (Touched(q) \/ c \in pending[q])
    BY <2>4, <1>1, <1>2 DEF Follows, Touched
  <2>5. CASE owner[c] = NoPlaylist /\ q \in Playlist /\ Arrives(c)
    <3>1. CASE c = d
      <4>1. p = q /\ p # NoPlaylist
        BY <2>5, <3>1, Distinct DEF p
      <4>2. Taking(c, q)'
        BY <3>1, <4>1, <1>1, <1>7 DEF Taking
      <4> QED BY <2>5, <4>2, <1>1 DEF Follows
    <3>2. CASE c # d
      <4>1. PICK i \in 1..Len(events) : events[i] = <<"upsert", c>>
        BY <2>5 DEF Arrives
      <4>2. i # 1
        BY <3>2, <4>1, <1>6
      <4>3. i - 1 \in 1..Len(events') /\ events'[i - 1] = <<"upsert", c>>
        BY <4>1, <4>2, <1>3
      <4>4. Arrives(c)'
        BY <4>3 DEF Arrives
      <4> QED BY <2>5, <4>4, <1>1 DEF Follows
    <3> QED BY <3>1, <3>2
  <2>6. ~Taking(c, q)
    BY <1>1 DEF Taking, Idle
  <2> QED BY <2>1, <2>2, <2>3, <2>4, <2>5, <2>6 DEF Follows
<1> QED BY <1>7, <1>8, <1>9, <1>10 DEF RememberInv

LEMMA SettledRemembers ==
  ASSUME EngineInv, RememberInv, NEW p \in Playlist, WatchSettled(p)
  PROVE  RememberInv'
<1>1. /\ UNCHANGED <<saved, owner, prefs, connected, gone, mutation, unsaved>>
      /\ op[Watcher] = Idle /\ op \in [Actor -> Ops] /\ Watcher \in Actor
      /\ mutation # Watcher
  BY WatcherRemembers
<1>2. UNCHANGED events /\ pending' = [pending EXCEPT ![p] = {}]
  BY DEF WatchSettled
<1>3. Collected(p) \subseteq connected /\ connected \subseteq Display
  BY DEF Collected, EngineInv, TypeOK
<1>4. /\ LockInv' /\ DoneInv' /\ ReadInv' /\ SavedInv' /\ KeyInv'
      /\ \A c \in Display \ (connected \cup gone) : \A a \in Actor : c \notin op'[a].ds
      /\ Collected(p) # {} =>
           op'[Watcher].phase = "wait" /\ op'[Watcher].p = p /\ op'[Watcher].ds = Collected(p)
      /\ \A a \in Actor : a # Watcher => op'[a] = op[a]
  <2>1. CASE Collected(p) = {}
    <3>1. op' = op
      BY <2>1 DEF WatchSettled
    <3>2. LockInv' /\ DoneInv' /\ ReadInv' /\ SavedInv' /\ KeyInv'
      BY <3>1, <1>1 DEF RememberInv, LockInv, DoneInv, ReadInv, SavedInv, KeyInv
    <3> QED BY <2>1, <3>1, <3>2 DEF RememberInv, FreshInv
  <2>2. CASE Collected(p) # {}
    <3> DEFINE ds == Collected(p)
    <3>1. op' = [op EXCEPT ![Watcher] =
                    [kind |-> "activate", phase |-> "wait", p |-> p, ds |-> ds, def |-> NoDefinition]]
      BY <2>2 DEF WatchSettled
    <3>2. ds \in SUBSET Display /\ ds \subseteq connected \cup gone
      BY <1>3
    <3> HIDE DEF ds
    <3>3. /\ LockInv' /\ DoneInv' /\ ReadInv' /\ SavedInv' /\ KeyInv'
          /\ \A c \in Display \ (connected \cup gone) : \A a \in Actor : c \notin op'[a].ds
          /\ op'[Watcher].phase = "wait" /\ op'[Watcher].p = p /\ op'[Watcher].ds = ds
          /\ \A a \in Actor : a # Watcher => op'[a] = op[a]
      BY <3>1, <3>2, <1>1, WatcherAsks
    <3> QED BY <3>3 DEF ds
  <2> QED BY <2>1, <2>2
<1>5. \A q \in Playlist : pending'[q] = IF q = p THEN {} ELSE pending[q]
  BY <1>2 DEF RememberInv, BookInv
<1>6. BookInv' /\ EventInv'
  BY <1>1, <1>2 DEF RememberInv, BookInv, EventInv
<1>7. FreshInv'
  BY <1>1, <1>4, <1>5 DEF RememberInv, FreshInv
<1>8. FollowInv'
  <2> SUFFICES ASSUME NEW c \in connected PROVE Follows(c)'
    BY <1>1 DEF FollowInv
  <2> DEFINE q == prefs[KeyOf[c]]
  <2>1. Follows(c)
    BY DEF RememberInv, FollowInv
  <2>2. CASE owner[c] = q \/ Lost(c)
    BY <2>2, <1>1 DEF Follows, Lost
  <2>3. CASE \E a \in Actor : op[a].phase \in {"applying", "persisting"} /\ c \in op[a].ds
    BY <2>3, <1>1, <1>4 DEF Follows, Idle
  <2>4. CASE owner[c] = NoPlaylist /\ q \in Playlist /\ (Touched(q) \/ Arrives(c))
    BY <2>4, <1>1, <1>2 DEF Follows, Touched, Arrives
  <2>5. CASE owner[c] = NoPlaylist /\ q \in Playlist /\ c \in pending[q]
    <3>1. CASE q = p
      <4>1. c \in Collected(p)
        BY <2>5, <3>1 DEF Collected
      <4>2. Taking(c, q)'
        BY <3>1, <4>1, <1>1, <1>4 DEF Taking
      <4> QED BY <2>5, <4>2, <1>1 DEF Follows
    <3>2. CASE q # p
      BY <2>5, <3>2, <1>1, <1>5 DEF Follows
    <3> QED BY <3>1, <3>2
  <2>6. ~Taking(c, q)
    BY <1>1 DEF Taking, Idle
  <2> QED BY <2>1, <2>2, <2>3, <2>4, <2>5, <2>6 DEF Follows
<1> QED BY <1>4, <1>6, <1>7, <1>8 DEF RememberInv

\* The refresher and the library leave alone what the settings follow: an empty query is
\* no reason to end a session
LEMMA RefresherRemembers ==
  ASSUME EngineInv, RememberInv, TicketInv,
         \/ LibraryWrites \/ LibraryAnnounces \/ Wake
         \/ \E t \in refresher.tickets : ReadDetail(t) \/ ReadFails(t) \/ Refresh(t) \/ RefreshFails(t)
  PROVE  RememberInv'
<1>1. CASE LibraryWrites \/ LibraryAnnounces \/ Wake
  <2>1. UNCHANGED bookVars
    BY <1>1 DEF LibraryWrites, LibraryAnnounces, Wake, bookVars, dbVars, engineVars, plugVars,
                counts
  <2> QED BY <2>1, BookAlone
<1>2. ASSUME NEW t \in refresher.tickets, ReadDetail(t) \/ ReadFails(t)
      PROVE  RememberInv'
  <2>1. UNCHANGED bookVars
    BY <1>2 DEF ReadDetail, ReadFails, bookVars, dbVars, engineVars, plugVars, counts
  <2> QED BY <2>1, BookAlone
<1>3. ASSUME NEW t \in refresher.tickets, Refresh(t) \/ RefreshFails(t)
      PROVE  RememberInv'
  <2>1. ~Empty(t.p, refresher.detail.def)
    BY DEF TicketInv, Empty
  <2>2. UNCHANGED owner
    BY <1>3, <2>1 DEF Refresh, RefreshFails, EngineRebuild, engineVars
  <2>3. UNCHANGED bookVars
    BY <1>3, <2>2 DEF Refresh, RefreshFails, bookVars, dbVars, plugVars, counts
  <2> QED BY <2>3, BookAlone
<1> QED BY <1>1, <1>2, <1>3

LEMMA TicketStep ==
  ASSUME EngineInv, TicketInv, [Next]_vars
  PROVE  TicketInv'
<1>1. refresher = [seen |-> refresher.seen, tickets |-> refresher.tickets,
                   failed |-> refresher.failed, detail |-> refresher.detail]
  BY DEF EngineInv, TypeOK
<1>2. CASE UNCHANGED refresher
  BY <1>2 DEF TicketInv
<1>3. CASE Wake
  BY <1>3 DEF Wake, Ticket, TicketInv
<1>4. ASSUME NEW t \in refresher.tickets,
             ReadDetail(t) \/ ReadFails(t) \/ Refresh(t) \/ RefreshFails(t)
      PROVE  TicketInv'
  <2>1. refresher'.tickets \subseteq refresher.tickets
    BY <1>1, <1>4 DEF ReadDetail, ReadFails, Refresh, RefreshFails
  <2> QED BY <2>1 DEF TicketInv
<1> QED BY <1>2, <1>3, <1>4 DEF Next, vars, Request, Acquire, Call, Finish, ApplyFails, Unplug, Plug,
           WatchRemoved, WatchUpsert, WatchSettled, LibraryWrites, LibraryAnnounces

LEMMA RememberStep ==
  ASSUME EngineInv, TicketInv, RememberInv, [Next]_vars
  PROVE  RememberInv'
<1>1. CASE UNCHANGED vars
  <2>1. UNCHANGED bookVars
    BY <1>1 DEF vars, bookVars
  <2> QED BY <2>1, BookAlone
<1>2. CASE Next
  BY <1>2, RequestRemembers, AcquireRemembers, CallRemembers, FinishRemembers, FailRemembers,
     PlugRemembers, RemovedRemembers, UpsertRemembers, SettledRemembers, RefresherRemembers DEF Next
<1> QED BY <1>1, <1>2

\* Once nothing is under way, the settings name the owner of every connected display, unless
\* the last apply for it failed: it then keeps an owner that is not remembered, or has none.
THEOREM OwnerRemembered == Spec => []RemembersOwner
<1> DEFINE Inv == EngineInv /\ TicketInv /\ RememberInv
<1>1. Init => Inv
  BY EngineInvInit, RememberInit
<1>2. Inv /\ [Next]_vars => Inv'
  BY EngineInvNext, TicketStep, RememberStep
<1>3. Inv => RemembersOwner
  <2> SUFFICES ASSUME Inv, Quiet, NEW d \in connected
               PROVE  Remembers(d, prefs[KeyOf[d]])
    BY DEF RemembersOwner
  <2>1. Follows(d)
    BY DEF RememberInv, FollowInv
  <2>2. \A a \in Actor : op[a] = Idle
    BY DEF Quiet
  <2>3. ~(\E a \in Actor : op[a].phase \in {"applying", "persisting"})
    BY <2>2 DEF Idle
  <2>4. \A p \in Playlist : d \notin pending[p] /\ ~Taking(d, p)
    BY <2>2 DEF Quiet, Taking, Idle, Actor
  <2>5. ~Arrives(d)
    BY DEF Quiet, Arrives
  <2> QED BY <2>1, <2>3, <2>4, <2>5 DEF Follows, Lost, Remembers
<1> HIDE DEF Inv
<1> QED BY <1>1, <1>2, <1>3, PTL DEF Spec

----------------------------------------------------------------------------
(* What the sessions run.                                                   *)

\* A request that has read the definition of p, and not made its call
HeldFor(a, p) == op[a].phase = "held" /\ op[a].kind \in {"activate", "edit"} /\ op[a].p = p
Editing(p) == \E a \in Actor : HeldFor(a, p) /\ op[a].kind = "edit"

\* No edit takes a revision and leaves the items alone
Unnamed == \A a \in Actor : op[a].kind # "rename"

CountInv ==
  /\ generation \in Nat /\ announced \in Nat /\ refresher.seen \in Nat
  /\ announced <= library /\ refresher.seen <= generation

\* Sessions are of rows that are there
ThereInv ==
  /\ \A p \in Playlist : Live(p) => Exists(p)
  /\ \A a \in Actor : op[a].phase \in {"applying", "persisting"} /\ op[a].kind = "delete" => ~Live(op[a].p)

\* A session has the form that is saved, or an edit is about to give it that
FormInv ==
  /\ \A a \in Actor, p \in Playlist : HeldFor(a, p) =>
       Exists(p) /\ op[a].def.form = saved[p].form /\ (p \notin Smart => op[a].def.items = 0)
  /\ \A p \in Playlist : Live(p) =>
       /\ session[p].definition.form = saved[p].form \/ Editing(p)
       /\ p \notin Smart => session[p].definition.items = 0

\* What the refresher has read is as it is saved, if the revision still is
ReadingInv ==
  LET p == refresher.detail.p
  IN  p \in Playlist =>
        /\ refresher.detail.rev \in Nat \ {0}
        /\ \/ saved[p].rev > refresher.detail.rev
           \/ saved[p].rev = 0
           \/ /\ saved[p].rev = refresher.detail.rev
              /\ saved[p].form = refresher.detail.def.form

OneTicket == \A t, u \in refresher.tickets : t.p = u.p => t = u

\* The refresher will install what it reads for this ticket
Good(t) == SameSession(t) /\ (refresher.detail.p = t.p => saved[t.p].rev = refresher.detail.rev)

\* Since the refresher woke nothing was announced, and nothing remains to be
Current == library = announced /\ generation = refresher.seen

\* A smart session runs what its query answers, or somebody is about to see to it
Served(p) ==
  \/ session[p].definition.items = library
  \/ Editing(p)
  \/ \E t \in refresher.tickets : t.p = p /\ Good(t)
  \/ p \in refresher.failed /\ \A t \in refresher.tickets : t.p # p

ItemsInv ==
  Current =>
    /\ \A a \in Actor, p \in Smart : HeldFor(a, p) => op[a].def.items = library
    /\ refresher.detail.p \in Smart => refresher.detail.def.items = library
    /\ \A p \in Smart : Live(p) => Served(p)

ServeInv ==
  /\ Unnamed /\ CountInv /\ ThereInv /\ FormInv
  /\ ReadingInv /\ OneTicket /\ ItemsInv

\* Calls come within 100 ms of the read, and no playlist is renamed
Prompt == ~SlowCall /\ \A m \in Mixes : "rename" \notin m.kinds

LEMMA ServeInit == Init => ServeInv
<1> SUFFICES ASSUME Init PROVE ServeInv
  OBVIOUS
<1>1. op = [a \in Actor |-> Idle] /\ \A p \in Playlist : ~Live(p)
  BY DEF Init, Live
<1>2. /\ refresher.seen = 0 /\ refresher.tickets = {} /\ refresher.failed = {}
      /\ refresher.detail = NoDetail /\ generation = 1 /\ library = 0 /\ announced = 0
  BY DEF Init
<1>3. Unnamed /\ ThereInv /\ FormInv
  BY <1>1 DEF Unnamed, ThereInv, FormInv, HeldFor, Idle
<1>4. CountInv /\ ReadingInv /\ OneTicket /\ ItemsInv
  BY <1>2, Distinct DEF CountInv, ReadingInv, OneTicket, ItemsInv, Current, NoDetail
<1> QED BY <1>3, <1>4 DEF ServeInv

\* What the invariant is about, beside the requests
serveVars == <<saved, library, announced, generation, session, refresher>>

\* A step in which requests arrive or are given up, but none is at its call
LEMMA ServeWaiting ==
  ASSUME ServeInv, UNCHANGED serveVars,
         \A a \in Actor : \/ op'[a] = op[a]
                          \/ /\ op[a].phase \notin {"held", "applying", "persisting"}
                             /\ op'[a].phase \notin {"held", "applying", "persisting"}
                             /\ op'[a].kind # "rename"
  PROVE  ServeInv'
<1>1. \A a \in Actor, p \in Playlist :
        /\ HeldFor(a, p)' => HeldFor(a, p) /\ op'[a] = op[a]
        /\ HeldFor(a, p) => HeldFor(a, p)' /\ op'[a] = op[a]
  BY DEF HeldFor
<1>2. \A p \in Playlist : Editing(p) => Editing(p)'
  BY <1>1 DEF Editing
<1>3. Unnamed' /\ CountInv' /\ ReadingInv' /\ OneTicket'
  BY DEF ServeInv, serveVars, Unnamed, CountInv, ReadingInv, OneTicket
<1>4. ThereInv'
  BY DEF ServeInv, serveVars, ThereInv, Live, Exists
<1>5. FormInv'
  BY <1>1, <1>2 DEF ServeInv, serveVars, FormInv, Live, Exists
<1>6. ItemsInv'
  <2>1. \A p \in Smart : Served(p) => Served(p)'
    BY <1>2, Distinct DEF Served, serveVars, Good, SameSession, Live
  <2> QED BY <1>1, <2>1, Distinct DEF ServeInv, serveVars, ItemsInv, Current, Live
<1> QED BY <1>3, <1>4, <1>5, <1>6 DEF ServeInv

\* The library changes, or says so: what was read may be old, and the refresher will wake
LEMMA LibraryServes ==
  ASSUME EngineInv, ServeInv, LibraryWrites \/ LibraryAnnounces
  PROVE  ServeInv'
<1>1. UNCHANGED <<saved, session, refresher, op>>
  BY DEF LibraryWrites, LibraryAnnounces, engineVars
<1>2. library \in Nat
  BY DEF EngineInv, TypeOK
<1>3. CountInv' /\ ~Current'
  BY <1>1, <1>2 DEF ServeInv, CountInv, Current, LibraryWrites, LibraryAnnounces
<1>4. Unnamed' /\ ReadingInv' /\ OneTicket' /\ ThereInv'
  BY <1>1 DEF ServeInv, Unnamed, ReadingInv, OneTicket, ThereInv, Live, Exists
<1>5. FormInv'
  BY <1>1 DEF ServeInv, FormInv, HeldFor, Editing, Live, Exists
<1> QED BY <1>3, <1>4, <1>5 DEF ServeInv, ItemsInv

LEMMA AcquireServes ==
  ASSUME EngineInv, RememberInv, ServeInv, NEW a \in Actor, Acquire(a)
  PROVE  ServeInv'
<1> DEFINE p == op[a].p
           unread == op'[a] = Idle /\ UNCHANGED saved
           held == /\ op'[a].phase = "held" /\ op'[a].kind = op[a].kind /\ op'[a].p = p
                   /\ op[a].kind \in {"activate", "edit"} =>
                        /\ Exists(p) /\ op'[a].def.form = saved'[p].form
                        /\ op'[a].def.items = IF p \in Smart THEN library ELSE 0
           edited == /\ op[a].kind = "edit" /\ Exists(p)
                     /\ saved'[p].rev = saved[p].rev + 1
                     /\ \A q \in Playlist : q # p => saved'[q] = saved[q]
<1>1. UNCHANGED <<library, announced, generation, session, refresher>>
  BY DEF Acquire, engineVars
<1>2. \A b \in Actor : b # a => op'[b] = op[b]
  BY AcquireShape
<1>3. unread \/ (held /\ UNCHANGED saved) \/ (held /\ edited)
  BY AcquireShape DEF ServeInv, Unnamed
<1>4. op[a].phase = "wait" /\ \A b \in Actor : op[b].phase \notin {"held", "applying", "persisting"}
  BY Apart DEF Acquire, LockFree, RememberInv, LockInv, Actor, Free, Watcher
<1>5. saved \in [Playlist -> [rev : Nat, form : Nat]]
  BY DEF EngineInv, TypeOK
<1>6. op[a].kind \notin {"idle", "deactivate"} => p \in Playlist
  BY DEF EngineInv, OpsNameTheirs
<1> HIDE DEF unread, held, edited
<1>7. \A q \in Playlist : saved[q] = Deleted <=> saved[q].rev = 0
  BY <1>5 DEF Deleted, RememberInv, SavedInv
<1>8. \A q \in Playlist : Exists(q) => Exists(q)'
  <2> SUFFICES ASSUME NEW q \in Playlist, saved[q] # Deleted PROVE saved'[q] # Deleted
    BY DEF Exists
  <2>1. CASE saved'[q] = saved[q]
    BY <2>1
  <2>2. CASE edited /\ q = p
    <3>1. saved[q].rev \in Nat /\ saved'[q].rev = saved[q].rev + 1
      BY <2>2, <1>5 DEF edited
    <3> QED BY <3>1 DEF Deleted
  <2> QED BY <2>1, <2>2, <1>3 DEF unread, edited
<1>9. \A b \in Actor, q \in Playlist : HeldFor(b, q)' =>
        /\ b = a /\ held /\ q = p /\ Exists(q) /\ op'[b].def.form = saved'[q].form
        /\ op'[b].def.items = IF q \in Smart THEN library ELSE 0
  BY <1>2, <1>3, <1>4 DEF HeldFor, held, unread, Idle
<1>10. \A q \in Playlist : saved'[q] = saved[q] \/ (q = p /\ Editing(q)' /\ edited)
  BY <1>3 DEF Editing, HeldFor, held, edited, unread
<1>11. \A q \in Playlist : ~Editing(q)
  BY <1>4 DEF Editing, HeldFor
<1>12. Unnamed' /\ CountInv' /\ OneTicket'
  BY <1>1, <1>2, <1>3 DEF ServeInv, Unnamed, CountInv, OneTicket, unread, held, Idle
<1>13. ThereInv'
  BY <1>1, <1>2, <1>3, <1>4, <1>8 DEF ServeInv, ThereInv, Live, unread, held, Idle
<1>14. FormInv'
  BY <1>1, <1>8, <1>9, <1>10, <1>11 DEF ServeInv, FormInv, Live
<1>15. ReadingInv'
  <2> DEFINE q == refresher.detail.p
  <2> SUFFICES ASSUME q \in Playlist
               PROVE  /\ refresher.detail.rev \in Nat \ {0}
                      /\ \/ saved'[q].rev > refresher.detail.rev
                         \/ saved'[q].rev = 0
                         \/ /\ saved'[q].rev = refresher.detail.rev
                            /\ saved'[q].form = refresher.detail.def.form
    BY <1>1 DEF ReadingInv
  <2>1. /\ refresher.detail.rev \in Nat \ {0}
        /\ \/ saved[q].rev > refresher.detail.rev
           \/ saved[q].rev = 0
           \/ /\ saved[q].rev = refresher.detail.rev
              /\ saved[q].form = refresher.detail.def.form
    BY DEF ServeInv, ReadingInv
  <2>2. CASE saved'[q] = saved[q]
    BY <2>1, <2>2
  <2>3. CASE edited /\ q = p
    <3>1. saved[q].rev \in Nat \ {0} /\ saved'[q].rev = saved[q].rev + 1
      BY <2>3, <1>5, <1>7 DEF edited, Exists
    <3> QED BY <2>1, <3>1
  <2> QED BY <2>2, <2>3, <1>10
<1>16. ItemsInv'
  <2> SUFFICES ASSUME Current
               PROVE  /\ \A b \in Actor, q \in Smart : HeldFor(b, q)' => op'[b].def.items = library
                      /\ refresher.detail.p \in Smart => refresher.detail.def.items = library
                      /\ \A q \in Smart : Live(q) => Served(q)'
    BY <1>1 DEF ItemsInv, Current, Live
  <2>1. \A b \in Actor, q \in Smart : HeldFor(b, q)' => op'[b].def.items = library
    BY <1>9, Distinct
  <2>2. ASSUME NEW q \in Smart, Live(q) PROVE Served(q)'
    <3>1. Served(q) /\ ~Editing(q) /\ q \in Playlist
      BY <2>2, <1>11, Distinct DEF ServeInv, ItemsInv
    <3>2. CASE saved'[q] = saved[q]
      BY <3>1, <3>2, <1>1 DEF Served, Good, SameSession, Live
    <3>3. CASE Editing(q)'
      BY <3>3 DEF Served
    <3> QED BY <3>1, <3>2, <3>3, <1>10
  <2> QED BY <2>1, <2>2 DEF ServeInv, ItemsInv
<1> QED BY <1>12, <1>13, <1>14, <1>15, <1>16 DEF ServeInv

\* A session that lives on is the one it was, perhaps with other members
LivesOn(p) ==
  Live(p)' => /\ Live(p)
              /\ session'[p].id = session[p].id
              /\ session'[p].definition = session[p].definition

LEMMA CutSessions ==
  ASSUME TypeOK, NEW p \in Playlist, NEW ds, WithoutDisplays(ds)[p] # NoSession
  PROVE  /\ Live(p)
         /\ WithoutDisplays(ds)[p].id = session[p].id
         /\ WithoutDisplays(ds)[p].definition = session[p].definition
<1>1. Live(p) /\ WithoutDisplays(ds)[p] = [session[p] EXCEPT !.members = @ \ ds]
  BY DEF WithoutDisplays
<1>2. session[p] \in Session
  BY <1>1 DEF TypeOK, Live
<1> QED BY <1>1, <1>2 DEF Session

\* The sessions after a call: what was given a definition has it, the others live on
LEMMA CallSessions ==
  ASSUME EngineInv, RememberInv, NEW a \in Actor, Call(a)
  PROVE  /\ \A q \in Playlist :
              \/ LivesOn(q) /\ (Live(q)' => ~(op[a].kind = "edit" /\ op[a].p = q))
              \/ /\ q = op[a].p /\ op[a].kind \in {"activate", "edit"}
                 /\ session'[q].definition = op[a].def
         /\ op[a].kind = "delete" => session'[op[a].p] = NoSession
<1> DEFINE o == op[a]
<1>1. TypeOK /\ o \in Ops
  BY DEF EngineInv, TypeOK
<1>2. session \in [Playlist -> Session \cup {NoSession}]
  BY <1>1 DEF TypeOK
<1>3. o.kind \notin {"idle", "deactivate"} => o.p \in Playlist
  BY DEF EngineInv, OpsNameTheirs
<1>4. CASE UNCHANGED session /\ o.kind \notin {"edit", "delete"}
  BY <1>4 DEF LivesOn, Live
<1>5. CASE CallActivate(a)
  <2>1. CASE UNCHANGED engineVars
    BY <2>1, <1>4, <1>5 DEF engineVars, CallActivate
  <2>2. CASE EngineActivate(o.p, o.def, o.ds)
    <3> DEFINE conflicts == {d \in o.ds : owner[d] \notin {o.p, NoPlaylist}}
               new == [id |-> IF Live(o.p) THEN session[o.p].id ELSE made + 1,
                       definition |-> o.def, members |-> Members(session, o.p) \cup o.ds]
    <3>1. session' = [WithoutDisplays(conflicts) EXCEPT ![o.p] = new]
      BY <2>2 DEF EngineActivate
    <3>2. o.kind = "activate" /\ o.p \in Playlist
      BY <1>3, <1>5 DEF CallActivate
    <3>3. session'[o.p].definition = o.def
      BY <3>1, <3>2 DEF WithoutDisplays
    <3>4. ASSUME NEW q \in Playlist, q # o.p PROVE session'[q] = WithoutDisplays(conflicts)[q]
      BY <3>1, <3>4 DEF WithoutDisplays
    <3> HIDE DEF conflicts, new
    <3>5. ASSUME NEW q \in Playlist, q # o.p PROVE LivesOn(q)
      BY <3>4, <3>5, <1>1, CutSessions DEF LivesOn, Live
    <3> QED BY <3>2, <3>3, <3>5
  <2> QED BY <2>1, <2>2, <1>5 DEF CallActivate
<1>6. CASE CallAttach(a)
  <2> DEFINE d == CHOOSE d \in o.ds : TRUE
  <2>1. CASE UNCHANGED engineVars
    BY <2>1, <1>4, <1>6 DEF engineVars, CallAttach
  <2>2. CASE EngineAttach(o.p, d) /\ CanAttach(o.p, d)
    <3>1. o.kind = "attach" /\ o.p \in Playlist
      BY <1>3, <1>6 DEF CallAttach
    <3>2. session[o.p] \in Session /\ Live(o.p)
      BY <2>2, <3>1, <1>2 DEF CanAttach, Live
    <3> HIDE DEF d
    <3>3. session' = [session EXCEPT ![o.p] = [session[o.p] EXCEPT !.members = @ \cup {d}]]
      BY <2>2 DEF EngineAttach
    <3>4. session'[o.p].id = session[o.p].id /\ session'[o.p].definition = session[o.p].definition
      BY <3>1, <3>2, <3>3, <1>2 DEF Session
    <3>5. \A q \in Playlist : q # o.p => session'[q] = session[q]
      BY <3>3, <1>2
    <3> QED BY <3>1, <3>2, <3>4, <3>5 DEF LivesOn, Live
  <2> QED BY <2>1, <2>2, <1>6 DEF CallAttach
<1>7. ASSUME EngineEnd(o.p), o.p \in Playlist
      PROVE  session'[o.p] = NoSession /\ \A q \in Playlist : LivesOn(q)
  BY <1>2, <1>7 DEF EngineEnd, LivesOn, Live
<1>8. CASE CallOther(a)
  <2>1. CASE o.kind = "deactivate"
    <3> DEFINE cut == o.ds \cap {d \in Display : owner[d] # NoPlaylist}
    <3>1. session' = WithoutDisplays(cut)
      BY <2>1, <1>8 DEF CallOther, EngineDeactivate
    <3> HIDE DEF cut
    <3>2. ASSUME NEW q \in Playlist PROVE LivesOn(q)
      BY <3>1, <1>1, CutSessions DEF LivesOn, Live
    <3> QED BY <2>1, <3>2
  <2>2. CASE o.kind = "delete"
    BY <2>2, <1>3, <1>7, <1>8 DEF CallOther
  <2>3. CASE o.kind = "rename"
    BY <2>3, <1>4, <1>8 DEF CallOther, engineVars
  <2>4. CASE o.kind = "edit"
    <3>1. EngineRebuild(o.p, o.def) /\ o.p \in Playlist
      BY <2>4, <1>3, <1>8 DEF CallOther
    <3>2. CASE ~Live(o.p)
      BY <2>4, <3>1, <3>2 DEF EngineRebuild, engineVars, LivesOn, Live
    <3>3. CASE EngineEnd(o.p)
      <4>1. session'[o.p] = NoSession /\ \A q \in Playlist : LivesOn(q)
        BY <3>1, <3>3, <1>7
      <4> QED BY <2>4, <4>1 DEF Live
    <3>4. CASE Live(o.p) /\ session' = [session EXCEPT ![o.p].definition = o.def]
      <4>1. session[o.p] \in Session
        BY <3>1, <3>4, <1>2 DEF Live
      <4>2. session' = [session EXCEPT ![o.p] = [session[o.p] EXCEPT !.definition = o.def]]
        BY <3>4
      <4>3. /\ session'[o.p].definition = o.def
            /\ \A q \in Playlist : q # o.p => session'[q] = session[q]
        BY <4>1, <4>2, <3>1, <1>2 DEF Session
      <4> QED BY <2>4, <4>3 DEF LivesOn, Live
    <3> QED BY <3>1, <3>2, <3>3, <3>4 DEF EngineRebuild
  <2> QED BY <2>1, <2>2, <2>3, <2>4, <1>8 DEF CallOther
<1> QED BY <1>5, <1>6, <1>8 DEF Call

LEMMA CallServes ==
  ASSUME EngineInv, RememberInv, ServeInv, NEW a \in Actor, Call(a)
  PROVE  ServeInv'
<1> DEFINE o == op[a]
           New(q) == /\ q = o.p /\ o.kind \in {"activate", "edit"}
                     /\ session'[q].definition = o.def
<1>1. UNCHANGED <<saved, library, announced, generation, refresher>>
  BY DEF Call, dbVars
<1>2. /\ \A b \in Actor : b # a => op'[b] = op[b]
      /\ op'[a] = Idle \/ (op'[a].phase \in {"applying", "persisting"} /\ op'[a].kind = o.kind /\ op'[a].p = o.p)
  BY CallShape DEF Declined, Made
<1>3. /\ \A q \in Playlist : (LivesOn(q) /\ (Live(q)' => ~(o.kind = "edit" /\ o.p = q))) \/ New(q)
      /\ o.kind = "delete" => session'[o.p] = NoSession
  BY CallSessions
<1>4. o.phase = "held" /\ \A b \in Actor : b # a => op[b].phase \notin {"held", "applying", "persisting"}
  BY DEF Call, RememberInv, LockInv
<1>5. \A b \in Actor : op'[b].phase # "held"
  BY <1>2, <1>4 DEF Idle
<1>6. \A q \in Playlist : New(q) => HeldFor(a, q)
  BY <1>4 DEF HeldFor
<1>7. \A q \in Playlist : Editing(q) => o.kind = "edit" /\ o.p = q
  BY <1>4 DEF Editing, HeldFor
<1> HIDE DEF New
<1>8. Unnamed' /\ CountInv' /\ OneTicket' /\ ReadingInv'
  BY <1>1, <1>2 DEF ServeInv, Unnamed, CountInv, OneTicket, ReadingInv, Idle
<1>9. ThereInv'
  <2>1. \A q \in Playlist : Live(q)' => Exists(q)
    BY <1>3, <1>6 DEF ServeInv, ThereInv, FormInv, LivesOn
  <2>2. ASSUME NEW b \in Actor, op'[b].phase \in {"applying", "persisting"}, op'[b].kind = "delete"
        PROVE  session'[op'[b].p] = NoSession
    BY <2>2, <1>2, <1>3, <1>4 DEF Idle
  <2> QED BY <2>1, <2>2, <1>1 DEF ThereInv, Exists, Live
<1>10. FormInv'
  <2>1. \A b \in Actor, q \in Playlist : ~HeldFor(b, q)'
    BY <1>5 DEF HeldFor
  <2>2. ASSUME NEW q \in Playlist, Live(q)'
        PROVE  /\ session'[q].definition.form = saved[q].form
               /\ q \notin Smart => session'[q].definition.items = 0
    <3>1. CASE New(q)
      BY <3>1, <1>6 DEF ServeInv, FormInv, New
    <3>2. CASE LivesOn(q) /\ ~(o.kind = "edit" /\ o.p = q)
      BY <2>2, <3>2, <1>7 DEF ServeInv, FormInv, LivesOn
    <3> QED BY <2>2, <3>1, <3>2, <1>3
  <2> QED BY <2>1, <2>2, <1>1 DEF FormInv
<1>11. ItemsInv'
  <2> SUFFICES ASSUME Current
               PROVE  /\ \A b \in Actor, q \in Smart : HeldFor(b, q)' => op'[b].def.items = library
                      /\ refresher.detail.p \in Smart => refresher.detail.def.items = library
                      /\ \A q \in Smart : Live(q)' => Served(q)'
    BY <1>1 DEF ItemsInv, Current
  <2>1. \A b \in Actor, q \in Smart : ~HeldFor(b, q)'
    BY <1>5 DEF HeldFor
  <2>2. ASSUME NEW q \in Smart, Live(q)' PROVE Served(q)'
    <3>1. q \in Playlist
      BY Distinct
    <3>2. CASE New(q)
      BY <3>1, <3>2, <1>1, <1>6 DEF ServeInv, ItemsInv, New, Served
    <3>3. CASE LivesOn(q) /\ ~(o.kind = "edit" /\ o.p = q)
      <4>1. Served(q) /\ ~Editing(q)
        BY <2>2, <3>1, <3>3, <1>7 DEF ServeInv, ItemsInv, LivesOn
      <4>2. \A t \in refresher.tickets : t.p = q /\ Good(t) => Good(t)'
        BY <2>2, <3>3, <1>1 DEF LivesOn, Good, SameSession
      <4> QED BY <2>2, <3>3, <4>1, <4>2, <1>1 DEF LivesOn, Served
    <3> QED BY <2>2, <3>1, <3>2, <3>3, <1>3
  <2> QED BY <2>1, <2>2 DEF ServeInv, ItemsInv
<1> QED BY <1>8, <1>9, <1>10, <1>11 DEF ServeInv

LEMMA FinishServes ==
  ASSUME EngineInv, RememberInv, ServeInv, NEW a \in Actor, Finish(a)
  PROVE  ServeInv'
<1> DEFINE o == op[a]
<1>1. UNCHANGED <<library, announced, session, refresher>>
  BY DEF Finish, engineVars
<1>2. /\ \A b \in Actor : b # a => op'[b] = op[b]
      /\ op'[a] = Idle
  BY DEF Finish, EngineInv, TypeOK
<1>3. \A b \in Actor : op[b].phase # "held" /\ (op[b].phase \in {"applying", "persisting"} => b = a)
  BY DEF Finish, RememberInv, LockInv
<1>4. \A q \in Playlist : /\ ~Editing(q) /\ ~Editing(q)'
                          /\ \A b \in Actor : ~HeldFor(b, q) /\ ~HeldFor(b, q)'
  BY <1>2, <1>3 DEF HeldFor, Editing, Idle
<1>5. \A q \in Playlist : \/ saved'[q] = saved[q]
                          \/ saved'[q] = Deleted /\ ~Live(q)
  <2> SUFFICES ASSUME NEW q \in Playlist
               PROVE  saved'[q] = saved[q] \/ (saved'[q] = Deleted /\ ~Live(q))
    OBVIOUS
  <2>1. CASE o.kind # "delete"
    BY <2>1 DEF Finish
  <2>2. CASE o.kind = "delete"
    <3>1. saved' = [saved EXCEPT ![o.p] = Deleted] /\ ~Live(o.p)
      BY <2>2 DEF Finish, ServeInv, ThereInv
    <3> QED BY <3>1 DEF EngineInv, TypeOK
  <2> QED BY <2>1, <2>2
<1>6. CountInv' /\ (Current' => Current)
  BY <1>1 DEF Finish, ServeInv, CountInv, Current, EngineInv, TypeOK
<1>7. Unnamed' /\ OneTicket'
  BY <1>1, <1>2 DEF ServeInv, Unnamed, OneTicket, Idle
<1>8. ThereInv'
  BY <1>1, <1>2, <1>3, <1>5 DEF ServeInv, ThereInv, Live, Exists, Idle
<1>9. FormInv'
  BY <1>1, <1>4, <1>5 DEF ServeInv, FormInv, Live
<1>10. ReadingInv'
  BY <1>1, <1>5 DEF ServeInv, ReadingInv, Deleted
<1>11. ItemsInv'
  <2> SUFFICES ASSUME Current
               PROVE  /\ refresher.detail.p \in Smart => refresher.detail.def.items = library
                      /\ \A q \in Smart : Live(q) => Served(q)'
    BY <1>1, <1>4, <1>6, Distinct DEF ItemsInv, Live
  <2>1. ASSUME NEW q \in Smart, Live(q) PROVE Served(q)'
    <3>1. Served(q) /\ saved'[q] = saved[q] /\ ~Editing(q)
      BY <2>1, <1>4, <1>5, Distinct DEF ServeInv, ItemsInv
    <3> QED BY <3>1, <1>1 DEF Served, Good, SameSession, Live
  <2> QED BY <2>1 DEF ServeInv, ItemsInv
<1> QED BY <1>6, <1>7, <1>8, <1>9, <1>10, <1>11 DEF ServeInv

\* A failed apply ends no request but its own, and at most takes members from sessions
LEMMA FailServes ==
  ASSUME EngineInv, RememberInv, ServeInv, NEW a \in Actor, ApplyFails(a)
  PROVE  ServeInv'
<1> DEFINE cut == op[a].ds \cap {d \in Display : owner[d] # NoPlaylist}
<1>1. UNCHANGED <<saved, library, announced, generation, refresher>>
  BY DEF ApplyFails, dbVars
<1>2. session' = session \/ session' = WithoutDisplays(cut)
  BY DEF ApplyFails, EngineDeactivate, engineVars
<1>3. /\ TypeOK /\ op'[a] = Idle /\ op[a].phase = "applying"
      /\ \A b \in Actor : b # a => op'[b] = op[b]
  BY DEF ApplyFails, EngineInv, TypeOK
<1> HIDE DEF cut
<1>4. \A q \in Playlist : LivesOn(q)
  BY <1>2, <1>3, CutSessions DEF LivesOn, Live
<1>5. \A b \in Actor : /\ op'[b].phase \notin {"held", "applying", "persisting"}
                       /\ op[b].phase # "held"
                       /\ op'[b].kind = op[b].kind \/ op'[b] = Idle
  BY <1>3 DEF RememberInv, LockInv, Idle
<1>6. \A q \in Playlist : ~Editing(q) /\ \A b \in Actor : ~HeldFor(b, q) /\ ~HeldFor(b, q)'
  BY <1>5 DEF Editing, HeldFor
<1>7. Unnamed' /\ CountInv' /\ OneTicket' /\ ReadingInv'
  BY <1>1, <1>5 DEF ServeInv, Unnamed, CountInv, OneTicket, ReadingInv, Idle
<1>8. ThereInv'
  BY <1>1, <1>4, <1>5 DEF ServeInv, ThereInv, LivesOn, Exists
<1>9. FormInv'
  BY <1>1, <1>4, <1>6 DEF ServeInv, FormInv, LivesOn
<1>10. ItemsInv'
  <2> SUFFICES ASSUME Current, NEW q \in Smart, Live(q)' PROVE Served(q)'
    BY <1>1, <1>6, Distinct DEF ServeInv, ItemsInv, Current
  <2>1. q \in Playlist /\ LivesOn(q) /\ ~Editing(q)
    BY <1>4, <1>6, Distinct
  <2>2. Served(q)
    BY <2>1 DEF ServeInv, ItemsInv, LivesOn
  <2>3. \A t \in refresher.tickets : t.p = q /\ Good(t) => Good(t)'
    BY <2>1, <1>1 DEF LivesOn, Good, SameSession
  <2> QED BY <2>1, <2>2, <2>3, <1>1 DEF LivesOn, Served
<1> QED BY <1>7, <1>8, <1>9, <1>10 DEF ServeInv

LEMMA RemovedServes ==
  ASSUME EngineInv, ServeInv, WatchRemoved
  PROVE  ServeInv'
<1> DEFINE cut == {Head(events)[2]} \cap {d \in Display : owner[d] # NoPlaylist}
<1>1. UNCHANGED <<saved, library, announced, generation, refresher, op>>
  BY DEF WatchRemoved, dbVars
<1>2. session' = WithoutDisplays(cut) /\ TypeOK
  BY DEF WatchRemoved, EngineDeactivate, EngineInv
<1> HIDE DEF cut
<1>3. \A q \in Playlist : LivesOn(q)
  BY <1>2, CutSessions DEF LivesOn, Live
<1>4. Unnamed' /\ CountInv' /\ OneTicket' /\ ReadingInv'
  BY <1>1 DEF ServeInv, Unnamed, CountInv, OneTicket, ReadingInv
<1>5. ThereInv'
  <2>1. \A p \in Playlist : Live(p)' => Exists(p)
    BY <1>3 DEF ServeInv, ThereInv, LivesOn
  <2>2. ASSUME NEW b \in Actor, op[b].phase \in {"applying", "persisting"}, op[b].kind = "delete"
        PROVE  session'[op[b].p] = NoSession
    <3>1. op[b].p \in Playlist /\ ~Live(op[b].p)
      BY <2>2 DEF EngineInv, OpsNameTheirs, ServeInv, ThereInv
    <3> QED BY <3>1, <1>3 DEF LivesOn, Live
  <2> QED BY <2>1, <2>2, <1>1 DEF ThereInv, Exists, Live
<1>6. FormInv'
  BY <1>1, <1>3 DEF ServeInv, FormInv, HeldFor, Editing, Exists, LivesOn
<1>7. ItemsInv'
  <2> SUFFICES ASSUME Current
               PROVE  \A q \in Smart : Live(q)' => Served(q)'
    BY <1>1 DEF ServeInv, ItemsInv, Current, HeldFor
  <2> SUFFICES ASSUME NEW q \in Smart, Live(q)' PROVE Served(q)'
    OBVIOUS
  <2>1. q \in Playlist /\ LivesOn(q)
    BY <1>3, Distinct
  <2>2. Served(q)
    BY <2>1 DEF ServeInv, ItemsInv, LivesOn
  <2>3. \A t \in refresher.tickets : t.p = q /\ Good(t) => Good(t)'
    BY <2>1, <1>1 DEF LivesOn, Good, SameSession
  <2>4. Editing(q) => Editing(q)'
    BY <1>1 DEF Editing, HeldFor
  <2> QED BY <2>1, <2>2, <2>3, <2>4, <1>1 DEF LivesOn, Served
<1> QED BY <1>4, <1>5, <1>6, <1>7 DEF ServeInv

LEMMA WakeServes ==
  ASSUME EngineInv, ServeInv, ~SlowCall, Wake
  PROVE  ServeInv'
<1> DEFINE live == {p \in Smart : Live(p)}
           due == IF refresher.seen # generation THEN live ELSE live \cap refresher.failed
<1>1. UNCHANGED <<saved, library, announced, generation, session, op>>
  BY DEF Wake, dbVars, engineVars
<1>2. /\ \A a \in Actor : op[a].phase # "held"
      /\ refresher.tickets = {} /\ refresher.detail = NoDetail
  BY DEF Wake, Asleep
<1>3. /\ refresher'.seen = generation /\ refresher'.detail = NoDetail
      /\ refresher'.tickets = {Ticket(p) : p \in due}
  BY DEF Wake
<1>4. refresher'.detail.p \notin Playlist
  BY <1>3, Distinct DEF NoDetail
<1>5. \A p \in Playlist : ~Editing(p) /\ \A a \in Actor : ~HeldFor(a, p) /\ ~HeldFor(a, p)'
  BY <1>1, <1>2 DEF HeldFor, Editing
<1>6. Unnamed' /\ CountInv' /\ ThereInv' /\ ReadingInv'
  BY <1>1, <1>3, <1>4 DEF ServeInv, Unnamed, CountInv, ThereInv, Live, Exists, ReadingInv
<1>7. FormInv'
  BY <1>1, <1>5 DEF ServeInv, FormInv, Live
<1>8. OneTicket'
  BY <1>3 DEF OneTicket, Ticket
<1>9. ItemsInv'
  <2> SUFFICES ASSUME library = announced, NEW p \in Smart, Live(p)
               PROVE  Served(p)'
    BY <1>1, <1>4, <1>5, Distinct DEF ItemsInv, Current, Live
  <2>1. p \in due => Served(p)'
    <3> SUFFICES ASSUME p \in due PROVE \E t \in refresher'.tickets : t.p = p /\ Good(t)'
      BY DEF Served
    <3>1. Ticket(p) \in refresher'.tickets
      BY <1>3
    <3>2. /\ Ticket(p).p = p /\ Ticket(p).id = session[p].id
          /\ Ticket(p).definition = session[p].definition
      BY DEF Ticket
    <3>3. refresher'.detail.p # p
      BY <1>4, Distinct
    <3> HIDE DEF due
    <3>4. \A t : t = Ticket(p) => t.p = p /\ Good(t)'
      BY <3>2, <3>3, <1>1 DEF Good, SameSession, Live
    <3> QED BY <3>1, <3>4
  <2>2. CASE refresher.seen # generation
    BY <2>1, <2>2
  <2>3. CASE refresher.seen = generation
    <3>1. Served(p) /\ ~Editing(p)
      BY <2>3, <1>5, Distinct DEF ServeInv, ItemsInv, Current
    <3>2. session[p].definition.items = library => Served(p)'
      BY <1>1 DEF Served
    <3>3. p \in refresher.failed => p \in due
      OBVIOUS
    <3> QED BY <3>1, <3>2, <3>3, <2>1, <1>2 DEF Served
  <2> QED BY <2>2, <2>3
<1> QED BY <1>6, <1>7, <1>8, <1>9 DEF ServeInv

\* A step of the refresher leaves the requests and the rows alone
LEMMA RefresherServes ==
  ASSUME EngineInv, RememberInv, TicketInv, ServeInv, NEW t \in refresher.tickets,
         ReadDetail(t) \/ ReadFails(t) \/ Refresh(t) \/ RefreshFails(t)
  PROVE  ServeInv'
<1> DEFINE R == refresher
<1>1. UNCHANGED <<saved, library, announced, generation, op>>
  BY DEF ReadDetail, ReadFails, Refresh, RefreshFails, dbVars
<1>2. R = [seen |-> R.seen, tickets |-> R.tickets, failed |-> R.failed, detail |-> R.detail]
      /\ TypeOK
  BY DEF EngineInv, TypeOK
<1>3. t.p \in Smart /\ t.p \in Playlist
  BY Distinct DEF TicketInv
<1>4. R'.seen = R.seen /\ R'.tickets \subseteq R.tickets
  BY <1>2 DEF ReadDetail, ReadFails, Refresh, RefreshFails
<1>5. Unnamed' /\ CountInv' /\ OneTicket' /\ (Current' <=> Current)
  BY <1>1, <1>4 DEF ServeInv, Unnamed, CountInv, OneTicket, Current
<1>6. \A p \in Playlist : /\ Editing(p)' <=> Editing(p)
                          /\ \A a \in Actor : HeldFor(a, p)' <=> HeldFor(a, p)
  BY <1>1 DEF HeldFor, Editing
\* A read that succeeds: what was read has the revision that is saved
<1>7. CASE ReadDetail(t) /\ Exists(t.p)
  <2>1. /\ R'.tickets = R.tickets /\ R'.failed = R.failed /\ UNCHANGED session
        /\ R'.detail = [p |-> t.p, rev |-> saved[t.p].rev, def |-> Definition(t.p)]
    BY <1>2, <1>7 DEF ReadDetail, engineVars
  <2>2. R'.detail.p = t.p /\ R'.detail.rev = saved[t.p].rev /\ R'.detail.def = Definition(t.p)
    BY <2>1
  <2>3. saved[t.p].rev \in Nat \ {0}
    <3>1. saved[t.p] \in [rev : Nat, form : Nat] /\ saved[t.p] # Deleted
      BY <1>2, <1>3, <1>7 DEF TypeOK, Exists
    <3>2. saved[t.p].rev = 0 => saved[t.p].form = 0
      BY <1>3 DEF RememberInv, SavedInv
    <3> QED BY <3>1, <3>2 DEF Deleted
  <2>4. Definition(t.p).form = saved[t.p].form /\ Definition(t.p).items = library
    BY <1>3 DEF Definition
  <2>5. ThereInv' /\ FormInv'
    BY <2>1, <1>1, <1>6 DEF ServeInv, ThereInv, FormInv, Live, Exists
  <2>6. ReadingInv'
    BY <2>2, <2>3, <2>4, <1>1 DEF ReadingInv
  <2>7. \A u \in R.tickets : Good(u) => Good(u)'
    BY <2>1, <2>2, <1>1 DEF Good, SameSession, Live
  <2>8. ItemsInv'
    <3>1. ASSUME NEW p \in Smart, Served(p) PROVE Served(p)'
      BY <3>1, <2>1, <2>7, <1>1, <1>6, Distinct DEF Served
    <3> QED BY <3>1, <2>1, <2>2, <2>4, <1>1, <1>5, <1>6, Distinct DEF ServeInv, ItemsInv, Live
  <2> QED BY <2>5, <2>6, <2>8, <1>5 DEF ServeInv
\* A read that fails: the ticket goes, and the playlist is marked
<1>8. CASE (ReadDetail(t) /\ ~Exists(t.p)) \/ ReadFails(t)
  <2>1. /\ R'.tickets = R.tickets \ {t} /\ R'.failed = R.failed \cup {t.p}
        /\ R'.detail = R.detail /\ UNCHANGED session
    BY <1>2, <1>8 DEF ReadDetail, ReadFails, engineVars
  <2>2. ThereInv' /\ FormInv' /\ ReadingInv'
    BY <2>1, <1>1, <1>6 DEF ServeInv, ThereInv, FormInv, ReadingInv, Live, Exists
  <2>3. \A u \in R.tickets : Good(u) => Good(u)'
    BY <2>1, <1>1 DEF Good, SameSession, Live
  <2>4. ASSUME NEW p \in Smart, Served(p) PROVE Served(p)'
    <3>1. CASE p = t.p
      BY <3>1, <2>1 DEF ServeInv, OneTicket, Served
    <3>2. CASE p # t.p
      BY <3>2, <2>1, <2>3, <2>4, <1>1, <1>6, Distinct DEF Served
    <3> QED BY <3>1, <3>2
  <2>5. ItemsInv'
    BY <2>1, <2>4, <1>1, <1>5, <1>6, Distinct DEF ServeInv, ItemsInv, Live
  <2> QED BY <2>2, <2>5, <1>5 DEF ServeInv
\* The definition is installed if nothing has changed since
<1>9. CASE Refresh(t) \/ RefreshFails(t)
  <2> DEFINE def == R.detail.def
  <2>1. /\ R'.tickets = R.tickets \ {t} /\ R'.detail = NoDetail /\ R.detail.p = t.p
        /\ \/ RefreshFails(t) /\ R'.failed = R.failed \cup {t.p}
           \/ /\ Refresh(t)
              /\ R'.failed = IF Exists(t.p) THEN R.failed \ {t.p} ELSE R.failed \cup {t.p}
    BY <1>2, <1>9 DEF Refresh, RefreshFails
  <2>2. R'.detail.p \notin Playlist
    BY <2>1, Distinct DEF NoDetail
  <2>3. \A p \in Playlist : ~Editing(p) /\ \A a \in Actor : ~HeldFor(a, p)
    BY <1>9, Apart DEF Refresh, RefreshFails, LockFree, RememberInv, LockInv, HeldFor, Editing,
                       Actor, Free, Watcher
  <2>4. ~Empty(t.p, def)
    BY <1>3 DEF Empty
  <2>5. \/ UNCHANGED session /\ ~(Refresh(t) /\ Exists(t.p) /\ Unchanged(t) /\ SameSession(t))
        \/ /\ Unchanged(t) /\ SameSession(t)
           /\ session' = [session EXCEPT ![t.p].definition = def]
    BY <2>4, <1>9 DEF Refresh, RefreshFails, EngineRebuild, engineVars, SameSession
  <2>6. \A p \in Playlist : p # t.p => session'[p] = session[p]
    BY <2>5, <1>2 DEF TypeOK
  <2>7. \/ UNCHANGED session /\ ~(Refresh(t) /\ Exists(t.p) /\ Unchanged(t) /\ SameSession(t))
        \/ /\ Unchanged(t) /\ SameSession(t)
           /\ Live(t.p) /\ session'[t.p].definition = def
    <3>1. CASE Live(t.p) /\ session' = [session EXCEPT ![t.p].definition = def]
      <4>1. session[t.p] \in Session /\ session \in [Playlist -> Session \cup {NoSession}]
        BY <3>1, <1>2, <1>3 DEF TypeOK, Live
      <4>2. session' = [session EXCEPT ![t.p] = [session[t.p] EXCEPT !.definition = def]]
        BY <3>1
      <4>3. session'[t.p] = [session[t.p] EXCEPT !.definition = def]
        BY <4>1, <4>2, <1>3
      <4> HIDE DEF def
      <4>4. session'[t.p].definition = def
        BY <4>1, <4>3 DEF Session
      <4> QED BY <2>5, <3>1, <4>4
    <3> QED BY <2>5, <3>1 DEF SameSession
  <2>8. \A p \in Playlist : Live(p)' => Live(p)
    BY <2>6, <2>7 DEF Live
  <2>9. Unchanged(t) => /\ saved[t.p].rev = R.detail.rev
                        /\ (Live(t.p) => saved[t.p].form = def.form)
    <3> SUFFICES ASSUME Unchanged(t)
                 PROVE  saved[t.p].rev = R.detail.rev /\ saved[t.p].form = def.form
      OBVIOUS
    <3>1. saved[t.p].rev = R.detail.rev
      BY DEF Unchanged
    <3>2. /\ R.detail.rev \in Nat \ {0}
          /\ \/ saved[t.p].rev > R.detail.rev
             \/ saved[t.p].rev = 0
             \/ saved[t.p].form = def.form
      BY <2>1, <1>3 DEF ServeInv, ReadingInv
    <3> QED BY <3>1, <3>2
  <2>10. ThereInv'
    <3>1. \A p \in Playlist : Live(p)' => Exists(p)
      BY <2>8 DEF ServeInv, ThereInv
    <3>2. ASSUME NEW a \in Actor, op[a].phase \in {"applying", "persisting"}, op[a].kind = "delete"
          PROVE  FALSE
      BY <3>2, <1>9, Apart DEF Refresh, RefreshFails, LockFree, RememberInv, LockInv, Actor, Free, Watcher
    <3> QED BY <3>1, <3>2, <1>1 DEF ThereInv, Exists
  <2>11. FormInv'
    <3> SUFFICES ASSUME NEW p \in Playlist, Live(p)'
                 PROVE  /\ session'[p].definition.form = saved[p].form
                        /\ p \notin Smart => session'[p].definition.items = 0
      BY <2>3, <1>1, <1>6 DEF FormInv
    <3>1. Live(p) /\ session[p].definition.form = saved[p].form
          /\ (p \notin Smart => session[p].definition.items = 0)
      BY <2>3, <2>8 DEF ServeInv, FormInv
    <3>2. CASE session'[p] = session[p]
      BY <3>1, <3>2
    <3>3. CASE p = t.p /\ Unchanged(t) /\ session'[t.p].definition = def
      BY <3>1, <3>3, <2>9, <1>3
    <3> QED BY <3>2, <3>3, <2>6, <2>7
  <2>12. ReadingInv'
    BY <2>2 DEF ReadingInv
  <2>13. ItemsInv'
    <3> SUFFICES ASSUME Current, NEW p \in Smart, Live(p)'
                 PROVE  Served(p)'
      BY <2>2, <2>3, <1>5, <1>6, Distinct DEF ItemsInv
    <3>1. p \in Playlist /\ Live(p) /\ Served(p) /\ ~Editing(p)
      BY <2>3, <2>8, Distinct DEF ServeInv, ItemsInv
    <3>2. CASE p # t.p
      <4>1. session'[p] = session[p]
        BY <2>6, <3>1, <3>2
      <4>2. \A u \in R.tickets : u.p = p /\ Good(u) => u # t /\ Good(u)'
        BY <2>2, <3>1, <3>2, <4>1, <1>1 DEF Good, SameSession, Live
      <4> QED BY <2>1, <3>1, <3>2, <4>1, <4>2, <1>1 DEF Served
    <3>3. CASE p = t.p /\ RefreshFails(t)
      <4>1. R'.failed = R.failed \cup {t.p}
        BY <1>2, <3>3 DEF RefreshFails
      <4>2. p \in R'.failed /\ \A u \in R'.tickets : u.p # p
        BY <2>1, <3>3, <4>1, <1>3 DEF ServeInv, OneTicket
      <4> QED BY <4>2 DEF Served
    <3>4. CASE p = t.p /\ Refresh(t)
      <4>1. CASE session[p].definition.items = library /\ UNCHANGED session
        BY <4>1, <1>1 DEF Served
      <4>2. CASE session'[t.p].definition = def
        <5>1. def.items = library
          BY <2>1, <1>3 DEF ServeInv, ItemsInv
        <5> QED BY <3>4, <4>2, <5>1, <1>1 DEF Served
      <4>3. CASE \E u \in R.tickets : u.p = p /\ Good(u)
        <5>1. Good(t)
          BY <3>4, <4>3 DEF ServeInv, OneTicket
        <5>2. SameSession(t) /\ saved[t.p].rev = R.detail.rev
          BY <5>1, <2>1 DEF Good
        <5>3. Unchanged(t) /\ Exists(t.p)
          BY <3>1, <3>4, <5>2 DEF Unchanged, Current, ServeInv, ThereInv
        <5> QED BY <2>7, <3>4, <4>2, <5>2, <5>3
      <4>4. ~(\A u \in R.tickets : u.p # p)
        BY <3>4
      <4> QED BY <2>7, <3>1, <3>4, <4>1, <4>2, <4>3, <4>4 DEF Served
    <3> QED BY <3>2, <3>3, <3>4, <1>9
  <2> QED BY <2>10, <2>11, <2>12, <2>13, <1>5 DEF ServeInv
<1> QED BY <1>7, <1>8, <1>9

LEMMA ServeStep ==
  ASSUME EngineInv, RememberInv, TicketInv, ServeInv, Prompt, [Next]_vars
  PROVE  ServeInv'
<1>1. CASE UNCHANGED vars
  <2>1. UNCHANGED serveVars /\ UNCHANGED op
    BY <1>1 DEF vars, serveVars
  <2> QED BY <2>1, ServeWaiting
<1>2. ASSUME NEW u \in User, NEW kind \in mix.kinds, NEW p \in Playlist \cup {NoPlaylist},
             NEW ds \in SUBSET Display, Request(u, kind, p, ds)
      PROVE  ServeInv'
  <2>1. UNCHANGED serveVars
    BY <1>2 DEF Request, serveVars, dbVars, engineVars
  <2>2. kind # "rename" /\ op[u] = Idle /\ op \in [Actor -> Ops]
    BY <1>2 DEF Prompt, EngineInv, TypeOK, Request
  <2>3. \A a \in Actor : \/ op'[a] = op[a]
                         \/ /\ op[a].phase = "idle" /\ op'[a].phase = "wait"
                            /\ op'[a].kind = kind
    BY <2>2, <1>2 DEF Request, Idle
  <2> QED BY <2>1, <2>2, <2>3, ServeWaiting
<1>3. ASSUME NEW d \in Display, Unplug(d) \/ Plug(d)
      PROVE  ServeInv'
  <2>1. UNCHANGED serveVars /\ UNCHANGED op
    BY <1>3 DEF Unplug, Plug, serveVars, dbVars, engineVars
  <2> QED BY <2>1, ServeWaiting
<1>4. CASE WatchUpsert \/ \E p \in Playlist : WatchSettled(p)
  <2>1. UNCHANGED serveVars
    BY <1>4 DEF WatchUpsert, WatchSettled, serveVars, dbVars, engineVars
  <2>2. op[Watcher] = Idle /\ op \in [Actor -> Ops] /\ Watcher \in Actor
    BY <1>4, WatcherRemembers
  <2>3. \A a \in Actor : \/ op'[a] = op[a]
                         \/ /\ op[a].phase = "idle" /\ op'[a].phase = "wait"
                            /\ op'[a].kind \in {"activate", "attach"}
    BY <2>2, <1>4 DEF WatchUpsert, WatchSettled, Idle
  <2> QED BY <2>1, <2>3, ServeWaiting
<1>5. CASE Wake
  BY <1>5, WakeServes DEF Prompt
<1>6. CASE \E a \in Actor : Acquire(a) \/ Call(a) \/ Finish(a) \/ ApplyFails(a)
  BY <1>6, AcquireServes, CallServes, FinishServes, FailServes
<1>7. CASE \E t \in refresher.tickets :
             ReadDetail(t) \/ ReadFails(t) \/ Refresh(t) \/ RefreshFails(t)
  BY <1>7, RefresherServes
<1>8. CASE WatchRemoved \/ LibraryWrites \/ LibraryAnnounces
  BY <1>8, RemovedServes, LibraryServes
<1> QED BY <1>1, <1>2, <1>3, <1>4, <1>5, <1>6, <1>7, <1>8 DEF Next

\* Once nothing is under way and the refresher has seen the last change, every session
\* runs the playlist as it is saved and as its query answers, if calls come within the
\* 100 ms for which the refresher waits and nobody renames a playlist.
THEOREM SessionsUpToDate == Prompt /\ Spec => []UpToDate
<1> DEFINE Inv == EngineInv /\ TicketInv /\ RememberInv /\ ServeInv
<1>1. Init => Inv
  BY EngineInvInit, RememberInit, ServeInit
<1>2. Prompt /\ Inv /\ [Next]_vars => Inv'
  BY EngineInvNext, TicketStep, RememberStep, ServeStep
<1>3. Inv => UpToDate
  <2> SUFFICES ASSUME Inv, Quiet, Asleep, refresher.seen = generation, refresher.failed = {},
                      announced = library, NEW p \in Playlist, Live(p)
               PROVE  Exists(p) /\ session[p].definition = Definition(p)
    BY DEF UpToDate
  <2>1. \A a \in Actor : op[a].phase # "held"
    BY DEF Quiet, Idle
  <2>2. ~Editing(p)
    BY <2>1 DEF Editing, HeldFor
  <2>3. Exists(p) /\ session[p].definition.form = saved[p].form
    BY <2>2 DEF ServeInv, ThereInv, FormInv
  <2>4. session[p].definition.items = IF p \in Smart THEN library ELSE 0
    <3>1. CASE p \in Smart
      BY <2>2, <3>1 DEF ServeInv, ItemsInv, Current, Served, Asleep
    <3>2. CASE p \notin Smart
      BY <3>2 DEF ServeInv, FormInv
    <3> QED BY <3>1, <3>2
  <2>5. session[p].definition \in [form : Nat, items : Nat]
    <3>1. session[p] \in Session
      BY DEF EngineInv, TypeOK, Live
    <3> QED BY <3>1 DEF Session
  <2> QED BY <2>3, <2>4, <2>5 DEF Definition
<1> HIDE DEF Inv
<1>4. Prompt => []Prompt
  <2>1. Prompt => Prompt'
    BY DEF Prompt
  <2> QED BY <2>1, PTL
<1> QED BY <1>1, <1>2, <1>3, <1>4, PTL DEF Spec

----------------------------------------------------------------------------
(* The inductive invariant.                                                 *)

Canvases == [Canvas -> {NoCanvas} \cup SUBSET Member]
State == [version : Nat, canvases : Canvases]
Stages == {"none", "check", "lock", "snapshot", "write", "rename"}

StoreTypes ==
  /\ memory \in State /\ file \in State /\ tmp \in State
  /\ clock \in Nat /\ revision \in Nat
  /\ dirty \in BOOLEAN
  /\ flush \in [Flusher -> [at : Stages, snap : State]]
  /\ client \in [Client -> [at : {"idle", "editing", "marking", "flushing"}, seen : Nat]]

Copied(f) == flush[f].at \in {"write", "rename"}
Working(f) == Copied(f) \/ flush[f].at = "snapshot"

\* Whoever is past the lock has it
LockIsHeld == \A f \in Flusher : Working(f) => lock = f

\* A client that saves does nothing else, nor does the writer
Saving ==
  /\ \A c \in Client : flush[c].at # "none" => client[c].at = "flushing"
  /\ writer \in {"parked", "debounce"} => flush[Writer].at = "none"

\* The file is older than what is to replace it, and that than what is held
Versions ==
  /\ file.version <= memory.version /\ memory.version <= clock
  /\ \A f \in Flusher :
       /\ Copied(f) => file.version <= flush[f].snap.version /\ flush[f].snap.version <= memory.version
       /\ flush[f].at = "rename" => tmp = flush[f].snap

\* What is not dirty is in the file, or in the copy that is to be written
CleanIsCopied ==
  (daemon = "running" /\ ~dirty /\ \A c \in Client : client[c].at # "marking")
    => /\ \A f \in Flusher : Copied(f) => flush[f].snap = memory
       /\ (\A f \in Flusher : ~Working(f)) => file = memory

ApartIn(can) ==
  \A a, b \in Canvas :
    a # b /\ can[a] # NoCanvas /\ can[b] # NoCanvas => can[a] \cap can[b] = {}

CanvasesApart ==
  /\ ApartIn(memory.canvases) /\ ApartIn(file.canvases) /\ ApartIn(tmp.canvases)
  /\ \A f \in Flusher : ApartIn(flush[f].snap.canvases)

StoreInv == StoreTypes /\ LockIsHeld /\ Saving /\ Versions /\ CleanIsCopied /\ CanvasesApart

----------------------------------------------------------------------------
(* Tasks are told apart.                                                    *)
LEMMA Flushers ==
  /\ Client \subseteq Flusher /\ Writer \in Flusher /\ Main \in Flusher
  /\ Unlocked \notin Flusher
  /\ Writer \notin Client /\ Main \notin Client /\ Writer # Main
BY StoreConstants DEF Client, Writer, Main, Flusher, Unlocked

(* The settings of a first start are well formed.                           *)
LEMMA DefaultsFine ==
  Defaults \in State /\ Defaults.version = 0 /\ ApartIn(Defaults.canvases)
BY DEF Defaults, State, Canvases, ApartIn

(* A flush that ends leaves the others alone, and no client marking.        *)
LEMMA EndsFact ==
  ASSUME StoreTypes, NEW f \in Flusher, Ends(f)
  PROVE  /\ flush' \in [Flusher -> [at : Stages, snap : State]]
         /\ client' \in [Client -> [at : {"idle", "editing", "marking", "flushing"}, seen : Nat]]
         /\ flush'[f] = NoFlush /\ ~Working(f)' /\ ~Copied(f)'
         /\ \A g \in Flusher \ {f} : flush'[g] = flush[g]
         /\ \A c \in Client : client'[c] = client[c] \/ (c = f /\ client'[c] = ClientIdle)
         /\ f \notin Client => client' = client
         /\ \A c \in Client : c # f => client'[c] = client[c]
         /\ daemon' = daemon \/ daemon' = "stopped"
         /\ writer' = IF f = Writer THEN "parked" ELSE writer
<1>1. NoFlush \in [at : Stages, snap : State] /\ NoFlush.at = "none"
  BY DefaultsFine DEF NoFlush, Stages
<1>2. flush' = [flush EXCEPT ![f] = NoFlush]
  BY DEF Ends
<1>3. /\ client' = IF f \in Client THEN [client EXCEPT ![f] = ClientIdle] ELSE client
      /\ daemon' = IF f = Main THEN "stopped" ELSE daemon
      /\ writer' = IF f = Writer THEN "parked" ELSE writer
  BY DEF Ends
<1>4. ClientIdle \in [at : {"idle", "editing", "marking", "flushing"}, seen : Nat]
  BY DEF ClientIdle
<1> QED BY <1>1, <1>2, <1>3, <1>4 DEF StoreTypes, Working, Copied

(* A flush that moves on stays with its copy, and nothing else moves.       *)
LEMMA ToFact ==
  ASSUME StoreTypes, NEW f \in Flusher, NEW at \in Stages, To(f, at)
  PROVE  /\ flush' \in [Flusher -> [at : Stages, snap : State]]
         /\ flush'[f].at = at /\ flush'[f].snap = flush[f].snap
         /\ \A g \in Flusher \ {f} : flush'[g] = flush[g]
         /\ client' = client /\ daemon' = daemon /\ writer' = writer
BY DEF StoreTypes, To

----------------------------------------------------------------------------
(* The store as it is loaded.                                               *)
LEMMA LoadFine == Load => StoreInv
<1> SUFFICES ASSUME Load PROVE StoreInv
  OBVIOUS
<1>1. StoreTypes
  BY DefaultsFine DEF Load, StoreTypes, NoFlush, Stages, ClientIdle
<1>2. \A f \in Flusher : ~Working(f) /\ ~Copied(f) /\ flush[f].snap = Defaults
  BY DEF Load, Working, Copied, NoFlush
<1>3. LockIsHeld /\ Versions /\ CleanIsCopied /\ CanvasesApart
  BY <1>2, DefaultsFine DEF Load, LockIsHeld, Versions, CleanIsCopied, CanvasesApart, Copied
<1>4. Saving
  BY Flushers DEF Load, Saving, NoFlush
<1> QED BY <1>1, <1>3, <1>4 DEF StoreInv

(* A change of the settings is marked later, and takes a new version.       *)
LEMMA ChangedKeeps ==
  ASSUME StoreInv, NEW c \in Client, NEW new \in Canvases, ApartIn(new), Changed(c, new),
         client[c].at \in {"idle", "editing"}, revision' \in Nat
  PROVE  StoreInv'
<1>1. /\ clock' = clock + 1 /\ memory' = [version |-> clock + 1, canvases |-> new]
      /\ client' = [client EXCEPT ![c] = [ClientIdle EXCEPT !.at = "marking"]]
      /\ UNCHANGED <<dirty, lock, file, tmp, flush, daemon, writer>>
  BY DEF Changed, fileVars
<1>2. memory' \in State /\ memory'.version = clock + 1 /\ memory'.canvases = new
  BY <1>1 DEF State, StoreInv, StoreTypes
<1>3. client'[c].at = "marking" /\ StoreTypes'
  BY <1>1, <1>2 DEF StoreInv, StoreTypes, ClientIdle
<1>4. LockIsHeld'
  BY <1>1 DEF StoreInv, LockIsHeld, Working, Copied
<1>5. Versions'
  BY <1>1, <1>2 DEF StoreInv, Versions, Copied, StoreTypes, State
<1>6. CleanIsCopied'
  BY <1>3 DEF CleanIsCopied
<1>7. CanvasesApart'
  BY <1>1, <1>2 DEF StoreInv, CanvasesApart
<1>8. Saving'
  BY <1>1 DEF StoreInv, StoreTypes, Saving
<1> QED BY <1>3, <1>4, <1>5, <1>6, <1>7, <1>8 DEF StoreInv

(* The edits of the canvases keep every display on one of them.             *)
LEMMA EditKeeps ==
  ASSUME StoreInv, NEW c \in Client, NEW id \in Canvas, NEW members \in SUBSET Member,
         NoConflict(id, members), EditCanvas(c, id, members), client[c].at \in {"idle", "editing"}
  PROVE  StoreInv'
<1> DEFINE new == [canvases EXCEPT ![id] = members]
<1>1. canvases \in Canvases /\ ApartIn(canvases) /\ revision \in Nat
  BY DEF StoreInv, StoreTypes, State, canvases, CanvasesApart
<1>2. new \in Canvases
  BY <1>1 DEF Canvases
<1>3. ASSUME NEW o \in Canvas \ {id}, canvases[o] # NoCanvas
      PROVE  members \cap canvases[o] = {}
  BY <1>3 DEF NoConflict, Elsewhere
<1>4. ApartIn(new)
  BY <1>1, <1>3 DEF ApartIn, Canvases
<1>5. Changed(c, new) /\ revision' \in Nat
  BY <1>1 DEF EditCanvas
<1> QED BY <1>2, <1>4, <1>5, ChangedKeeps

(* The steps of the clients.                                                *)
LEMMA ClientKeeps ==
  ASSUME StoreInv, NEW c \in Client,
         \/ Update(c) \/ ReadCanvases(c) \/ EditRefused(c)
         \/ \E id \in Canvas, members \in SUBSET Member :
              CreateCanvas(c, id, members) \/ UpdateCanvas(c, id, members)
         \/ \E id \in Canvas : DeleteCanvas(c, id)
         \/ \E now \in BOOLEAN : Mark(c, now)
  PROVE  StoreInv'
<1>0. canvases \in Canvases /\ ApartIn(canvases) /\ revision \in Nat
  BY DEF StoreInv, StoreTypes, State, canvases, CanvasesApart
<1>1. CASE Update(c)
  BY <1>1, <1>0, ChangedKeeps DEF Update
<1>2. CASE ReadCanvases(c) \/ EditRefused(c)
  <2>1. /\ client' \in [Client -> [at : {"idle", "editing", "marking", "flushing"}, seen : Nat]]
        /\ \A d \in Client : client'[d].at = "marking" <=> client[d].at = "marking"
    <3>1. PICK at \in {"idle", "editing"}, n \in Nat : client' = [client EXCEPT ![c] = [at |-> at, seen |-> n]]
      <4>1. CASE ReadCanvases(c)
        BY <4>1, <1>0 DEF ReadCanvases
      <4>2. CASE EditRefused(c)
        BY <4>2 DEF EditRefused, Abandon, ClientIdle
      <4> QED BY <1>2, <4>1, <4>2
    <3>2. client[c].at # "marking"
      BY <1>2 DEF ReadCanvases, EditRefused
    <3> QED BY <3>1, <3>2 DEF StoreInv, StoreTypes
  <2>3. client[c].at \in {"idle", "editing"} /\ \A d \in Client \ {c} : client'[d] = client[d]
    BY <1>2 DEF ReadCanvases, EditRefused, Abandon, StoreInv, StoreTypes
  <2>2. UNCHANGED <<memory, clock, revision, dirty, lock, file, tmp, flush, daemon, writer>>
    BY <1>2 DEF ReadCanvases, EditRefused, storeVars, fileVars
  <2>4. Saving'
    BY <2>2, <2>3 DEF StoreInv, Saving
  <2> QED BY <2>1, <2>2, <2>4 DEF StoreInv, StoreTypes, LockIsHeld, Versions, CleanIsCopied,
                                  CanvasesApart, Working, Copied
<1>3. CASE \E id \in Canvas, members \in SUBSET Member :
             CreateCanvas(c, id, members) \/ UpdateCanvas(c, id, members)
  BY <1>3, EditKeeps DEF CreateCanvas, UpdateCanvas
<1>4. CASE \E id \in Canvas : DeleteCanvas(c, id)
  <2>1. PICK id \in Canvas : EditCanvas(c, id, NoCanvas) /\ client[c].at = "editing"
    BY <1>4 DEF DeleteCanvas
  <2>2. [canvases EXCEPT ![id] = NoCanvas] \in Canvases
    BY <1>0 DEF Canvases
  <2>3. ApartIn([canvases EXCEPT ![id] = NoCanvas])
    BY <1>0 DEF ApartIn, Canvases
  <2> QED BY <2>1, <2>2, <2>3, <1>0, ChangedKeeps DEF EditCanvas
<1>5. CASE \E now \in BOOLEAN : Mark(c, now)
  <2>1. PICK now \in BOOLEAN : Mark(c, now)
    BY <1>5
  <2>2. c \in Flusher /\ client[c].at = "marking" /\ dirty' = TRUE
    BY <2>1, Flushers DEF Mark
  <2>3. /\ flush' = IF now THEN [flush EXCEPT ![c].at = "check"] ELSE flush
        /\ UNCHANGED <<memory, clock, revision, lock, file, tmp, daemon, writer>>
    BY <2>1 DEF Mark, storeVars, fileVars
  <2>4. StoreTypes'
    <3>1. client' \in [Client -> [at : {"idle", "editing", "marking", "flushing"}, seen : Nat]]
      BY <2>1 DEF Mark, ClientIdle, StoreInv, StoreTypes
    <3> QED BY <3>1, <2>2, <2>3 DEF StoreInv, StoreTypes, Stages
  <2>5. \A f \in Flusher : /\ flush'[f].snap = flush[f].snap
                           /\ Working(f)' => Working(f) /\ flush'[f] = flush[f]
    BY <2>2, <2>3 DEF StoreInv, StoreTypes, Working, Copied
  <2>6. Saving'
    <3>1. c # Writer /\ c \in Flusher /\ Writer \in Flusher
      BY Flushers
    <3>2. /\ \A d \in Client \ {c} : client'[d] = client[d] /\ flush'[d] = flush[d]
          /\ flush'[Writer] = flush[Writer]
      BY <2>1, <2>3, <3>1, Flushers DEF Mark, StoreInv, StoreTypes
    <3>3. now => client'[c].at = "flushing"
      BY <2>1 DEF Mark, StoreInv, StoreTypes
    <3>4. ~now => flush'[c] = flush[c] /\ flush[c].at = "none"
      BY <2>1, <2>3 DEF Mark, StoreInv, Saving
    <3> QED BY <2>3, <3>2, <3>3, <3>4 DEF StoreInv, Saving
  <2> QED BY <2>2, <2>3, <2>4, <2>5, <2>6 DEF StoreInv, LockIsHeld, Versions, CleanIsCopied,
                                        CanvasesApart, Working, Copied
<1> QED BY <1>1, <1>2, <1>3, <1>4, <1>5

----------------------------------------------------------------------------
(* The steps of the flushes.                                                *)

(* A flush that ends before it has the lock changes nothing.                *)
LEMMA EarlyEndKeeps ==
  ASSUME StoreInv, NEW f \in Flusher, ~Working(f), flush[f].at # "none", Ends(f),
         UNCHANGED <<storeVars, dirty, lock, fileVars>>
  PROVE  StoreInv'
<1>1. StoreTypes'
  BY EndsFact DEF StoreInv, StoreTypes, storeVars, fileVars
<1>2. \A g \in Flusher : /\ Working(g)' => g # f /\ flush'[g] = flush[g] /\ Working(g)
                         /\ Working(g) => Working(g)'
                         /\ Copied(g)' => Copied(g) /\ g # f /\ flush'[g] = flush[g]
  BY EndsFact DEF StoreInv, Working, Copied
<1>3. LockIsHeld' /\ Versions'
  BY <1>2, EndsFact DEF StoreInv, LockIsHeld, Versions, Copied, storeVars, fileVars
<1>4. CleanIsCopied'
  <2> SUFFICES ASSUME daemon' = "running", ~dirty', \A c \in Client : client'[c].at # "marking"
               PROVE  /\ \A g \in Flusher : Copied(g)' => flush'[g].snap = memory'
                      /\ (\A g \in Flusher : ~Working(g)') => file' = memory'
    BY DEF CleanIsCopied
  <2>1. daemon = "running" /\ ~dirty /\ \A c \in Client : client[c].at # "marking"
    <3>1. f \in Client => client[f].at # "marking"
      BY DEF StoreInv, Saving
    <3> QED BY <3>1, EndsFact DEF StoreInv
  <2> QED BY <2>1, <1>2 DEF StoreInv, CleanIsCopied, storeVars, fileVars
<1>5. CanvasesApart'
  BY EndsFact, DefaultsFine DEF StoreInv, CanvasesApart, storeVars, fileVars, NoFlush
<1>6. Saving'
  BY EndsFact, Flushers DEF StoreInv, Saving, NoFlush
<1> QED BY <1>1, <1>3, <1>4, <1>5, <1>6 DEF StoreInv

(* A flush looks at the flag, takes the lock and copies the settings.       *)
LEMMA FlushBegins ==
  ASSUME StoreInv, NEW f \in Flusher, FlushCheck(f) \/ FlushLock(f) \/ FlushSnapshot(f)
  PROVE  StoreInv'
<1>0. StoreTypes /\ UNCHANGED <<memory, clock, revision, file, tmp>>
  BY DEF FlushCheck, FlushLock, FlushSnapshot, storeVars, fileVars, StoreInv
<1>1. CASE FlushCheck(f)
  <2>1. ~Working(f) /\ flush[f].at # "none" /\ UNCHANGED <<storeVars, dirty, lock, fileVars>>
    BY <1>1 DEF FlushCheck, Working, Copied
  <2>2. CASE dirty
    <3>1. To(f, "lock")
      BY <1>1, <2>2 DEF FlushCheck
    <3>2. \A g \in Flusher : /\ flush'[g].snap = flush[g].snap
                             /\ Working(g)' => Working(g) /\ flush'[g] = flush[g]
      BY <3>1, <1>0, ToFact DEF Stages, Working, Copied
    <3>3. StoreTypes'
      BY <3>1, <2>1, <1>0, ToFact, Flushers
      DEF Stages, StoreTypes, storeVars, fileVars
    <3>4. Saving'
      BY <3>1, <2>1, <1>0, ToFact, Flushers
      DEF Stages, StoreInv, StoreTypes, Saving, storeVars, fileVars
    <3> QED BY <2>1, <2>2, <3>2, <3>3, <3>4 DEF StoreInv, LockIsHeld, Versions, CleanIsCopied,
                       CanvasesApart, Working, Copied, storeVars, fileVars
  <2>3. CASE ~dirty
    BY <2>1, <2>3, <1>1, EarlyEndKeeps DEF FlushCheck
  <2> QED BY <2>2, <2>3
<1>2. CASE FlushLock(f)
  <2>1. /\ ~Working(f) /\ flush[f].at # "none" /\ UNCHANGED <<storeVars, fileVars>>
        /\ lock = Unlocked
    BY <1>2 DEF FlushLock, Working, Copied, FlushFree
  <2>2. CASE dirty
    <3>1. To(f, "snapshot") /\ lock' = f
      BY <1>2, <2>2 DEF FlushLock
    <3>2. \A g \in Flusher : ~Working(g)
      BY <2>1, Flushers DEF StoreInv, LockIsHeld
    <3>3. /\ Working(f)' /\ ~Copied(f)' /\ \A g \in Flusher : flush'[g].snap = flush[g].snap
          /\ \A g \in Flusher \ {f} : ~Working(g)'
      BY <3>1, <3>2, <1>0, ToFact DEF Stages, Working, Copied
    <3>5. dirty' = FALSE
      BY <1>2 DEF FlushLock
    <3>6. /\ flush' \in [Flusher -> [at : Stages, snap : State]] /\ client' = client
          /\ \A g \in Flusher : flush'[g].at # "none" => flush[g].at # "none"
          /\ writer' = writer
      BY <3>1, <2>1, <1>0, ToFact DEF Stages
    <3>4. StoreTypes' /\ Saving'
      BY <3>5, <3>6, <2>1, <1>0, Flushers DEF StoreInv, StoreTypes, Saving
    <3> QED BY <2>1, <3>1, <3>3, <3>4 DEF StoreInv, LockIsHeld, Versions, CleanIsCopied,
                       CanvasesApart, Working, Copied, storeVars, fileVars
  <2>3. CASE ~dirty
    <3>1. dirty' = dirty
      BY <1>2, <2>3, <1>0 DEF FlushLock, StoreTypes
    <3> QED BY <3>1, <2>1, <2>3, <1>2, EarlyEndKeeps DEF FlushLock
  <2> QED BY <2>2, <2>3
<1>3. CASE FlushSnapshot(f)
  <2>1. /\ flush' = [flush EXCEPT ![f] = [at |-> "write", snap |-> memory]]
        /\ UNCHANGED <<dirty, lock, client, daemon, writer>> /\ Working(f) /\ flush[f].at # "none"
    BY <1>3 DEF FlushSnapshot, Working
  <2>2. flush'[f] = [at |-> "write", snap |-> memory] /\ \A g \in Flusher \ {f} : flush'[g] = flush[g]
    BY <2>1, <1>0 DEF StoreTypes
  <2>3. \A g \in Flusher \ {f} : ~Working(g) /\ ~Working(g)' /\ ~Copied(g)'
    BY <2>1, <2>2 DEF StoreInv, LockIsHeld, Working, Copied
  <2>4. StoreTypes'
    BY <2>1, <1>0 DEF StoreTypes, Stages
  <2>5. Saving' /\ LockIsHeld'
    BY <2>1, <2>2, <2>3, Flushers DEF StoreInv, Saving, LockIsHeld, Working, Copied
  <2>6. Versions'
    <3>1. file.version <= memory.version /\ memory.version \in Nat /\ memory.version <= clock
      BY <1>0 DEF StoreInv, Versions, StoreTypes, State
    <3> QED BY <1>0, <2>2, <2>3, <3>1 DEF Versions, Copied
  <2>7. CleanIsCopied'
    BY <1>0, <2>2, <2>3 DEF CleanIsCopied, Working, Copied
  <2>8. CanvasesApart'
    BY <1>0, <2>2 DEF StoreInv, CanvasesApart
  <2> QED BY <2>4, <2>5, <2>6, <2>7, <2>8 DEF StoreInv
<1> QED BY <1>1, <1>2, <1>3

(* The file is written beside the old one, and renamed over it; or it fails. *)
LEMMA FlushWrites ==
  ASSUME StoreInv, NEW f \in Flusher, FlushWrite(f) \/ FlushRename(f) \/ FlushFails(f)
  PROVE  StoreInv' /\ NotOlder
<1>0. /\ StoreTypes /\ Copied(f) /\ lock = f /\ UNCHANGED <<memory, clock, revision>>
      /\ \A g \in Flusher \ {f} : ~Working(g)
  BY DEF FlushWrite, FlushRename, FlushFails, storeVars, StoreInv, LockIsHeld, Working, Copied
<1>1. flush[f].snap \in State /\ file.version \in Nat
  BY <1>0 DEF StoreTypes, State
<1>2. CASE FlushWrite(f)
  <2>1. tmp' = flush[f].snap /\ To(f, "rename") /\ UNCHANGED <<dirty, lock, file>> /\ flush[f].at = "write"
    BY <1>2 DEF FlushWrite
  <2>2. /\ flush' \in [Flusher -> [at : Stages, snap : State]]
        /\ flush'[f].at = "rename" /\ \A g \in Flusher : flush'[g].snap = flush[g].snap
        /\ \A g \in Flusher \ {f} : flush'[g] = flush[g]
        /\ client' = client /\ daemon' = daemon /\ writer' = writer
    BY <1>0, <2>1, ToFact DEF Stages
  <2>3. \A g \in Flusher : (Working(g)' <=> Working(g)) /\ (Copied(g)' <=> Copied(g))
    BY <1>0, <2>2 DEF Working, Copied
  <2>7. \A g \in Flusher : flush'[g].at # "none" => flush[g].at # "none"
    BY <2>1, <2>2
  <2>4. StoreTypes' /\ Saving' /\ LockIsHeld'
    BY <1>0, <1>1, <2>1, <2>2, <2>3, <2>7, Flushers DEF StoreTypes, StoreInv, Saving, LockIsHeld
  <2>5. Versions'
    <3>1. \A g \in Flusher : flush'[g].at = "rename" => g = f
      BY <1>0, <2>2 DEF Working, Copied
    <3> QED BY <1>0, <2>1, <2>2, <2>3, <3>1 DEF StoreInv, Versions
  <2>6. CleanIsCopied' /\ CanvasesApart'
    BY <1>0, <2>1, <2>2, <2>3 DEF StoreInv, CleanIsCopied, CanvasesApart
  <2> QED BY <2>1, <1>1, <2>4, <2>5, <2>6 DEF StoreInv, NotOlder
<1>3. CASE FlushRename(f) \/ FlushFails(f)
  <2>1. Ends(f) /\ tmp' = tmp /\ \/ FlushRename(f) /\ file' = flush[f].snap /\ dirty' = dirty
                                 \/ FlushFails(f) /\ file' = file /\ dirty' = TRUE
    BY <1>3 DEF FlushRename, FlushFails, LeavesDirty, fileVars, StoreInv, Versions
  <2>2. \A g \in Flusher : ~Working(g)' /\ ~Copied(g)'
    BY <1>0, <2>1, EndsFact DEF Working, Copied
  <2>3. StoreTypes'
    BY <1>0, <1>1, <2>1, EndsFact DEF StoreTypes
  <2>4. Saving' /\ LockIsHeld'
    BY <1>0, <2>1, <2>2, EndsFact, Flushers DEF StoreInv, Saving, LockIsHeld, NoFlush
  <2>5. Versions' /\ NotOlder
    <3>1. /\ file.version <= flush[f].snap.version /\ flush[f].snap.version <= memory.version
          /\ file.version <= memory.version /\ memory.version <= clock
      BY <1>0 DEF StoreInv, Versions
    <3>2. ~ \E g \in Flusher : flush'[g].at = "rename"
      BY <2>2 DEF Copied
    <3> QED BY <1>0, <1>1, <2>1, <2>2, <3>1, <3>2 DEF Versions, NotOlder
  <2>6. CleanIsCopied'
    <3> SUFFICES ASSUME daemon' = "running", ~dirty', \A c \in Client : client'[c].at # "marking"
                 PROVE  file' = memory'
      BY <2>2 DEF CleanIsCopied
    <3>1. f \in Client => client[f].at # "marking"
      BY <1>0 DEF StoreInv, Saving, Copied
    <3>2. daemon = "running" /\ ~dirty /\ (\A c \in Client : client[c].at # "marking")
                 /\ file' = flush[f].snap
      BY <1>0, <2>1, <3>1, EndsFact
    <3> QED BY <1>0, <3>2 DEF StoreInv, CleanIsCopied
  <2>7. CanvasesApart'
    BY <1>0, <2>1, EndsFact, DefaultsFine DEF StoreInv, CanvasesApart, NoFlush
  <2> QED BY <2>3, <2>4, <2>5, <2>6, <2>7 DEF StoreInv
<1> QED BY <1>2, <1>3

----------------------------------------------------------------------------
(* The writer, the shutdown and the crash.                                  *)

(* The writer begins a flush; the shutdown takes its flush from it.         *)
LEMMA DaemonKeeps ==
  ASSUME StoreInv, WriterWakes \/ WriterSettles \/ StopWriter
  PROVE  StoreInv'
<1>0. StoreTypes /\ UNCHANGED <<memory, clock, revision, dirty, file, tmp, client>>
  BY DEF WriterWakes, WriterSettles, StopWriter, storeVars, fileVars, StoreInv
<1>1. CASE WriterWakes
  BY <1>0, <1>1 DEF WriterWakes, StoreInv, StoreTypes, LockIsHeld, Saving, Versions,
                    CleanIsCopied, CanvasesApart, Working, Copied
<1>2. CASE WriterSettles \/ StopWriter
  <2>1. /\ flush' \in [Flusher -> [at : Stages, snap : State]]
        /\ \A c \in Client : flush'[c] = flush[c]
        /\ \A g \in Flusher : /\ flush'[g].snap \in {flush[g].snap, Defaults}
                              /\ Copied(g)' => Copied(g) /\ flush'[g] = flush[g]
                              /\ Working(g)' => Working(g) /\ flush'[g] = flush[g]
    <3>1. CASE WriterSettles
      BY <1>0, <3>1, Flushers DEF WriterSettles, StoreTypes, Stages, Working, Copied
    <3>2. CASE StopWriter
      <4>1. flush' = [flush EXCEPT ![Writer] = NoFlush, ![Main].at = "check"]
        BY <3>2 DEF StopWriter
      <4>2. NoFlush \in [at : Stages, snap : State] /\ NoFlush.at = "none" /\ NoFlush.snap = Defaults
        BY DefaultsFine DEF NoFlush, Stages
      <4>3. /\ flush'[Writer] = NoFlush
            /\ flush'[Main].at = "check" /\ flush'[Main].snap = flush[Main].snap
            /\ \A g \in Flusher \ {Writer, Main} : flush'[g] = flush[g]
        BY <1>0, <4>1, Flushers DEF StoreTypes
      <4>4. flush' \in [Flusher -> [at : Stages, snap : State]]
        BY <1>0, <4>1, <4>2, Flushers DEF StoreTypes, Stages
      <4> QED BY <4>2, <4>3, <4>4, Flushers DEF Working, Copied
    <3> QED BY <1>2, <3>1, <3>2
  <2>2. LockIsHeld'
    <3>1. CASE WriterSettles
      BY <2>1, <3>1 DEF WriterSettles, StoreInv, LockIsHeld
    <3>2. CASE StopWriter
      <4>1. flush'[Writer] = NoFlush /\ ~Working(Writer)'
        BY <1>0, <3>2, Flushers DEF StopWriter, StoreTypes, Working, Copied, NoFlush
      <4> QED BY <2>1, <3>2, <4>1 DEF StopWriter, StoreInv, LockIsHeld
    <3> QED BY <1>2, <3>1, <3>2
  <2>3. Saving'
    BY <1>0, <1>2, <2>1 DEF WriterSettles, StopWriter, StoreInv, Saving
  <2>4. Versions'
    BY <1>0, <2>1 DEF StoreInv, Versions, Copied
  <2>5. CleanIsCopied'
    <3>1. CASE WriterSettles
      <4>1. flush[Writer].at = "none" /\ daemon' = daemon
        BY <3>1 DEF WriterSettles, StoreInv, Saving
      <4>2. \A g \in Flusher : g # Writer => flush'[g] = flush[g]
        BY <1>0, <3>1 DEF WriterSettles, StoreTypes
      <4>3. \A g \in Flusher : Working(g) => Working(g)'
        BY <4>1, <4>2 DEF Working, Copied
      <4> QED BY <1>0, <2>1, <4>1, <4>3 DEF StoreInv, CleanIsCopied
    <3>2. CASE StopWriter
      BY <3>2 DEF StopWriter, CleanIsCopied
    <3> QED BY <1>2, <3>1, <3>2
  <2>6. CanvasesApart'
    BY <1>0, <2>1, DefaultsFine DEF StoreInv, CanvasesApart
  <2>7. StoreTypes'
    BY <1>0, <2>1 DEF StoreTypes
  <2> QED BY <2>2, <2>3, <2>4, <2>5, <2>6, <2>7 DEF StoreInv
<1> QED BY <1>1, <1>2

(* A daemon that died starts with what the file has.                        *)
LEMMA CrashKeeps ==
  ASSUME StoreInv, Crash
  PROVE  StoreInv'
<1>1. /\ memory' = file /\ clock' = clock + 1 /\ revision' = 1 /\ file' = file /\ tmp' = tmp
      /\ dirty' = FALSE /\ writer' = "parked"
      /\ flush' = [f \in Flusher |-> NoFlush] /\ client' = [c \in Client |-> ClientIdle]
  BY DEF Crash, fileVars
<1>2. StoreTypes'
  <2>1. NoFlush \in [at : Stages, snap : State]
        /\ ClientIdle \in [at : {"idle", "editing", "marking", "flushing"}, seen : Nat]
    BY DefaultsFine DEF NoFlush, Stages, ClientIdle
  <2>2. /\ flush' \in [Flusher -> [at : Stages, snap : State]]
        /\ client' \in [Client -> [at : {"idle", "editing", "marking", "flushing"}, seen : Nat]]
    BY <1>1, <2>1
  <2>3. memory' \in State /\ file' \in State /\ tmp' \in State /\ clock' \in Nat
    BY <1>1 DEF StoreInv, StoreTypes
  <2> QED BY <1>1, <2>2, <2>3 DEF StoreTypes
<1>3. \A f \in Flusher : ~Working(f)' /\ ~Copied(f)' /\ flush'[f].at # "rename" /\ flush'[f].snap = Defaults
  BY <1>1 DEF Working, Copied, NoFlush
<1>4. LockIsHeld' /\ CleanIsCopied' /\ CanvasesApart'
  BY <1>1, <1>3, DefaultsFine DEF StoreInv, LockIsHeld, CleanIsCopied, CanvasesApart
<1>5. Versions'
  BY <1>1, <1>3 DEF StoreInv, Versions, StoreTypes, State
<1>6. Saving'
  BY <1>1, Flushers DEF Saving, NoFlush
<1> QED BY <1>2, <1>4, <1>5, <1>6 DEF StoreInv

----------------------------------------------------------------------------
(* Every step keeps the invariant, and the file goes forward.               *)
LEMMA StoreStep ==
  ASSUME StoreInv, [StoreNext]_allVars
  PROVE  StoreInv' /\ NotOlder
<1>0. file.version <= file.version
  BY DEF StoreInv, StoreTypes, State
<1>1. CASE UNCHANGED allVars
  <2>1. UNCHANGED <<memory, clock, revision, dirty, lock, file, tmp, writer, flush, client, daemon>>
    BY <1>1 DEF allVars
  <2> QED BY <1>0, <2>1 DEF StoreInv, StoreTypes, LockIsHeld, Saving, Versions, CleanIsCopied,
                            CanvasesApart, Working, Copied, NotOlder
<1>2. ASSUME NEW c \in Client,
             \/ Update(c) \/ ReadCanvases(c) \/ EditRefused(c)
             \/ \E id \in Canvas, members \in SUBSET Member :
                  CreateCanvas(c, id, members) \/ UpdateCanvas(c, id, members)
             \/ \E id \in Canvas : DeleteCanvas(c, id)
             \/ \E now \in BOOLEAN : Mark(c, now)
      PROVE  StoreInv' /\ NotOlder
  <2>1. file' = file
    BY <1>2 DEF Update, ReadCanvases, EditRefused, CreateCanvas, UpdateCanvas, DeleteCanvas, Mark,
                EditCanvas, Changed, fileVars
  <2> QED BY <1>0, <1>2, <2>1, ClientKeeps DEF NotOlder
<1>3. ASSUME NEW f \in Flusher, Flush(f) \/ FlushFails(f)
      PROVE  StoreInv' /\ NotOlder
  <2>1. CASE FlushCheck(f) \/ FlushLock(f) \/ FlushSnapshot(f)
    <3>1. file' = file
      BY <2>1 DEF FlushCheck, FlushLock, FlushSnapshot, fileVars
    <3> QED BY <1>0, <2>1, <3>1, FlushBegins DEF NotOlder
  <2>2. CASE FlushWrite(f) \/ FlushRename(f) \/ FlushFails(f)
    BY <2>2, FlushWrites
  <2> QED BY <1>3, <2>1, <2>2 DEF Flush
<1>4. CASE WriterWakes \/ WriterSettles \/ StopWriter
  <2>1. file' = file
    BY <1>4 DEF WriterWakes, WriterSettles, StopWriter, fileVars
  <2> QED BY <1>0, <1>4, <2>1, DaemonKeeps DEF NotOlder
<1>5. CASE Crash
  <2>1. file' = file
    BY <1>5 DEF Crash, fileVars
  <2> QED BY <1>0, <1>5, <2>1, CrashKeeps DEF NotOlder
<1> QED BY <1>1, <1>2, <1>3, <1>4, <1>5 DEF StoreNext, Done

(* The invariant says what the properties say.                              *)
LEMMA StoreInvSays == StoreInv => SavedWhenClean /\ OneCanvas
<1> SUFFICES ASSUME StoreInv PROVE SavedWhenClean /\ OneCanvas
  OBVIOUS
<1>1. OneCanvas
  BY DEF StoreInv, CanvasesApart, ApartIn, OneCanvas, canvases
<1>2. SavedWhenClean
  <2> SUFFICES ASSUME daemon = "running", ~dirty, AllMarked PROVE file = memory
    BY DEF SavedWhenClean
  <2>1. \A f \in Flusher : ~Working(f)
    BY DEF AllMarked, Working, Copied
  <2> QED BY <2>1 DEF StoreInv, CleanIsCopied, AllMarked
<1> QED BY <1>1, <1>2

(* When the store is not dirty the file is what is held: no order of        *)
(* updates, flushes, failing writes and crashes forgets a change.           *)
THEOREM CleanIsSaved == StoreSpec => []SavedWhenClean
<1>1. StoreInv /\ [StoreNext]_allVars => StoreInv'
  BY StoreStep
<1> QED BY <1>1, LoadFine, StoreInvSays, PTL DEF StoreSpec

(* A display is a member of one canvas at most, whatever clients edit.      *)
THEOREM CanvasIsOne == StoreSpec => []OneCanvas
<1>1. StoreInv /\ [StoreNext]_allVars => StoreInv'
  BY StoreStep
<1> QED BY <1>1, LoadFine, StoreInvSays, PTL DEF StoreSpec

(* No flush writes settings that are older than those in the file.          *)
THEOREM FileForward == StoreSpec => FileGoesForward
<1>1. StoreInv /\ [StoreNext]_allVars => StoreInv'
  BY StoreStep
<1>2. StoreInv /\ [StoreNext]_allVars => [NotOlder]_allVars
  BY StoreStep
<1> QED BY <1>1, <1>2, LoadFine, PTL DEF StoreSpec, FileGoesForward
----------------------------------------------------------------------------
(* Cursors.  A shuffled order names every item once; what the round has      *)
(* shown are items at places up to that of the current one, so the next one  *)
(* is new.  An edit keeps the places of what stays one after the other.      *)

Items(d) == ToSet(d.items)
Orders(d) == IF d.mode = "shuffle" THEN SetToSeqs(Items(d)) ELSE {<<>>}
Cursors(d) == [order : Orders(d), current : Items(d) \cup {None}, round : Seq(Items(d))]

\* A cursor in the middle of an edit, which may have lost its item
Half(c, d) ==
  /\ c \in Cursors(d)
  /\ Fair(c)
  /\ d.mode = "shuffle" /\ c.current # None =>
       \A i \in DOMAIN c.round : Place(c.order, c.round[i]) <= Place(c.order, c.current)

Fits(c, d) == Half(c, d) /\ (c.current = None => c.round = <<>>)

\* The cursors of a session all fit, and every target shows an item
AllFit(s, ts, d) ==
  /\ Fits(s, d)
  /\ \A t \in DOMAIN ts : Fits(ts[t], d) /\ (d.items # <<>> => ts[t].current # None)
Alike(s, ts) == \A t \in DOMAIN ts : ts[t].current = s.current

SessionInv == definition \in SessionDefinitions /\ AllFit(shared, targets, definition)

LEMMA ItemsFact ==
  ASSUME NEW d \in SessionDefinitions
  PROVE  /\ d.items \in Seq(Items(d)) /\ IsFiniteSet(Items(d)) /\ None \notin Items(d)
         /\ d.items = <<>> <=> Items(d) = {}
         /\ \A i \in 1 .. Len(d.items) : d.items[i] \in Items(d)
<1> DEFINE s == d.items
<1>1. s \in Seq(Items(d)) /\ None \notin Items(d)
  BY DefinitionsAssumption DEF Items
<1>2. DOMAIN s = 1 .. Len(s) /\ Len(s) \in Nat
  BY <1>1, LenProperties
<1>3. \A x \in Items(d) : \E i \in 1 .. Len(s) : s[i] = x
  BY <1>2 DEF Items, ToSet
<1>4. IsFiniteSet(Items(d))
  BY <1>1, <1>3 DEF IsFiniteSet
<1>5. \A i \in 1 .. Len(s) : s[i] \in Items(d)
  BY <1>1, ElementOfSeq
<1>6. s = <<>> => Items(d) = {}
  BY <1>3
<1>7. Items(d) = {} => s = <<>>
  <2> SUFFICES ASSUME Items(d) = {}, s # <<>> PROVE FALSE
    OBVIOUS
  <2>1. 1 \in 1 .. Len(s)
    BY <1>1, <1>2, EmptySeq
  <2> QED BY <1>5, <2>1
<1> QED BY <1>1, <1>4, <1>5, <1>6, <1>7

LEMMA PlaceFact ==
  ASSUME NEW s, NEW i \in 1 .. Len(s)
  PROVE  Place(s, s[i]) \in 1 .. Len(s) /\ s[Place(s, s[i])] = s[i]
BY DEF Place

LEMMA OrderFact ==
  ASSUME NEW S, IsFiniteSet(S), NEW o \in SetToSeqs(S)
  PROVE  /\ o \in Seq(S) /\ Len(o) = Cardinality(S) /\ Len(o) \in Nat /\ DOMAIN o = 1 .. Len(o)
         /\ \A i, j \in 1 .. Len(o) : o[i] = o[j] => i = j
         /\ \A x \in S : Place(o, x) \in 1 .. Len(o) /\ o[Place(o, x)] = x
         /\ ToSet(o) = S /\ IsInjective(o)
<1> DEFINE n == Cardinality(S)
<1>1. n \in Nat
  BY FS_CardinalityType
<1>2. o \in [1 .. n -> S] /\ \A i, j \in 1 .. n : i # j => o[i] # o[j]
  BY DEF SetToSeqs
<1>3. o \in Seq(S) /\ Len(o) = n /\ DOMAIN o = 1 .. n
  BY <1>1, <1>2
<1>4. ASSUME NEW x \in S PROVE \E i \in 1 .. n : o[i] = x
  <2> SUFFICES ASSUME \A i \in 1 .. n : o[i] # x PROVE FALSE
    OBVIOUS
  <2>1. IsFiniteSet(S \ {x}) /\ Cardinality(S \ {x}) = n - 1
    BY FS_RemoveElement
  <2>2. IsFiniteSet(1 .. n) /\ Cardinality(1 .. n) = n
    <3>1. n # 0
      BY FS_EmptySet
    <3> QED BY <1>1, <3>1, FS_Interval
  <2>3. o \in [1 .. n -> S \ {x}]
    BY <1>2
  <2>4. Cardinality(S \ {x}) < Cardinality(1 .. n)
    BY <1>1, <2>1, <2>2
  <2>5. \E i, j \in 1 .. n : i # j /\ o[i] = o[j]
    <3> DEFINE D == 1 .. n
               T == S \ {x}
    <3>1. IsFiniteSet(D) /\ IsFiniteSet(T) /\ Cardinality(T) < Cardinality(D) /\ o \in [D -> T]
      BY <2>1, <2>2, <2>3, <2>4
    <3> HIDE DEF D, T
    <3>2. \E i, j \in D : i # j /\ o[i] = o[j]
      BY <3>1, FS_PigeonHole
    <3> QED BY <3>2 DEF D
  <2> QED BY <1>2, <2>5
<1>5. ASSUME NEW x \in S PROVE Place(o, x) \in 1 .. Len(o) /\ o[Place(o, x)] = x
  BY <1>3, <1>4 DEF Place
<1>6. ToSet(o) = S
  BY <1>2, <1>3, <1>4 DEF ToSet
<1>7. \A i, j \in 1 .. Len(o) : o[i] = o[j] => i = j
  BY <1>2, <1>3
<1>8. IsInjective(o)
  BY <1>3, <1>7 DEF IsInjective
<1> QED BY <1>1, <1>3, <1>5, <1>6, <1>7, <1>8

LEMMA NewFits ==
  ASSUME NEW d \in SessionDefinitions, NEW c \in NewCursors(d)
  PROVE  Fits(c, d) /\ c.current = None
<1>1. PICK o \in Orders(d) : c = [order |-> o, current |-> None, round |-> <<>>]
  BY DEF NewCursors, Orders, Items
<1>2. c \in Cursors(d)
  BY <1>1, EmptySeq DEF Cursors
<1>3. Fair(c)
  BY <1>1 DEF Fair, IsInjective
<1> QED BY <1>1, <1>2, <1>3 DEF Fits, Half

LEMMA AtFits ==
  ASSUME NEW d \in SessionDefinitions, NEW c \in Cursors(d), NEW item \in Items(d)
  PROVE  Fits(At(c, item), d) /\ At(c, item).current = item /\ item # None
<1> DEFINE a == At(c, item)
<1>0. None \notin Items(d) /\ IsFiniteSet(Items(d))
  BY ItemsFact
<1>1. a.order = c.order /\ a.current = item /\ a.round = <<item>>
  BY DEF At, Cursors
<1>2. <<item>> \in Seq(Items(d)) /\ DOMAIN <<item>> = {1} /\ <<item>>[1] = item
  OBVIOUS
<1>3. a \in Cursors(d)
  BY <1>2 DEF Cursors, At
<1> HIDE DEF a
<1>4. Fair(a)
  BY <1>1, <1>2 DEF Fair, IsInjective
<1>5. ASSUME d.mode = "shuffle", NEW i \in DOMAIN a.round
      PROVE  Place(a.order, a.round[i]) <= Place(a.order, a.current)
  <2>1. a.round[i] = item
    BY <1>1, <1>2, <1>5
  <2>2. c.order \in SetToSeqs(Items(d))
    BY <1>5 DEF Cursors, Orders
  <2>3. Place(c.order, item) \in Nat
    BY <1>0, <2>2, OrderFact
  <2> QED BY <1>1, <2>1, <2>3
<1> QED BY <1>0, <1>1, <1>3, <1>4, <1>5 DEF Fits, Half, a

LEMMA SetCurrentFits ==
  ASSUME NEW d \in SessionDefinitions, NEW c, NEW item
  PROVE  /\ Half(c, d) /\ item \in Items(d) =>
              Fits(SetCurrent(c, d, item), d) /\ SetCurrent(c, d, item).current = item
         /\ item \notin Items(d) => SetCurrent(c, d, item) = c
         /\ Fits(c, d) => Fits(SetCurrent(c, d, item), d)
<1>1. ASSUME Half(c, d), item \in Items(d)
      PROVE  Fits(SetCurrent(c, d, item), d) /\ SetCurrent(c, d, item).current = item
  <2>1. CASE item = c.current
    <3>1. SetCurrent(c, d, item) = c /\ c.current # None
      BY <1>1, <2>1, ItemsFact DEF SetCurrent
    <3> QED BY <1>1, <2>1, <3>1 DEF Fits
  <2>2. CASE item # c.current
    <3>1. SetCurrent(c, d, item) = At(c, item)
      BY <1>1, <2>2 DEF SetCurrent, Items
    <3> QED BY <1>1, <3>1, AtFits DEF Half
  <2> QED BY <2>1, <2>2
<1>2. item \notin Items(d) => SetCurrent(c, d, item) = c
  BY DEF SetCurrent, Items
<1> QED BY <1>1, <1>2 DEF Fits

LEMMA FirstsFit ==
  ASSUME NEW d \in SessionDefinitions, NEW c \in Cursors(d), NEW f \in Firsts(c, d)
  PROVE  /\ d.items # <<>> => Fits(f, d) /\ f.current \in Items(d) /\ f.current # None
         /\ d.items = <<>> => f = c
<1>1. d.items = <<>> => f = c
  BY DEF Firsts
<1>2. ASSUME d.items # <<>>
      PROVE  \E item \in Items(d) : f = At(c, item)
  <2>0. Items(d) # {} /\ d.items \in Seq(Items(d)) /\ IsFiniteSet(Items(d))
    BY <1>2, ItemsFact
  <2>1. CASE d.mode = "shuffle"
    <3>1. c.order \in SetToSeqs(Items(d))
      BY <2>1 DEF Cursors, Orders
    <3>2. Cardinality(Items(d)) # 0
      BY <2>0, FS_EmptySet
    <3>3. c.order \in Seq(Items(d)) /\ 1 \in 1 .. Len(c.order)
      BY <2>0, <3>1, <3>2, OrderFact
    <3>4. c.order[1] \in Items(d)
      BY <3>3, ElementOfSeq
    <3> QED BY <1>2, <2>1, <3>4 DEF Firsts
  <2>2. CASE d.mode = "sequential"
    <3>1. 1 \in 1 .. Len(d.items)
      BY <1>2, <2>0, EmptySeq
    <3> QED BY <1>2, <2>0, <2>2, <3>1, ElementOfSeq DEF Firsts
  <2>3. CASE d.mode = "random"
    BY <1>2, <2>3 DEF Firsts, Items
  <2> QED BY <2>1, <2>2, <2>3, DefinitionsAssumption
<1> QED BY <1>1, <1>2, AtFits

\* With nothing to show a cursor has shown nothing
LEMMA NothingFits ==
  ASSUME NEW d \in SessionDefinitions, d.items = <<>>, NEW c, Half(c, d)
  PROVE  Fits(c, d) /\ c.current = None
<1>1. Items(d) = {}
  BY ItemsFact
<1>2. c.current = None /\ c.round \in Seq({})
  BY <1>1 DEF Half, Cursors
<1>3. c.round = <<>>
  <2>1. c.round # <<>> => 1 \in 1 .. Len(c.round)
    BY <1>2, EmptySeq
  <2> QED BY <1>2, <2>1, ElementOfSeq
<1> QED BY <1>2, <1>3 DEF Fits

\* The place moved to is one of the places
LEMMA MovedFact ==
  ASSUME NEW S, NEW s \in Seq(S), s # <<>>, NEW item, NEW forward \in BOOLEAN,
         item # None => Place(s, item) \in 1 .. Len(s)
  PROVE  /\ Moved(s, item, forward) \in 1 .. Len(s)
         /\ forward /\ item # None /\ Moved(s, item, forward) # 1 =>
              Moved(s, item, forward) = Place(s, item) + 1
<1> DEFINE p == IF item = None THEN 1 ELSE Place(s, item)
<1>1. Len(s) \in Nat \ {0}
  BY EmptySeq
<1>2. p \in 1 .. Len(s)
  BY <1>1
<1> HIDE DEF p
<1>3. ASSUME NEW n \in Nat \ {0}, NEW q \in 1 .. n
      PROVE  /\ (q % n) + 1 \in 1 .. n
             /\ ((q + n - 2) % n) + 1 \in 1 .. n
             /\ (q % n) + 1 # 1 => (q % n) + 1 = q + 1
  <2>1. CASE q = n
    BY <2>1
  <2>2. CASE q < n
    BY <2>2
  <2> QED BY <2>1, <2>2
<1>4. /\ (p % Len(s)) + 1 \in 1 .. Len(s)
      /\ ((p + Len(s) - 2) % Len(s)) + 1 \in 1 .. Len(s)
      /\ (p % Len(s)) + 1 # 1 => (p % Len(s)) + 1 = p + 1
  BY <1>1, <1>2, <1>3
<1>5. Moved(s, item, forward) = IF forward THEN (p % Len(s)) + 1 ELSE ((p + Len(s) - 2) % Len(s)) + 1
  BY DEF Moved, p
<1> QED BY <1>4, <1>5 DEF p

Grown(c, item) == [At(c, item) EXCEPT !.round = Append(c.round, item)]

\* A round goes on with an item at a place behind all it has shown
LEMMA RoundGrows ==
  ASSUME NEW d \in SessionDefinitions, d.mode = "shuffle", NEW c, Fits(c, d),
         NEW p \in 1 .. Len(c.order), c.current # None => p = Place(c.order, c.current) + 1
  PROVE  Fits(Grown(c, c.order[p]), d) /\ Grown(c, c.order[p]).current = c.order[p]
<1> DEFINE o == c.order
           n == Grown(c, o[p])
           P(x) == Place(o, x)
<1>0. None \notin Items(d) /\ IsFiniteSet(Items(d))
  BY ItemsFact
<1>1. o \in SetToSeqs(Items(d)) /\ c.round \in Seq(Items(d)) /\ Fair(c)
  BY DEF Fits, Half, Cursors, Orders
<1>2. /\ o \in Seq(Items(d)) /\ Len(o) \in Nat
      /\ \A i, j \in 1 .. Len(o) : o[i] = o[j] => i = j
      /\ \A x \in Items(d) : P(x) \in 1 .. Len(o) /\ o[P(x)] = x
  BY <1>0, <1>1, OrderFact
<1>3. o[p] \in Items(d) /\ P(o[p]) = p
  <2>1. o[p] \in Items(d)
    BY <1>2, ElementOfSeq
  <2> QED BY <1>2, <2>1
<1>4. n.order = o /\ n.current = o[p] /\ n.round = Append(c.round, o[p])
  BY DEF Grown, At, Fits, Half, Cursors
<1>5. n \in Cursors(d)
  <2>1. Append(c.round, o[p]) \in Seq(Items(d))
    BY <1>1, <1>3, AppendProperties
  <2>2. c \in Cursors(d)
    BY DEF Fits, Half
  <2> QED BY <1>3, <2>1, <2>2 DEF Cursors, At, Grown
<1> HIDE DEF n, P
<1>6. /\ Len(n.round) = Len(c.round) + 1 /\ Len(c.round) \in Nat
      /\ DOMAIN c.round = 1 .. Len(c.round) /\ DOMAIN n.round = 1 .. Len(n.round)
      /\ \A i \in 1 .. Len(c.round) : n.round[i] = c.round[i]
      /\ n.round[Len(c.round) + 1] = o[p]
  <2>1. n.round \in Seq(Items(d))
    BY <1>5 DEF Cursors
  <2> QED BY <1>1, <1>3, <1>4, <2>1, AppendProperties, LenProperties
<1>7. \A i \in 1 .. Len(c.round) : P(c.round[i]) \in Nat /\ P(c.round[i]) < p
  <2> TAKE i \in 1 .. Len(c.round)
  <2>1. c.round # <<>>
    BY <1>6
  <2>2. c.current # None /\ c.current \in Items(d) /\ P(c.round[i]) <= P(c.current)
    BY <1>6, <2>1 DEF Fits, Half, Cursors, P
  <2>3. c.round[i] \in Items(d)
    BY <1>1, ElementOfSeq
  <2>4. P(c.round[i]) \in Nat /\ P(c.current) \in Nat /\ p = P(c.current) + 1
    BY <1>2, <2>2, <2>3 DEF P
  <2> QED BY <2>2, <2>4
<1>8. Fair(n)
  <2> SUFFICES ASSUME NEW i \in DOMAIN n.round, NEW j \in DOMAIN n.round,
                      n.round[i] = n.round[j]
               PROVE  i = j
    BY DEF Fair, IsInjective
  <2>1. \A k \in DOMAIN n.round : k \in 1 .. Len(c.round) \/ k = Len(c.round) + 1
    BY <1>6
  <2>2. \A k \in 1 .. Len(c.round) : n.round[k] # o[p]
    BY <1>3, <1>6, <1>7
  <2>3. \A k, l \in 1 .. Len(c.round) : n.round[k] = n.round[l] => k = l
    BY <1>1, <1>6 DEF Fair, IsInjective
  <2> QED BY <1>6, <2>1, <2>2, <2>3
<1>9. ASSUME NEW i \in DOMAIN n.round
      PROVE  P(n.round[i]) <= P(n.current)
  <2>1. i \in 1 .. Len(c.round) \/ i = Len(c.round) + 1
    BY <1>6
  <2>2. CASE i \in 1 .. Len(c.round)
    BY <1>3, <1>4, <1>6, <1>7, <2>2
  <2>3. CASE i = Len(c.round) + 1
    BY <1>3, <1>4, <1>6, <2>3
  <2> QED BY <2>1, <2>2, <2>3
<1>10. n.current # None
  BY <1>0, <1>3, <1>4
<1>11. Half(n, d)
  BY <1>4, <1>5, <1>8, <1>9 DEF Half, P
<1> QED BY <1>4, <1>10, <1>11 DEF Fits, n

LEMMA NextsFit ==
  ASSUME NEW d \in SessionDefinitions, d.items # <<>>, NEW c, Fits(c, d),
         NEW forward \in BOOLEAN, NEW n \in Nexts(c, d, forward)
  PROVE  Fits(n, d) /\ n.current \in Items(d) /\ n.current # None
<1>0. d.items \in Seq(Items(d)) /\ None \notin Items(d) /\ IsFiniteSet(Items(d)) /\ Items(d) # {}
  BY ItemsFact
<1>1. c \in Cursors(d) /\ (c.current # None => c.current \in Items(d))
  BY DEF Fits, Half, Cursors
<1>2. ASSUME NEW item \in Items(d), n = At(c, item)
      PROVE  Fits(n, d) /\ n.current \in Items(d) /\ n.current # None
  BY <1>1, <1>2, AtFits
<1>3. CASE d.mode = "sequential"
  <2> DEFINE p == Moved(d.items, c.current, forward)
  <2>1. c.current # None => Place(d.items, c.current) \in 1 .. Len(d.items)
    <3>1. \A x \in Items(d) : \E i \in 1 .. Len(d.items) : d.items[i] = x
      BY <1>0, LenProperties DEF Items, ToSet
    <3> QED BY <1>1, <3>1 DEF Place
  <2>2. p \in 1 .. Len(d.items)
    BY <1>0, <2>1, MovedFact
  <2>3. d.items[p] \in Items(d)
    BY <1>0, <2>2, ElementOfSeq
  <2>4. n = At(c, d.items[p])
    BY <1>3 DEF Nexts
  <2> QED BY <1>2, <2>3, <2>4
<1>4. CASE d.mode = "random"
  <2>1. \E item \in Items(d) : n = At(c, item)
    BY <1>4 DEF Nexts, Items
  <2> QED BY <1>2, <2>1
<1>5. CASE d.mode = "shuffle"
  <2> DEFINE o == c.order
             p == Moved(o, c.current, forward)
  <2>1. o \in SetToSeqs(Items(d))
    BY <1>1, <1>5 DEF Cursors, Orders
  <2>2. o \in Seq(Items(d)) /\ Len(o) = Cardinality(Items(d)) /\ Len(o) \in Nat
        /\ \A x \in Items(d) : Place(o, x) \in 1 .. Len(o)
    BY <1>0, <2>1, OrderFact
  <2>3. o # <<>>
    <3>1. Cardinality(Items(d)) # 0
      BY <1>0, FS_EmptySet
    <3> QED BY <2>2, <3>1
  <2>4. /\ p \in 1 .. Len(o)
        /\ forward /\ c.current # None /\ p # 1 => p = Place(o, c.current) + 1
    BY <1>1, <2>2, <2>3, MovedFact
  <2>5. CASE p = 1
    <3>1. PICK q \in SetToSeqs(Items(d)) : n = At([c EXCEPT !.order = q], q[1])
      BY <1>5, <2>5 DEF Nexts, Items
    <3>2. [c EXCEPT !.order = q] \in Cursors(d)
      BY <1>1, <1>5 DEF Cursors, Orders
    <3>3. q[1] \in Items(d)
      <4>1. q \in Seq(Items(d)) /\ Len(q) = Len(o)
        BY <1>0, <2>2, OrderFact
      <4>2. 1 \in 1 .. Len(q)
        BY <2>4, <2>5, <4>1
      <4> QED BY <4>1, <4>2, ElementOfSeq
    <3> QED BY <3>1, <3>2, <3>3, AtFits
  <2>6. CASE p # 1 /\ forward
    <3>1. n = Grown(c, o[p])
      BY <1>5, <2>6 DEF Nexts, Grown
    <3>2. o[p] \in Items(d)
      BY <2>2, <2>4, ElementOfSeq
    <3>3. p \in 1 .. Len(c.order) /\ (c.current # None => p = Place(c.order, c.current) + 1)
      BY <2>4, <2>6
    <3>4. Fits(Grown(c, c.order[p]), d) /\ Grown(c, c.order[p]).current = c.order[p]
      <4> HIDE DEF p
      <4> QED BY <1>5, <3>3, RoundGrows
    <3> QED BY <1>0, <3>1, <3>2, <3>4
  <2>7. CASE p # 1 /\ ~forward
    <3>1. n = [At(c, o[p]) EXCEPT !.round = @]
      BY <1>5, <2>7 DEF Nexts
    <3>2. n = At(c, o[p])
      BY <1>1, <3>1 DEF At, Cursors
    <3>3. o[p] \in Items(d)
      BY <2>2, <2>4, ElementOfSeq
    <3> QED BY <1>2, <3>2, <3>3
  <2> QED BY <2>5, <2>6, <2>7
<1> QED BY <1>3, <1>4, <1>5, DefinitionsAssumption

\* The items that stay, and the new ones behind them, are an order of the new items, in
\* which those that stay have kept the order of their places
LEMMA KeptOrder ==
  ASSUME NEW old \in SessionDefinitions, NEW d \in SessionDefinitions,
         NEW o \in SetToSeqs(Items(old)), NEW kept \in Kept(o, d.items),
         NEW added \in SetToSeqs(Items(d) \ Items(old))
  PROVE  /\ kept \o added \in SetToSeqs(Items(d))
         /\ \A x, y \in Items(old) \cap Items(d) :
              Place(o, x) <= Place(o, y) => Place(kept \o added, x) <= Place(kept \o added, y)
<1> DEFINE K == Items(old) \cap Items(d)
           N == Items(d) \ Items(old)
           S == Items(d)
           all == kept \o added
<1>1. IsFiniteSet(S) /\ IsFiniteSet(Items(old))
  BY ItemsFact
<1>2. IsFiniteSet(K) /\ IsFiniteSet(N)
  BY <1>1, FS_Subset
<1>3. Cardinality(S) = Cardinality(K) + Cardinality(N)
  <2>1. Cardinality(N) = Cardinality(S) - Cardinality(S \cap Items(old))
    BY <1>1, FS_Difference
  <2>2. Cardinality(S) \in Nat /\ Cardinality(K) \in Nat
    BY <1>1, <1>2, FS_CardinalityType
  <2>3. Cardinality(S \cap Items(old)) = Cardinality(K)
    <3>1. S \cap Items(old) = K
      OBVIOUS
    <3> HIDE DEF K, S
    <3> QED BY <3>1
  <2>4. Cardinality(N) = Cardinality(S) - Cardinality(K)
    BY <2>1, <2>3
  <2> HIDE DEF K, N, S
  <2> QED BY <2>2, <2>4
<1>4. /\ o \in Seq(Items(old)) /\ ToSet(o) = Items(old) /\ Len(o) \in Nat
      /\ \A x \in Items(old) : Place(o, x) \in 1 .. Len(o) /\ o[Place(o, x)] = x
  BY <1>1, OrderFact
<1>5. kept \in SetToSeqs(K)
  BY <1>4 DEF Kept, Items
<1>6. \A i, j \in DOMAIN kept : i < j => Place(o, kept[i]) < Place(o, kept[j])
  BY DEF Kept
<1> HIDE DEF K, N, S
<1>7. /\ kept \in Seq(K) /\ Len(kept) = Cardinality(K) /\ Len(kept) \in Nat
      /\ DOMAIN kept = 1 .. Len(kept)
      /\ \A i, j \in 1 .. Len(kept) : kept[i] = kept[j] => i = j
      /\ \A x \in K : Place(kept, x) \in 1 .. Len(kept) /\ kept[Place(kept, x)] = x
  BY <1>2, <1>5, OrderFact
<1>8. /\ added \in Seq(N) /\ Len(added) = Cardinality(N) /\ Len(added) \in Nat
      /\ \A i, j \in 1 .. Len(added) : added[i] = added[j] => i = j
  BY <1>2, OrderFact DEF N
<1>9. kept \in Seq(S) /\ added \in Seq(S) /\ K \cap N = {} /\ K \subseteq S /\ N \subseteq S
  <2>1. K \subseteq S /\ N \subseteq S /\ K \cap N = {}
    BY DEF K, N, S
  <2> QED BY <1>7, <1>8, <2>1, SeqMonotonic
<1>10. /\ all \in Seq(S) /\ Len(all) = Len(kept) + Len(added)
       /\ \A i \in 1 .. Len(kept) + Len(added) :
            all[i] = IF i <= Len(kept) THEN kept[i] ELSE added[i - Len(kept)]
  BY <1>9, ConcatProperties
<1> HIDE DEF all
<1>11. \A i \in 1 .. Len(kept) : all[i] = kept[i] /\ all[i] \in K
  BY <1>7, <1>8, <1>10, ElementOfSeq
<1>12. \A i \in 1 .. Len(all) : i > Len(kept) =>
         i - Len(kept) \in 1 .. Len(added) /\ all[i] = added[i - Len(kept)] /\ all[i] \in N
  <2> TAKE i \in 1 .. Len(all)
  <2> HAVE i > Len(kept)
  <2>1. i - Len(kept) \in 1 .. Len(added)
    BY <1>7, <1>8, <1>10
  <2>2. all[i] = added[i - Len(kept)]
    BY <1>7, <1>8, <1>10
  <2> QED BY <1>8, <2>1, <2>2, ElementOfSeq
<1>13. \A i, j \in 1 .. Len(all) : all[i] = all[j] => i = j
  <2> SUFFICES ASSUME NEW i \in 1 .. Len(all), NEW j \in 1 .. Len(all), all[i] = all[j]
               PROVE  i = j
    OBVIOUS
  <2>1. CASE i <= Len(kept) /\ j <= Len(kept)
    BY <1>7, <1>11, <2>1
  <2>2. CASE i > Len(kept) /\ j > Len(kept)
    <3>1. i - Len(kept) = j - Len(kept)
      BY <1>8, <1>12, <2>2
    <3> QED BY <1>7, <1>10, <3>1
  <2>3. CASE i <= Len(kept) /\ j > Len(kept)
    BY <1>7, <1>9, <1>11, <1>12, <2>3
  <2>4. CASE i > Len(kept) /\ j <= Len(kept)
    BY <1>7, <1>9, <1>11, <1>12, <2>4
  <2> QED BY <1>7, <1>10, <2>1, <2>2, <2>3, <2>4
<1>14. all \in SetToSeqs(S)
  <2>1. Len(all) = Cardinality(S)
    BY <1>3, <1>7, <1>8, <1>10 DEF K, N, S
  <2>2. all \in [1 .. Cardinality(S) -> S]
    BY <1>10, <2>1, LenProperties
  <2> QED BY <1>13, <2>1, <2>2 DEF SetToSeqs
<1>15. ASSUME NEW x \in K PROVE Place(all, x) = Place(kept, x)
  <2>1. Place(kept, x) \in 1 .. Len(all) /\ all[Place(kept, x)] = x
    BY <1>7, <1>8, <1>10, <1>11
  <2>2. Place(all, x) \in 1 .. Len(all) /\ all[Place(all, x)] = x
    BY <2>1 DEF Place
  <2> QED BY <1>13, <2>1, <2>2
<1>16. ASSUME NEW x \in K, NEW y \in K, Place(o, x) <= Place(o, y)
       PROVE  Place(all, x) <= Place(all, y)
  <2> DEFINE i == Place(kept, x)
             j == Place(kept, y)
  <2>1. i \in 1 .. Len(kept) /\ j \in 1 .. Len(kept) /\ kept[i] = x /\ kept[j] = y
    BY <1>7
  <2>2. x \in Items(old) /\ y \in Items(old)
    BY DEF K
  <2>3. Place(o, x) \in Nat /\ Place(o, y) \in Nat
    BY <1>4, <2>2
  <2> HIDE DEF i, j
  <2>4. ~(j < i)
    <3>1. j < i => Place(o, kept[j]) < Place(o, kept[i])
      BY <1>6, <1>7, <2>1
    <3> QED BY <1>16, <2>1, <2>3, <3>1
  <2>5. Place(all, x) = i /\ Place(all, y) = j
    BY <1>15 DEF i, j
  <2> QED BY <1>7, <2>1, <2>4, <2>5
<1> QED BY <1>14, <1>16 DEF K, S, all

LEMMA ReplacedFits ==
  ASSUME NEW old \in SessionDefinitions, NEW d \in SessionDefinitions, NEW c, Fits(c, old),
         NEW n \in Replaced(c, old, d)
  PROVE  /\ Half(n, d)
         /\ n.current = IF c.current \in Items(d) THEN c.current ELSE None
<1>0. IsFiniteSet(Items(d)) /\ None \notin Items(d) /\ IsFiniteSet(Items(old))
  BY ItemsFact
<1>1. CASE old.mode # d.mode
  <2>1. PICK m \in NewCursors(d) : n = SetCurrent(m, d, c.current)
    BY <1>1 DEF Replaced
  <2>2. Fits(m, d) /\ m.current = None
    BY NewFits
  <2> QED BY <2>1, <2>2, SetCurrentFits DEF Fits
<1>2. CASE old.mode = d.mode
  <2>1. PICK o \in Kept(c.order, d.items), r \in Kept(c.round, d.items),
             added \in SetToSeqs(Items(d) \ Items(old)) :
          n = [order   |-> IF d.mode = "shuffle" THEN o \o added ELSE <<>>,
               current |-> IF c.current \in Items(d) THEN c.current ELSE None,
               round   |-> r]
    <3>1. PICK e \in Kept(c.order, d.items) \X Kept(c.round, d.items)
                       \X SetToSeqs(Items(d) \ Items(old)) :
                n = [order   |-> IF d.mode = "shuffle" THEN e[1] \o e[3] ELSE <<>>,
                     current |-> IF c.current \in Items(d) THEN c.current ELSE None,
                     round   |-> e[2]]
      BY <1>2 DEF Replaced, Items
    <3>2. /\ e[1] \in Kept(c.order, d.items) /\ e[2] \in Kept(c.round, d.items)
          /\ e[3] \in SetToSeqs(Items(d) \ Items(old))
      OBVIOUS
    <3> QED BY <3>1, <3>2
  <2>2. c.round \in Seq(Items(old)) /\ c.current \in Items(old) \cup {None}
    BY DEF Fits, Half, Cursors
  <2> DEFINE R == ToSet(c.round) \cap Items(d)
  <2>3. r \in Seq(R) /\ IsInjective(r) /\ DOMAIN r = 1 .. Len(r)
    <3>1. IsFiniteSet(R)
      BY <1>0, FS_Subset
    <3>2. r \in SetToSeqs(R)
      BY DEF Kept, Items
    <3> HIDE DEF R
    <3> QED BY <3>1, <3>2, OrderFact
  <2>4. r \in Seq(Items(d))
    <3>1. R \subseteq Items(d)
      OBVIOUS
    <3> HIDE DEF R
    <3> QED BY <2>3, <3>1, SeqMonotonic
  <2>5. ASSUME d.mode = "shuffle"
        PROVE  /\ o \o added \in SetToSeqs(Items(d))
               /\ \A x, y \in Items(old) \cap Items(d) :
                    Place(c.order, x) <= Place(c.order, y) =>
                      Place(o \o added, x) <= Place(o \o added, y)
    <3>1. c.order \in SetToSeqs(Items(old))
      BY <1>2, <2>5 DEF Fits, Half, Cursors, Orders
    <3> QED BY <3>1, KeptOrder
  <2>6. n.order \in Orders(d)
    BY <2>1, <2>5 DEF Orders
  <2>7. n \in Cursors(d)
    BY <2>1, <2>4, <2>6 DEF Cursors
  <2>8. ASSUME d.mode = "shuffle", n.current # None, NEW i \in DOMAIN n.round
        PROVE  Place(n.order, n.round[i]) <= Place(n.order, n.current)
    <3>1. n.current = c.current /\ c.current \in Items(old) \cap Items(d) /\ c.current # None
      BY <1>0, <2>1, <2>2, <2>8
    <3>2. n.round[i] \in R
      BY <2>1, <2>3, <2>8, ElementOfSeq
    <3>3. PICK j \in DOMAIN c.round : n.round[i] = c.round[j]
      BY <3>2 DEF ToSet
    <3>4. n.round[i] \in Items(old) \cap Items(d)
      BY <2>2, <3>2, <3>3, LenProperties
    <3>5. Place(c.order, c.round[j]) <= Place(c.order, c.current)
      BY <1>2, <2>8, <3>1 DEF Fits, Half
    <3>6. n.order = o \o added
      BY <2>1, <2>8
    <3> QED BY <2>5, <2>8, <3>1, <3>3, <3>4, <3>5, <3>6
  <2>9. Fair(n)
    BY <2>1, <2>3 DEF Fair
  <2>10. n.current = IF c.current \in Items(d) THEN c.current ELSE None
    BY <2>1
  <2> QED BY <2>7, <2>8, <2>9, <2>10 DEF Half
<1> QED BY <1>1, <1>2

----------------------------------------------------------------------------
(* Sessions: every operation leaves the cursors fit for the definition, and  *)
(* targets that agree in agreement.                                          *)

LEMMA StartsFit ==
  ASSUME NEW d \in SessionDefinitions, NEW c, Fits(c, d), NEW resume, NEW s \in Starts(c, d, resume)
  PROVE  /\ Fits(s, d)
         /\ d.items # <<>> => s.current # None /\ s.current \in Items(d)
         /\ d.items = <<>> => s = c
<1>1. None \notin Items(d) /\ (d.items = <<>> => Items(d) = {})
  BY ItemsFact
<1>2. CASE resume \in Items(d)
  <2>1. s = SetCurrent(c, d, resume)
    BY <1>2 DEF Starts, Items
  <2> QED BY <1>1, <1>2, <2>1, SetCurrentFits DEF Fits
<1>3. CASE resume \notin Items(d)
  <2>1. s \in Firsts(c, d) /\ c \in Cursors(d)
    BY <1>3 DEF Starts, Items, Fits, Half
  <2> QED BY <2>1, FirstsFit
<1> QED BY <1>2, <1>3

LEMMA WithFits ==
  ASSUME NEW d, NEW s, Fits(s, d), NEW ts, NEW t, NEW c, Fits(c, d),
         \A u \in DOMAIN ts : Fits(ts[u], d) /\ (d.items # <<>> => ts[u].current # None),
         d.items # <<>> => c.current # None
  PROVE  /\ AllFit(s, With(ts, t, c), d)
         /\ c.current = s.current /\ Alike(s, ts) => Alike(s, With(ts, t, c))
BY DEF With, AllFit, Alike

\* A target that joins leaves all cursors fit, and in a synchronized session it shows what
\* the others show
LEMMA JoinedFits ==
  ASSUME NEW d \in SessionDefinitions, NEW sh, NEW ts, AllFit(sh, ts, d),
         NEW t, NEW resume, NEW j \in Joined(t, resume, d, sh, ts)
  PROVE  AllFit(j[1], j[2], d) /\ (Alike(sh, ts) /\ Synchronized(d) => Alike(j[1], j[2]))
<1>0. None \notin Items(d) /\ (d.items = <<>> <=> Items(d) = {})
  BY ItemsFact
<1>1. /\ Fits(sh, d)
      /\ \A u \in DOMAIN ts : Fits(ts[u], d) /\ (d.items # <<>> => ts[u].current # None)
  BY DEF AllFit
<1>2. PICK c \in NewCursors(d) :
        j \in IF Synchronized(d)
              THEN {<<s, With(ts, t, SetCurrent(c, d, s.current))>> :
                      s \in IF sh.current = None THEN Starts(sh, d, resume) ELSE {sh}}
              ELSE {<<IF sh.current = None THEN SetCurrent(sh, d, n.current) ELSE sh,
                      With(ts, t, n)>> : n \in Starts(c, d, resume)}
  BY DEF Joined
<1>3. Fits(c, d) /\ c.current = None
  BY NewFits
<1>4. CASE ~Synchronized(d)
  <2>1. PICK n \in Starts(c, d, resume) :
          j = <<IF sh.current = None THEN SetCurrent(sh, d, n.current) ELSE sh, With(ts, t, n)>>
    BY <1>2, <1>4
  <2>2. Fits(j[1], d) /\ j[2] = With(ts, t, n)
    BY <1>1, <2>1, SetCurrentFits
  <2>3. Fits(n, d) /\ (d.items # <<>> => n.current # None)
    BY <1>3, StartsFit
  <2> QED BY <1>1, <1>4, <2>2, <2>3, WithFits
<1>5. CASE Synchronized(d)
  <2>1. PICK s \in IF sh.current = None THEN Starts(sh, d, resume) ELSE {sh} :
          j = <<s, With(ts, t, SetCurrent(c, d, s.current))>>
    BY <1>2, <1>5
  <2>2. Fits(s, d) /\ (d.items # <<>> => s.current # None)
    BY <1>1, <2>1, StartsFit
  <2>3. s.current \in Items(d) \/ (s.current = None /\ d.items = <<>>)
    BY <2>2 DEF Fits, Half, Cursors
  <2> DEFINE n == SetCurrent(c, d, s.current)
  <2>4. Fits(n, d) /\ n.current = s.current
    BY <1>0, <1>3, <2>3, SetCurrentFits DEF Fits
  <2>5. Alike(sh, ts) => Alike(s, ts)
    <3>1. CASE sh.current # None
      BY <2>1, <3>1
    <3>2. CASE sh.current = None /\ d.items = <<>>
      BY <1>1, <2>1, <3>2, StartsFit
    <3>3. CASE sh.current = None /\ d.items # <<>>
      BY <1>1, <3>3 DEF Alike
    <3> QED BY <3>1, <3>2, <3>3
  <2> HIDE DEF n
  <2>6. j[1] = s /\ j[2] = With(ts, t, n)
    BY <2>1 DEF n
  <2> QED BY <1>1, <2>2, <2>4, <2>5, <2>6, WithFits
<1> QED BY <1>4, <1>5
\* An edit leaves all cursors fit, and in a session that is synchronized then targets that
\* agreed still agree
LEMMA ReconfiguredFits ==
  ASSUME SessionInv, NEW d \in SessionDefinitions, NEW r \in Reconfigured(d)
  PROVE  AllFit(r[1], r[2], d) /\ (Alike(shared, targets) /\ Synchronized(d) => Alike(r[1], r[2]))
<1> DEFINE p == PreviousShared
           valid == p \in Items(d)
           shareds == UNION {IF valid THEN {SetCurrent(s, d, p)} ELSE Firsts(s, d) :
                               s \in Replaced(shared, definition, d)}
           moved == {f \in [Present -> UNION {Replaced(targets[t], definition, d) : t \in Present}] :
                       \A t \in Present : f[t] \in Replaced(targets[t], definition, d)}
           Repaired(f) == {g \in [Present -> UNION {{f[t]} \cup Firsts(f[t], d) : t \in Present}] :
                             \A t \in Present : IF t \in Invalid(f) THEN g[t] \in Firsts(f[t], d)
                                                                    ELSE g[t] = f[t]}
           Pair(s, f, g) ==
             <<s, IF Synchronized(d) /\ (~valid \/ Invalid(f) # {}) /\ s.current # None
                  THEN Show(g, d, s.current) ELSE g>>
<1>0. /\ None \notin Items(d) /\ (d.items = <<>> <=> Items(d) = {})
      /\ definition \in SessionDefinitions /\ Fits(shared, definition)
      /\ \A t \in Present : Fits(targets[t], definition)
  BY ItemsFact DEF SessionInv, AllFit, Present
<1>1. PICK s \in shareds, f \in moved : \E g \in Repaired(f) : r = Pair(s, f, g)
  <2>1. Reconfigured(d) =
          UNION {UNION {{Pair(s, f, g) : g \in Repaired(f)} : f \in moved} : s \in shareds}
    BY DEF Reconfigured, Items
  <2> HIDE DEF shareds, moved, Repaired, Pair
  <2>2. PICK s \in shareds : r \in UNION {{Pair(s, f, g) : g \in Repaired(f)} : f \in moved}
    BY <2>1
  <2>3. PICK f \in moved : r \in {Pair(s, f, g) : g \in Repaired(f)}
    BY <2>2
  <2> QED BY <2>3
<1>2. PICK g \in Repaired(f) : r = Pair(s, f, g)
  BY <1>1
<1>3. /\ \A t \in Present : f[t] \in Replaced(targets[t], definition, d)
      /\ \A t \in Present : IF t \in Invalid(f) THEN g[t] \in Firsts(f[t], d) ELSE g[t] = f[t]
      /\ DOMAIN f = Present /\ DOMAIN g = Present
  BY <1>1, <1>2
<1>4. r = <<s, IF Synchronized(d) /\ (~valid \/ Invalid(f) # {}) /\ s.current # None
               THEN Show(g, d, s.current) ELSE g>>
  BY <1>2
<1>5. PICK x \in Replaced(shared, definition, d) :
        s \in IF valid THEN {SetCurrent(x, d, p)} ELSE Firsts(x, d)
  BY <1>1
<1>6. Half(x, d) /\ x.current = IF shared.current \in Items(d) THEN shared.current ELSE None
  BY <1>0, <1>5, ReplacedFits
<1>7. /\ Fits(s, d) /\ (valid => s.current = p)
      /\ d.items # <<>> => s.current \in Items(d) /\ s.current # None
  <2>1. CASE valid
    <3>1. s = SetCurrent(x, d, p)
      BY <1>5, <2>1
    <3> HIDE DEF p
    <3> QED BY <1>0, <1>6, <2>1, <3>1, SetCurrentFits
  <2>2. CASE ~valid
    <3>1. s \in Firsts(x, d) /\ x \in Cursors(d)
      BY <1>5, <1>6, <2>2 DEF Half
    <3> HIDE DEF p
    <3>2. d.items # <<>> => Fits(s, d) /\ s.current \in Items(d) /\ s.current # None
      BY <3>1, FirstsFit
    <3>3. d.items = <<>> => Fits(s, d)
      BY <1>6, <3>1, FirstsFit, NothingFits
    <3> QED BY <2>2, <3>2, <3>3
  <2> QED BY <2>1, <2>2
<1>8. ASSUME NEW t \in Present
      PROVE  /\ Half(f[t], d)
             /\ f[t].current = IF targets[t].current \in Items(d) THEN targets[t].current ELSE None
  BY <1>0, <1>3, ReplacedFits
<1>9. DOMAIN f = Present /\ DOMAIN g = Present
  BY <1>3
<1> HIDE DEF p, shareds, moved, Repaired, Pair
<1>10. ASSUME NEW t \in Present
      PROVE  Fits(g[t], d) /\ (d.items # <<>> => g[t].current # None)
  <2>1. CASE f[t].current = None
    <3>1. g[t] \in Firsts(f[t], d) /\ f[t] \in Cursors(d)
      BY <1>3, <1>8, <1>9, <2>1 DEF Invalid, Half
    <3>2. d.items # <<>> => Fits(g[t], d) /\ g[t].current # None
      BY <3>1, FirstsFit
    <3>3. d.items = <<>> => Fits(g[t], d)
      BY <1>8, <3>1, FirstsFit, NothingFits
    <3> QED BY <3>2, <3>3
  <2>2. CASE f[t].current # None
    <3>1. g[t] = f[t]
      BY <1>3, <1>9, <2>2 DEF Invalid
    <3> QED BY <1>8, <2>2, <3>1 DEF Fits
  <2> QED BY <2>1, <2>2
<1>11. CASE Synchronized(d) /\ (~valid \/ Invalid(f) # {}) /\ s.current # None
  <2>1. r[1] = s /\ r[2] = Show(g, d, s.current)
    BY <1>4, <1>11
  <2>2. s.current \in Items(d)
    BY <1>7, <1>11 DEF Fits, Half, Cursors
  <2>3. DOMAIN r[2] = Present /\ \A t \in Present : r[2][t] = SetCurrent(g[t], d, s.current)
    BY <1>9, <2>1 DEF Show
  <2>4. ASSUME NEW t \in Present
        PROVE  Fits(r[2][t], d) /\ r[2][t].current = s.current
    <3>1. Half(g[t], d)
      BY <1>10 DEF Fits
    <3> QED BY <2>2, <2>3, <3>1, SetCurrentFits
  <2> QED BY <1>7, <1>11, <2>1, <2>3, <2>4 DEF AllFit, Alike
<1>12. CASE ~(Synchronized(d) /\ (~valid \/ Invalid(f) # {}) /\ s.current # None)
  <2>1. r[1] = s /\ r[2] = g
    BY <1>4, <1>12
  <2>2. AllFit(s, g, d)
    BY <1>7, <1>9, <1>10 DEF AllFit
  <2>3. ASSUME Alike(shared, targets), Synchronized(d)
        PROVE  Alike(s, g)
    <3>1. CASE d.items = <<>>
      <4>1. s.current = None /\ \A t \in Present : g[t].current = None
        BY <1>7, <1>10, <3>1, NothingFits DEF Fits
      <4> QED BY <1>9, <4>1 DEF Alike
    <3>2. CASE d.items # <<>>
      <4>1. valid /\ Invalid(f) = {}
        BY <1>7, <1>12, <2>3, <3>2
      <4>2. \A t \in Present : targets[t].current = shared.current
        BY <2>3 DEF Alike, Present
      <4>3. p = shared.current
        <5>1. CASE shared.current # None \/ Present = {}
          BY <5>1 DEF p, PreviousShared
        <5>2. CASE ~(shared.current # None \/ Present = {})
          BY <4>2, <5>2 DEF p, PreviousShared
        <5> QED BY <5>1, <5>2
      <4>4. \A t \in Present : g[t].current = p
        BY <1>3, <1>8, <1>9, <4>1, <4>2, <4>3 DEF Invalid
      <4> QED BY <1>7, <1>9, <4>1, <4>4 DEF Alike
    <3> QED BY <3>1, <3>2
  <2> QED BY <2>1, <2>2, <2>3
<1> QED BY <1>11, <1>12

LEMMA SessionInit ==
  ASSUME CursorInit
  PROVE  SessionInv
<1>1. DOMAIN targets = {}
  BY DEF CursorInit
<1> QED BY <1>1, NewFits DEF CursorInit, SessionInv, AllFit

LEMMA ActivateFits ==
  ASSUME SessionInv, NEW t, NEW resume, NEW d \in SessionDefinitions, Activate(t, resume, d)
  PROVE  SessionInv' /\ KeepsSync
<1>1. PICK r \in IF d = definition THEN {<<shared, targets>>} ELSE Reconfigured(d) :
        \E j \in Joined(t, resume, d, r[1], r[2]) : shared' = j[1] /\ targets' = j[2]
  BY DEF Activate
<1>2. PICK j \in Joined(t, resume, d, r[1], r[2]) : shared' = j[1] /\ targets' = j[2]
  BY <1>1
<1>3. AllFit(r[1], r[2], d) /\ (Alike(shared, targets) /\ Synchronized(d) => Alike(r[1], r[2]))
  <2>1. CASE d = definition
    <3>1. r = <<shared, targets>>
      BY <1>1, <2>1
    <3> QED BY <2>1, <3>1 DEF SessionInv
  <2>2. CASE d # definition
    <3>1. r \in Reconfigured(d)
      BY <1>1, <2>2
    <3> QED BY <3>1, ReconfiguredFits
  <2> QED BY <2>1, <2>2
<1>4. AllFit(j[1], j[2], d) /\ (Alike(r[1], r[2]) /\ Synchronized(d) => Alike(j[1], j[2]))
  BY <1>2, <1>3, JoinedFits
<1>5. definition' = d
  BY DEF Activate
<1> QED BY <1>2, <1>3, <1>4, <1>5 DEF SessionInv, KeepsSync, InSync, Alike, Present

LEMMA AttachFits ==
  ASSUME SessionInv, NEW t, NEW resume, Attach(t, resume)
  PROVE  SessionInv' /\ KeepsSync
<1>1. PICK j \in Joined(t, resume, definition, shared, targets) :
        shared' = j[1] /\ targets' = j[2]
  BY DEF Attach
<1>2. AllFit(j[1], j[2], definition)
      /\ (Alike(shared, targets) /\ Synchronized(definition) => Alike(j[1], j[2]))
  BY <1>1, JoinedFits DEF SessionInv
<1>3. definition' = definition
  BY DEF Attach
<1> QED BY <1>1, <1>2, <1>3 DEF SessionInv, KeepsSync, InSync, Alike, Present

LEMMA LeaveFits ==
  ASSUME SessionInv, NEW t, Leave(t)
  PROVE  SessionInv' /\ KeepsSync
<1>1. targets' = [u \in Present \ {t} |-> targets[u]] /\ t \in Present
  BY DEF Leave
<1>2. Present' = Present \ {t} /\ \A u \in Present \ {t} : targets'[u] = targets[u]
  BY <1>1 DEF Present
<1>3. CASE Present = {t}
  <2>1. definition' \in SessionDefinitions /\ shared' \in NewCursors(definition')
    BY <1>3 DEF Leave
  <2>2. Fits(shared', definition') /\ Present' = {}
    BY <1>2, <1>3, <2>1, NewFits
  <2> QED BY <2>1, <2>2 DEF SessionInv, AllFit, KeepsSync, InSync, Present
<1>4. CASE Present # {t}
  <2>1. definition' = definition /\ shared' = shared
    BY <1>4 DEF Leave
  <2> QED BY <1>2, <2>1 DEF SessionInv, AllFit, KeepsSync, InSync, Present
<1> QED BY <1>3, <1>4

LEMMA ShowFits ==
  ASSUME NEW d \in SessionDefinitions, NEW s, NEW ts, NEW item \in Items(d), Fits(s, d),
         s.current = item, \A t \in DOMAIN ts : Fits(ts[t], d)
  PROVE  AllFit(s, Show(ts, d, item), d) /\ Alike(s, Show(ts, d, item))
<1>1. DOMAIN Show(ts, d, item) = DOMAIN ts
      /\ \A t \in DOMAIN ts : Show(ts, d, item)[t] = SetCurrent(ts[t], d, item)
  BY DEF Show
<1>2. ASSUME NEW t \in DOMAIN ts
      PROVE  Fits(SetCurrent(ts[t], d, item), d) /\ SetCurrent(ts[t], d, item).current = item
  <2>1. Half(ts[t], d)
    BY DEF Fits
  <2> QED BY <2>1, SetCurrentFits
<1>3. item # None
  BY ItemsFact
<1> QED BY <1>1, <1>2, <1>3 DEF AllFit, Alike

LEMMA StepFits ==
  ASSUME SessionInv, NEW forward \in BOOLEAN, Step(forward)
  PROVE  SessionInv' /\ KeepsSync
<1>0. /\ definition \in SessionDefinitions /\ Fits(shared, definition) /\ definition.items # <<>>
      /\ \A t \in Present : Fits(targets[t], definition)
      /\ definition' = definition
  BY DEF SessionInv, AllFit, Present, Step
<1>1. CASE Synchronized(definition)
  <2>1. PICK s \in Nexts(shared, definition, forward) :
          shared' = s /\ targets' = Show(targets, definition, s.current)
    BY <1>1 DEF Step
  <2>2. Fits(s, definition) /\ s.current \in Items(definition)
    BY <1>0, NextsFit
  <2>3. AllFit(shared', targets', definition) /\ Alike(shared', targets')
    BY <1>0, <2>1, <2>2, ShowFits DEF Present
  <2> QED BY <1>0, <2>3 DEF SessionInv, KeepsSync, InSync, Alike, Present
<1>2. CASE ~Synchronized(definition)
  <2>1. /\ targets' \in
             [Present -> UNION {Nexts(targets[t], definition, forward) : t \in Present}]
        /\ \A t \in Present : targets'[t] \in Nexts(targets[t], definition, forward)
        /\ shared' = shared
    BY <1>2 DEF Step
  <2>2. Present' = Present
    BY <2>1 DEF Present
  <2>3. ASSUME NEW t \in Present
        PROVE  Fits(targets'[t], definition) /\ targets'[t].current # None
    BY <1>0, <2>1, NextsFit
  <2>4. AllFit(shared', targets', definition)
    BY <1>0, <2>1, <2>2, <2>3 DEF AllFit, Present
  <2> QED BY <1>0, <1>2, <2>4 DEF SessionInv, KeepsSync
<1> QED BY <1>1, <1>2

LEMMA JumpFits ==
  ASSUME SessionInv, NEW item, Jump(item)
  PROVE  SessionInv' /\ KeepsSync
<1>1. /\ item \in Items(definition) /\ definition' = definition
      /\ shared' = SetCurrent(shared, definition, item)
      /\ targets' = Show(targets, definition, item)
  BY DEF Jump, Items
<1>2. Fits(shared', definition) /\ shared'.current = item
  <2>1. Half(shared, definition) /\ definition \in SessionDefinitions
    BY DEF SessionInv, AllFit, Fits
  <2> QED BY <1>1, <2>1, SetCurrentFits
<1>3. AllFit(shared', targets', definition) /\ Alike(shared', targets')
  BY <1>1, <1>2, ShowFits DEF SessionInv, AllFit
<1> QED BY <1>1, <1>3 DEF SessionInv, KeepsSync, InSync, Alike, Present

LEMMA RebuildFits ==
  ASSUME SessionInv, NEW d \in SessionDefinitions, Rebuild(d)
  PROVE  SessionInv' /\ KeepsSync
<1>1. PICK r \in Reconfigured(d) : shared' = r[1] /\ targets' = r[2]
  BY DEF Rebuild
<1>2. AllFit(r[1], r[2], d) /\ (Alike(shared, targets) /\ Synchronized(d) => Alike(r[1], r[2]))
  BY <1>1, ReconfiguredFits
<1>3. definition' = d
  BY DEF Rebuild
<1> QED BY <1>1, <1>2, <1>3 DEF SessionInv, KeepsSync, InSync, Alike, Present

LEMMA SessionStep ==
  ASSUME SessionInv, [CursorNext]_cursorVars
  PROVE  SessionInv' /\ [KeepsSync]_cursorVars
<1>1. CASE UNCHANGED cursorVars
  BY <1>1 DEF cursorVars, SessionInv, AllFit
<1>2. CASE \E t \in TargetId, resume \in Resumes, d \in SessionDefinitions :
             Activate(t, resume, d)
  BY <1>2, ActivateFits
<1>3. CASE \E t \in TargetId, resume \in Resumes : Attach(t, resume)
  BY <1>3, AttachFits
<1>4. CASE \E t \in TargetId : Leave(t)
  BY <1>4, LeaveFits
<1>5. CASE \E forward \in BOOLEAN : Step(forward)
  BY <1>5, StepFits
<1>6. CASE \E item \in Resumes : Jump(item)
  BY <1>6, JumpFits
<1>7. CASE \E d \in SessionDefinitions : Rebuild(d)
  BY <1>7, RebuildFits
<1> QED BY <1>1, <1>2, <1>3, <1>4, <1>5, <1>6, <1>7 DEF CursorNext

LEMMA SessionsFit == CursorSpec => []SessionInv
BY SessionInit, SessionStep, PTL DEF CursorSpec

\* Every target of a session shows a listed item, and no shuffled round shows an item twice,
\* whatever definitions it is edited to and whoever joins and leaves (cursor.rs)
THEOREM RoundsAreFair == CursorSpec => []RoundFair
<1>1. SessionInv => RoundFair
  <2> SUFFICES ASSUME SessionInv, NEW t \in Present PROVE Fair(shared) /\ Listed(t) /\ Fair(targets[t])
    BY DEF RoundFair, SessionInv, AllFit, Fits, Half
  <2>1. /\ definition \in SessionDefinitions /\ Fits(shared, definition)
        /\ Fits(targets[t], definition)
        /\ definition.items # <<>> => targets[t].current # None
    BY DEF SessionInv, AllFit, Present
  <2>2. Listed(t)
    BY <2>1, NothingFits DEF Listed, Fits, Half, Cursors, Items
  <2> QED BY <2>1, <2>2 DEF Fits, Half
<1> QED BY <1>1, SessionsFit, PTL

\* Targets of a synchronized session that agree go on agreeing in every step (engine.rs)
THEOREM SyncStays == CursorSpec => StaysInSync
BY SessionsFit, SessionStep, PTL DEF CursorSpec, StaysInSync
=============================================================================
