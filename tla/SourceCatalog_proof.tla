------------------------- MODULE SourceCatalog_proof -------------------------
(***************************************************************************)
(* Proofs about SourceCatalog, for any files, any number and mix of        *)
(* changes, and with or without scans that fail of themselves              *)
(* (application/catalog, model/sync.rs).                                   *)
(*                                                                         *)
(* A file whose row was written from a listing, and that did not leave     *)
(* since that listing was made, is found by every later listing of the     *)
(* library while it can be reached (CoverInv).  So a refresh that is not   *)
(* overtaken writes the row again before it sweeps.                        *)
(***************************************************************************)
EXTENDS SourceCatalog, TLAPS

-----------------------------------------------------------------------------
(* Types. *)

Phases == {"idle", "begin", "scan", "publish", "orphan", "list", "sync", "upsert"}
Listings == [found : SUBSET File, at : Nat, lib : BOOLEAN]
Refreshes ==
  [phase : Phases, lib : BOOLEAN, gen : Nat, list : Listings, present : BOOLEAN,
   stale : SUBSET File, left : SUBSET File, doomed : BOOLEAN]
Stamps == [known : BOOLEAN, time : Nat]
Removers == [phase : {"idle", "callback", "row"}, item : SUBSET File, held : BOOLEAN]
Plugins == [gen : Nat, draining : BOOLEAN]

DirectoryTypes ==
  /\ files \in SUBSET File /\ copying \in SUBSET File /\ aged \in SUBSET File
  /\ mounted \in BOOLEAN /\ mtime \in Nat
RefreshTypes == catalog \in Listings /\ refresh \in [Refresh -> Refreshes] /\ scanning \in BOOLEAN
RowTypes ==
  /\ library \in BOOLEAN /\ version \in Nat \ {0} /\ rows \in SUBSET File
  /\ remover \in Removers
HistoryTypes == newest \in Nat /\ tainted \in BOOLEAN /\ leftAt \in [File -> Nat]
OtherTypes ==
  /\ mix \in [kinds : SUBSET Kinds, changes : Nat]
  /\ watch \in [seen : Stamps, recheck : BOOLEAN]
  /\ plugin \in Plugins

TypeOK == DirectoryTypes /\ RefreshTypes /\ RowTypes /\ HistoryTypes /\ OtherTypes

LEMMA RecordTypes ==
  /\ Nothing \in Listings
  /\ Idle \in Refreshes
  /\ Started \in Refreshes
  /\ RemoverIdle \in Removers
<1>1. Nothing \in Listings
  BY DEF Nothing, Listing, Listings
<1>2. Idle \in Refreshes
  BY <1>1 DEF Idle, Refreshes, Phases
<1>3. Started \in Refreshes
  BY <1>2 DEF Started, Refreshes, Phases
<1> QED BY <1>1, <1>2, <1>3 DEF RemoverIdle, Removers

LEMMA TimesType == DirectoryTypes => Times \in Stamps
BY DEF DirectoryTypes, Times, DirTime, Unseen, Stamps

LEMMA TypeInit == Init => TypeOK
<1> SUFFICES ASSUME Init PROVE TypeOK
  OBVIOUS
<1>1. DirectoryTypes
  BY DEF Init, DirectoryTypes
<1>2. RefreshTypes
  BY RecordTypes DEF Init, RefreshTypes
<1>3. RowTypes
  BY RecordTypes DEF Init, RowTypes
<1>4. HistoryTypes
  BY DEF Init, HistoryTypes
<1>5. OtherTypes
  BY <1>1, TimesType, MixesAssumption DEF Init, OtherTypes, Plugins
<1> QED BY <1>1, <1>2, <1>3, <1>4, <1>5 DEF TypeOK

\* Every step changes a refresh in one of these ways
LEMMA UpdateTypes ==
  ASSUME NEW r \in Refreshes
  PROVE  /\ \A p \in Phases : [r EXCEPT !.phase = p] \in Refreshes
         /\ [r EXCEPT !.doomed = TRUE] \in Refreshes
         /\ \A gone : [r EXCEPT !.stale = @ \ gone] \in Refreshes
         /\ \A l \in Listings : [r EXCEPT !.phase = "publish", !.gen = 0, !.list = l] \in Refreshes
         /\ \A l \in Listings : [r EXCEPT !.phase = "sync", !.list = l] \in Refreshes
         /\ [r EXCEPT !.phase = "orphan", !.doomed = FALSE] \in Refreshes
BY DEF Refreshes, Phases

LEMMA BeginType ==
  ASSUME TypeOK, NEW s \in Refresh, Begin(s)
  PROVE  TypeOK'
<1>1. [refresh[s] EXCEPT !.phase = "scan", !.lib = library, !.gen = plugin.gen] \in Refreshes
  <2>1. refresh[s] \in Refreshes /\ library \in BOOLEAN /\ plugin.gen \in Nat
    BY DEF TypeOK, RefreshTypes, RowTypes, OtherTypes, Plugins
  <2> QED BY <2>1 DEF Refreshes, Phases
<1>2. RefreshTypes'
  BY <1>1 DEF Begin, TypeOK, RefreshTypes
<1>3. (DirectoryTypes /\ RowTypes /\ HistoryTypes /\ OtherTypes)'
  BY DEF Begin, TypeOK, DirectoryTypes, RowTypes, HistoryTypes, OtherTypes, directory, history
<1> QED BY <1>2, <1>3 DEF TypeOK

LEMMA ScanType ==
  ASSUME TypeOK, NEW s \in Refresh, Scan(s)
  PROVE  TypeOK'
<1>1. \A at \in Nat : Listing(Found(s), at, refresh[s].lib) \in Listings
  BY DEF Found, Listing, Listings, TypeOK, RefreshTypes, DirectoryTypes, Refreshes
<1>2. Listing(Found(s), IF refresh[s].lib = library THEN version ELSE 0, refresh[s].lib) \in Listings
  BY <1>1 DEF TypeOK, RowTypes
<1>3. RefreshTypes'
  <2>1. refresh[s] \in Refreshes
    BY DEF TypeOK, RefreshTypes
  <2>2. CASE ScanSucceeds(s)
    BY <1>2, <2>1, <2>2, UpdateTypes DEF Scan, ScanSucceeds, TypeOK, RefreshTypes
  <2>3. CASE ScanFails(s)
    BY <2>1, <2>3, UpdateTypes, RecordTypes DEF Scan, ScanFails, TypeOK, RefreshTypes
  <2> QED BY <2>2, <2>3 DEF Scan
<1>4. (DirectoryTypes /\ RowTypes /\ HistoryTypes /\ OtherTypes)'
  BY DEF Scan, TypeOK, DirectoryTypes, RowTypes, HistoryTypes, OtherTypes, directory, history
<1> QED BY <1>3, <1>4 DEF TypeOK

LEMMA PublishType ==
  ASSUME TypeOK, NEW s \in Refresh, Publish(s) \/ List(s) \/ Abort(s)
  PROVE  TypeOK'
<1>1. refresh[s] \in Refreshes /\ refresh[s].list \in Listings /\ catalog \in Listings
  BY DEF TypeOK, RefreshTypes, Refreshes
<1>2. RefreshTypes'
  <2>1. CASE Publish(s)
    BY <1>1, <2>1, UpdateTypes, RecordTypes DEF Publish, TypeOK, RefreshTypes, Phases
  <2>2. CASE List(s)
    BY <1>1, <2>2, UpdateTypes DEF List, TypeOK, RefreshTypes
  <2>3. CASE Abort(s)
    BY <1>1, <2>3, UpdateTypes, RecordTypes DEF Abort, TypeOK, RefreshTypes
  <2> QED BY <2>1, <2>2, <2>3
<1>3. HistoryTypes'
  BY DEF Publish, List, Abort, TypeOK, HistoryTypes, history
<1>4. (DirectoryTypes /\ RowTypes /\ OtherTypes)'
  BY DEF Publish, List, Abort, TypeOK, DirectoryTypes, RowTypes, OtherTypes, directory
<1> QED BY <1>2, <1>3, <1>4 DEF TypeOK

LEMMA SyncBeginType ==
  ASSUME TypeOK, NEW s \in Refresh, SyncBegin(s)
  PROVE  TypeOK'
<1>1. refresh[s] \in Refreshes /\ refresh[s].list \in Listings /\ Reachable(s) \in BOOLEAN
  BY DEF TypeOK, RefreshTypes, Refreshes, DirectoryTypes, Reachable, Registered
<1>2. [refresh[s] EXCEPT !.phase = "upsert", !.present = Reachable(s), !.stale = rows,
                         !.left = refresh[s].list.found] \in Refreshes
  BY <1>1 DEF TypeOK, RowTypes, Refreshes, Phases, Listings
<1>3. RefreshTypes'
  BY <1>2 DEF SyncBegin, TypeOK, RefreshTypes
<1>4. HistoryTypes'
  <2>1. newest' \in Nat
    BY <1>1 DEF SyncBegin, TypeOK, HistoryTypes, Listings
  <2>2. tainted' \in BOOLEAN
    BY <1>1 DEF SyncBegin, TypeOK, HistoryTypes, Listings, Registered, Refreshes
  <2> QED BY <2>1, <2>2 DEF SyncBegin, TypeOK, HistoryTypes
<1>5. (DirectoryTypes /\ RowTypes /\ OtherTypes)'
  BY DEF SyncBegin, TypeOK, DirectoryTypes, RowTypes, OtherTypes, directory
<1> QED BY <1>3, <1>4, <1>5 DEF TypeOK

LEMMA UpsertType ==
  ASSUME TypeOK, NEW s \in Refresh, NEW f \in File, Upsert(s, f)
  PROVE  TypeOK'
<1>1. RefreshTypes'
  <2>1. \A t \in Refresh : [refresh[t] EXCEPT !.left = @ \ {f}, !.stale = @ \ {f}] \in Refreshes
    BY DEF TypeOK, RefreshTypes, Refreshes
  <2>2. \A t \in Refresh : [refresh[t] EXCEPT !.stale = @ \ {f}] \in Refreshes
    BY UpdateTypes DEF TypeOK, RefreshTypes
  <2> QED BY <2>1, <2>2 DEF Upsert, TypeOK, RefreshTypes
<1>2. RowTypes'
  <2>1. rows' \in SUBSET File /\ UNCHANGED remover
    BY DEF Upsert, TypeOK, RowTypes
  <2>2. version \in Nat \ {0} /\ library' \in BOOLEAN
    BY DEF Upsert, TypeOK, RowTypes
  <2>3. version' \in Nat \ {0}
    <3>1. version' = version \/ version' = version + 1
      BY DEF Upsert
    <3>2. version + 1 \in Nat \ {0}
      BY <2>2
    <3> QED BY <2>2, <3>1, <3>2
  <2> QED BY <2>1, <2>2, <2>3 DEF TypeOK, RowTypes
<1>3. HistoryTypes'
  <2>1. tainted' \in BOOLEAN
    BY DEF Upsert, TypeOK, HistoryTypes, RowTypes, Late
  <2> QED BY <2>1 DEF Upsert, TypeOK, HistoryTypes
<1>4. (DirectoryTypes /\ OtherTypes)'
  BY DEF Upsert, TypeOK, DirectoryTypes, OtherTypes, directory
<1> QED BY <1>1, <1>2, <1>3, <1>4 DEF TypeOK

LEMMA DroppedType ==
  ASSUME RowTypes, NEW gone, Dropped(gone)
  PROVE  remover' \in Removers
BY DEF RowTypes, Dropped, Removers

LEMMA SweepType ==
  ASSUME TypeOK, NEW s \in Refresh, Sweep(s)
  PROVE  TypeOK'
<1> DEFINE gone == IF refresh[s].present /\ library THEN refresh[s].stale ELSE {}
<1>0. RowTypes /\ rows' = rows \ gone /\ Dropped(gone)
  BY DEF Sweep, TypeOK
<1>1. RefreshTypes'
  <2>1. refresh' = [t \in Refresh |-> IF t = s THEN Idle ELSE [refresh[t] EXCEPT !.stale = @ \ gone]]
    BY DEF Sweep
  <2> HIDE DEF gone
  <2>2. \A t \in Refresh : [refresh[t] EXCEPT !.stale = @ \ gone] \in Refreshes
    BY UpdateTypes DEF TypeOK, RefreshTypes
  <2>3. scanning' \in BOOLEAN /\ UNCHANGED catalog
    BY DEF Sweep
  <2> QED BY <2>1, <2>2, <2>3, RecordTypes DEF TypeOK, RefreshTypes
<1>2. RowTypes'
  <2> HIDE DEF gone
  <2>1. UNCHANGED <<library, version>>
    BY DEF Sweep
  <2> QED BY <1>0, <2>1, DroppedType DEF RowTypes
<1>3. HistoryTypes'
  <2>1. tainted' \in BOOLEAN
    BY DEF Sweep, TypeOK, HistoryTypes, Late
  <2> QED BY <2>1 DEF Sweep, TypeOK, HistoryTypes
<1>4. (DirectoryTypes /\ OtherTypes)'
  BY DEF Sweep, TypeOK, DirectoryTypes, OtherTypes, directory
<1> QED BY <1>1, <1>2, <1>3, <1>4 DEF TypeOK

LEMMA RestartedType ==
  ASSUME RefreshTypes, NEW s
  PROVE  Restarted(refresh, s) \in [Refresh -> Refreshes]
BY RecordTypes, UpdateTypes DEF Restarted, RefreshTypes

LEMMA SpendType ==
  ASSUME TypeOK, NEW kind, May(kind), Spend
  PROVE  mix' \in [kinds : SUBSET Kinds, changes : Nat]
BY DEF TypeOK, OtherTypes, May, Spend

LEMMA StartType ==
  ASSUME TypeOK, Tick \/ AskScan \/ AddLibrary \/ RemoveLibrary
  PROVE  TypeOK'
<1>0. RefreshTypes /\ RowTypes /\ DirectoryTypes
  BY DEF TypeOK
<1>1. CASE Tick
  <2>1. RefreshTypes'
    BY <1>0, <1>1, RecordTypes DEF Tick, RefreshTypes
  <2>2. OtherTypes'
    <3>1. Times \in Stamps /\ watch \in [seen : Stamps, recheck : BOOLEAN]
      BY <1>0, TimesType DEF TypeOK, OtherTypes
    <3>2. Recheck(watch.seen.known /\ Times.known /\ watch.seen # Times) \in BOOLEAN
      BY <3>1, <1>0 DEF Recheck, RefreshTypes, Stamps
    <3>3. watch' \in [seen : Stamps, recheck : BOOLEAN]
      BY <1>1, <3>1, <3>2 DEF Tick
    <3> QED BY <1>1, <3>3 DEF Tick, TypeOK, OtherTypes
  <2>3. (DirectoryTypes /\ RowTypes /\ HistoryTypes)'
    BY <1>1 DEF Tick, TypeOK, DirectoryTypes, RowTypes, HistoryTypes, history
  <2> QED BY <2>1, <2>2, <2>3 DEF TypeOK
<1>2. CASE AskScan
  <2>1. RefreshTypes'
    BY <1>0, <1>2, RestartedType DEF AskScan, RefreshTypes
  <2>2. OtherTypes'
    BY <1>2, SpendType DEF AskScan, TypeOK, OtherTypes
  <2>3. (DirectoryTypes /\ RowTypes /\ HistoryTypes)'
    BY <1>2 DEF AskScan, TypeOK, DirectoryTypes, RowTypes, HistoryTypes, history, directory
  <2> QED BY <2>1, <2>2, <2>3 DEF TypeOK
<1>3. CASE AddLibrary
  <2>1. RefreshTypes'
    BY <1>0, <1>3, RestartedType DEF AddLibrary, RefreshTypes
  <2>2. OtherTypes'
    BY <1>3, SpendType DEF AddLibrary, TypeOK, OtherTypes
  <2>3. (DirectoryTypes /\ RowTypes /\ HistoryTypes)'
    BY <1>3 DEF AddLibrary, TypeOK, DirectoryTypes, RowTypes, HistoryTypes, history, directory
  <2> QED BY <2>1, <2>2, <2>3 DEF TypeOK
<1>4. CASE RemoveLibrary
  <2>1. RefreshTypes'
    <3>1. PICK s \in User : refresh' =
            [t \in Refresh |-> [Restarted(refresh, s)[t] EXCEPT !.stale = {}]]
      BY <1>4 DEF RemoveLibrary
    <3>2. \A r \in Refreshes : [r EXCEPT !.stale = {}] \in Refreshes
      BY DEF Refreshes
    <3>3. \A t \in Refresh : Restarted(refresh, s)[t] \in Refreshes
      BY <1>0, RestartedType
    <3> QED BY <1>0, <1>4, <3>1, <3>2, <3>3 DEF RemoveLibrary, RefreshTypes
  <2>2. OtherTypes'
    BY <1>4, SpendType DEF RemoveLibrary, TypeOK, OtherTypes
  <2>3. RowTypes'
    <3>1. remover' \in Removers
      BY <1>0, <1>4, DroppedType DEF RemoveLibrary
    <3>2. version \in Nat /\ library' = FALSE /\ version' = version + 1 /\ rows' = {}
      BY <1>0, <1>4 DEF RemoveLibrary, RowTypes
    <3>3. version' \in Nat \ {0}
      BY <3>2
    <3> QED BY <3>1, <3>2, <3>3 DEF RowTypes
  <2>4. (DirectoryTypes /\ HistoryTypes)'
    BY <1>4 DEF RemoveLibrary, TypeOK, DirectoryTypes, HistoryTypes, history, directory
  <2> QED BY <2>1, <2>2, <2>3, <2>4 DEF TypeOK
<1> QED BY <1>1, <1>2, <1>3, <1>4

LEMMA PluginType ==
  ASSUME TypeOK, Suspend \/ Replace \/ Resume
  PROVE  TypeOK'
<1>1. OtherTypes'
  <2>1. plugin' \in Plugins
    <3>1. plugin \in Plugins /\ plugin.gen \in Nat
      BY DEF TypeOK, OtherTypes, Plugins
    <3>2. CASE Suspend \/ Resume
      BY <3>1, <3>2 DEF Suspend, Resume, Plugins
    <3>3. CASE Replace
      BY <3>1, <3>3 DEF Replace, Plugins
    <3> QED BY <3>2, <3>3
  <2>2. mix' \in [kinds : SUBSET Kinds, changes : Nat] /\ UNCHANGED watch
    BY SpendType DEF Suspend, Replace, Resume, TypeOK, OtherTypes
  <2> QED BY <2>1, <2>2 DEF TypeOK, OtherTypes
<1>2. RefreshTypes'
  BY RecordTypes DEF Suspend, Replace, Resume, TypeOK, RefreshTypes
<1>3. (DirectoryTypes /\ RowTypes /\ HistoryTypes)'
  BY DEF Suspend, Replace, Resume, TypeOK, DirectoryTypes, RowTypes, HistoryTypes, history, directory
<1> QED BY <1>1, <1>2, <1>3 DEF TypeOK

LEMMA FileType ==
  ASSUME TypeOK, (\E f \in File : Arrive(f) \/ Copied(f) \/ Leave(f)) \/ Mount
  PROVE  TypeOK'
<1>1. OtherTypes'
  BY SpendType DEF Arrive, Copied, Leave, Mount, TypeOK, OtherTypes
<1>2. RefreshTypes'
  BY DEF Arrive, Copied, Leave, Mount, TypeOK, RefreshTypes
<1>3. DirectoryTypes'
  <2>0. DirectoryTypes
    BY DEF TypeOK
  <2>1. CASE Mount
    BY <2>0, <2>1 DEF Mount, DirectoryTypes
  <2>3. CASE \E f \in File : Arrive(f)
    <3>1. PICK f \in File : Arrive(f)
      BY <2>3
    <3>2. files' \in SUBSET File /\ copying' \in SUBSET File /\ UNCHANGED <<aged, mounted>>
      BY <2>0, <3>1 DEF Arrive, DirectoryTypes
    <3>3. mtime' \in Nat
      BY <2>0, <3>1 DEF Arrive, DirectoryTypes
    <3> QED BY <2>0, <3>2, <3>3 DEF DirectoryTypes
  <2>2. CASE \E f \in File : Copied(f) \/ Leave(f)
    BY <2>0, <2>2 DEF Copied, Leave, Leaves, DirectoryTypes
  <2> QED BY <2>1, <2>2, <2>3
<1>4. RowTypes'
  BY DEF Arrive, Copied, Leave, Leaves, Mount, TypeOK, RowTypes
<1>5. HistoryTypes'
  BY DEF Arrive, Copied, Leave, Leaves, Mount, TypeOK, HistoryTypes, RowTypes, history
<1> QED BY <1>1, <1>2, <1>3, <1>4, <1>5 DEF TypeOK

LEMMA RemoveType ==
  ASSUME TypeOK, \/ \E f \in File : AskRemove(f) \/ DeleteFile(f)
                 \/ DeleteFails \/ DeleteRow
  PROVE  TypeOK'
<1>1. OtherTypes'
  BY SpendType DEF AskRemove, DeleteFile, DeleteFails, DeleteRow, TypeOK, OtherTypes
<1>2. RefreshTypes'
  <2>1. CASE DeleteRow
    <3> DEFINE gone == IF remover.held THEN remover.item ELSE {}
    <3>1. refresh' = [t \in Refresh |-> [refresh[t] EXCEPT !.stale = @ \ gone]]
      BY <2>1 DEF DeleteRow
    <3> HIDE DEF gone
    <3>2. \A t \in Refresh : [refresh[t] EXCEPT !.stale = @ \ gone] \in Refreshes
      BY UpdateTypes DEF TypeOK, RefreshTypes
    <3> QED BY <2>1, <3>1, <3>2 DEF DeleteRow, TypeOK, RefreshTypes
  <2> QED BY <2>1 DEF AskRemove, DeleteFile, DeleteFails, TypeOK, RefreshTypes
<1>3. DirectoryTypes'
  BY DEF AskRemove, DeleteFile, DeleteFails, DeleteRow, Leaves, TypeOK, DirectoryTypes, directory
<1>4. RowTypes'
  <2>1. UNCHANGED library /\ rows' \in SUBSET File /\ version' \in Nat \ {0}
    BY DEF AskRemove, DeleteFile, DeleteFails, DeleteRow, Leaves, TypeOK, RowTypes
  <2>2. remover' \in Removers
    <3>1. CASE \E f \in File : AskRemove(f) \/ DeleteFile(f)
      <4>1. PICK f \in File : AskRemove(f) \/ DeleteFile(f)
        BY <3>1
      <4>2. CASE AskRemove(f)
        BY <4>2 DEF AskRemove, Removers
      <4>3. CASE DeleteFile(f)
        <5>1. remover \in Removers /\ remover' = [remover EXCEPT !.phase = "row"]
          BY <4>3 DEF DeleteFile, TypeOK, RowTypes
        <5> QED BY <5>1 DEF Removers
      <4> QED BY <4>1, <4>2, <4>3
    <3>2. CASE DeleteFails \/ DeleteRow
      BY <3>2, RecordTypes DEF DeleteFails, DeleteRow
    <3> QED BY <3>1, <3>2
  <2> QED BY <2>1, <2>2 DEF TypeOK, RowTypes
<1>5. HistoryTypes'
  BY DEF AskRemove, DeleteFile, DeleteFails, DeleteRow, Leaves, TypeOK, HistoryTypes, RowTypes, history
<1> QED BY <1>1, <1>2, <1>3, <1>4, <1>5 DEF TypeOK

LEMMA TypeStep == TypeOK /\ [Next]_vars => TypeOK'
<1> SUFFICES ASSUME TypeOK, [Next]_vars PROVE TypeOK'
  OBVIOUS
<1>1. CASE UNCHANGED vars
  BY <1>1 DEF TypeOK, DirectoryTypes, RefreshTypes, RowTypes, HistoryTypes, OtherTypes, vars
<1>2. CASE \E s \in Refresh : RefreshStep(s)
  BY <1>2, BeginType, ScanType, PublishType, SyncBeginType, UpsertType, SweepType DEF RefreshStep
<1>3. CASE \/ Tick \/ AskScan \/ AddLibrary \/ RemoveLibrary
  BY <1>3, StartType
<1>4. CASE Suspend \/ Replace \/ Resume
  BY <1>4, PluginType
<1>5. CASE Mount
  BY <1>5, FileType
<1>6. CASE \E f \in File : Arrive(f) \/ Copied(f) \/ Leave(f) \/ AskRemove(f) \/ DeleteFile(f)
  BY <1>6, FileType, RemoveType
<1>7. CASE DeleteFails \/ DeleteRow
  BY <1>7, RemoveType
<1> QED
  BY <1>1, <1>2, <1>3, <1>4, <1>5, <1>6, <1>7 DEF Next

\* The type invariant of SourceCatalog, for any files, mixes and scan errors.
THEOREM CatalogTypeCorrect == Spec => []TypeOK
BY TypeInit, TypeStep, PTL DEF Spec

-----------------------------------------------------------------------------
(* Listings.  Those that exist are the one all share and the refreshes' own; *)
(* the version they carry tells how old they are.                           *)

L(t) == refresh[t].list
IsList(m) == m = catalog \/ \E t \in Refresh : m = L(t)

\* A listing of this version is what is there now; a file in a listing that is not older than
\* its last leave is there
ListInv ==
  \A m \in Listings : IsList(m) =>
    /\ m.at <= version
    /\ m.at = version => /\ m.lib = library
                         /\ m.found = IF mounted /\ m.lib THEN files \ copying ELSE {}
    /\ \A f \in m.found : leftAt[f] <= m.at => f \in files \ copying

ThereInv == \A f \in File : leftAt[f] = 0 => f \in files \ copying

\* f was written and did not leave, or may be by a listing that is not newer than l
Held(f, l) ==
  \/ leftAt[f] = 0
  \/ \E m \in Listings : IsList(m) /\ f \in m.found /\ leftAt[f] <= m.at /\ m.at <= l.at

\* l finds all those files, unless it comes too late or of a failed scan
Cover(l) == l.at >= newest /\ l.at # 0 => \A f \in File : Held(f, l) => f \in l.found

\* The listings of which a refresh will write and sweep rows
Needs(t) ==
  /\ L(t).lib
  /\ \/ mounted /\ refresh[t].phase \in {"publish", "orphan", "list", "sync"}
     \/ refresh[t].present /\ refresh[t].phase = "upsert"
ListNeeds == mounted /\ catalog.lib /\ \E t \in Refresh : refresh[t].phase = "list"
Wanted(m) == (ListNeeds /\ m = catalog) \/ \E t \in Refresh : Needs(t) /\ m = L(t)

CoverInv == \A m \in Listings : Wanted(m) => Cover(m)

ListsKept == \A m \in Listings : IsList(m)' => IsList(m) \/ m = Nothing
WantedKept == \A m \in Listings : Wanted(m)' => Wanted(m)

\* A file stays, or leaves after all listings were made
FilesKept ==
  \A f \in File : \/ leftAt'[f] = leftAt[f] /\ (f \in files \ copying => f \in files' \ copying')
                  \/ leftAt'[f] > version
VersionKept ==
  /\ version <= version'
  /\ version' = version => UNCHANGED <<files, copying, mounted, library>>

\* All steps but those of a scan and of an upsert keep what listings are worth
LEMMA ListsStay ==
  ASSUME TypeOK, TypeOK', ListInv, ThereInv, ListsKept, FilesKept, VersionKept
  PROVE  ListInv' /\ ThereInv' /\ \A f \in File, l \in Listings : Held(f, l)' => Held(f, l)
<1>0. /\ version \in Nat \ {0} /\ version' \in Nat \ {0}
      /\ \A f \in File : leftAt[f] \in Nat /\ leftAt'[f] \in Nat
  BY DEF TypeOK, RowTypes, HistoryTypes
<1>1. ASSUME NEW m \in Listings, IsList(m), NEW f \in m.found, leftAt'[f] <= m.at
      PROVE  leftAt'[f] = leftAt[f] /\ (f \in files \ copying => f \in files' \ copying')
  <2>1. m.at <= version /\ m.at \in Nat /\ f \in File
    BY <1>1 DEF ListInv, Listings
  <2>2. ~(leftAt'[f] > version)
    BY <1>0, <1>1, <2>1
  <2> QED BY <2>1, <2>2 DEF FilesKept
<1>2. ListInv'
  <2> SUFFICES ASSUME NEW m \in Listings, IsList(m)'
               PROVE  /\ m.at <= version'
                      /\ m.at = version' =>
                           /\ m.lib = library'
                           /\ m.found = IF mounted' /\ m.lib THEN files' \ copying' ELSE {}
                      /\ \A f \in m.found : leftAt'[f] <= m.at => f \in files' \ copying'
    BY DEF ListInv
  <2>1. CASE m = Nothing
    <3>1. m.at = 0 /\ m.found = {}
      BY <2>1 DEF Nothing, Listing
    <3>2. 0 <= version' /\ version' # 0
      BY <1>0
    <3> QED BY <3>1, <3>2
  <2>2. CASE IsList(m)
    <3>1. m.at <= version /\ m.at \in Nat
      BY <2>2 DEF ListInv, Listings
    <3>2. m.at <= version'
      BY <1>0, <3>1 DEF VersionKept
    <3>3. m.at = version' => version' = version
      BY <1>0, <3>1 DEF VersionKept
    <3>4. m.at = version' => UNCHANGED <<files, copying, mounted, library>>
      BY <3>3 DEF VersionKept
    <3>5. m.at = version' => /\ m.lib = library'
                             /\ m.found = IF mounted' /\ m.lib THEN files' \ copying' ELSE {}
      BY <2>2, <3>3, <3>4 DEF ListInv
    <3>6. ASSUME NEW f \in m.found, leftAt'[f] <= m.at
          PROVE  f \in files' \ copying'
      BY <1>1, <2>2, <3>6 DEF ListInv
    <3> QED BY <3>2, <3>5, <3>6
  <2> QED BY <2>1, <2>2 DEF ListsKept
<1>3. ThereInv'
  BY <1>0 DEF FilesKept, ThereInv
<1>4. ASSUME NEW f \in File, NEW l \in Listings, Held(f, l)'
      PROVE  Held(f, l)
  <2>1. CASE leftAt'[f] = 0
    BY <1>0, <2>1 DEF FilesKept, Held
  <2>2. CASE leftAt'[f] # 0
    <3>1. PICK m \in Listings : IsList(m)' /\ f \in m.found /\ leftAt'[f] <= m.at /\ m.at <= l.at
      BY <1>4, <2>2 DEF Held
    <3>2. IsList(m)
      BY <3>1 DEF ListsKept, Nothing, Listing
    <3> QED BY <1>1, <3>1, <3>2 DEF Held
  <2> QED BY <2>1, <2>2
<1> QED BY <1>2, <1>3, <1>4

LEMMA CoverStays ==
  ASSUME CoverInv, WantedKept, newest \in Nat, newest' \in Nat, newest <= newest',
         \A f \in File, l \in Listings : Held(f, l)' => Held(f, l)
  PROVE  CoverInv'
<1> SUFFICES ASSUME NEW m \in Listings, Wanted(m)', m.at >= newest', m.at # 0,
                    NEW f \in File, Held(f, m)'
             PROVE  f \in m.found
  BY DEF CoverInv, Cover
<1>1. m.at >= newest
  BY DEF Listings
<1> QED BY <1>1 DEF CoverInv, Cover, WantedKept

\* A scan adds a listing, which finds all that stays
LEMMA ScanLists ==
  ASSUME TypeOK, TypeOK', ListInv, ThereInv, CoverInv, NEW s \in Refresh, Scan(s), ScanSucceeds(s)
  PROVE  ListInv' /\ ThereInv' /\ CoverInv'
<1> DEFINE n == Listing(Found(s), IF refresh[s].lib = library THEN version ELSE 0, refresh[s].lib)
<1>1. /\ UNCHANGED <<directory, version, library, catalog, history>>
      /\ refresh'[s].list = n /\ refresh'[s].phase = "publish"
      /\ \A t \in Refresh \ {s} : refresh'[t] = refresh[t]
  BY DEF Scan, ScanSucceeds, TypeOK, RefreshTypes, Refreshes
<1>2. version \in Nat \ {0} /\ \A f \in File : leftAt[f] \in Nat
  BY DEF TypeOK, RowTypes, HistoryTypes
<1>3. /\ n \in Listings /\ n.at \in {0, version} /\ n.lib = refresh[s].lib
      /\ n.at = version => n.lib = library
      /\ n.found = IF mounted /\ n.lib THEN files \ copying ELSE {}
  <2>1. n \in Listings
    BY <1>1 DEF TypeOK, RefreshTypes, Refreshes
  <2> QED BY <1>2, <2>1 DEF Listing, Found
<1> HIDE DEF n
<1>4. \A m \in Listings : IsList(m)' => IsList(m) \/ m = n
  BY <1>1 DEF IsList, L
<1>5. \A m \in Listings : Wanted(m)' => Wanted(m) \/ (m = n /\ mounted /\ n.lib)
  BY <1>1 DEF Wanted, ListNeeds, Needs, L, directory
<1>6. ListInv' /\ ThereInv'
  <2>1. /\ n.at <= version
        /\ n.at = version => n.lib = library /\ n.found = IF mounted /\ n.lib THEN files \ copying ELSE {}
        /\ \A f \in n.found : f \in files \ copying
    BY <1>2, <1>3
  <2> QED BY <1>1, <1>4, <2>1 DEF ListInv, ThereInv, directory, history
<1>7. CoverInv'
  <2> SUFFICES ASSUME NEW m \in Listings, Wanted(m)', m.at >= newest, m.at # 0,
                      NEW f \in File, Held(f, m)'
               PROVE  f \in m.found
    BY <1>1 DEF CoverInv, Cover, history
  <2>1. leftAt' = leftAt
    BY <1>1 DEF history
  <2>2. f \in files \ copying
    BY <1>6, <2>1, <1>1 DEF Held, ListInv, ThereInv, directory
  <2>3. CASE m = n /\ mounted /\ n.lib
    BY <1>3, <2>2, <2>3
  <2>4. CASE Wanted(m)
    <3>1. IsList(m)
      BY <2>4 DEF Wanted, IsList
    <3>2. CASE Held(f, m)
      BY <2>4, <3>2 DEF CoverInv, Cover
    <3>3. CASE ~Held(f, m)
      <4>1. f \in n.found /\ n.at <= m.at /\ leftAt[f] # 0 /\ leftAt[f] <= n.at
        BY <1>4, <2>1, <3>3 DEF Held
      <4>2. n.at = version /\ m.at = version
        BY <1>2, <1>3, <3>1, <4>1 DEF ListInv, Listings
      <4> QED BY <1>3, <3>1, <4>1, <4>2 DEF ListInv
    <3> QED BY <3>2, <3>3
  <2> QED BY <1>5, <2>3, <2>4
<1> QED BY <1>6, <1>7

-----------------------------------------------------------------------------
(* What the steps do to the refreshes.  Those that are no step of a refresh  *)
(* begin some, and otherwise only take rows from what they would delete.     *)

Same(t) ==
  /\ refresh'[t].phase = refresh[t].phase /\ refresh'[t].lib = refresh[t].lib
  /\ refresh'[t].list = refresh[t].list /\ refresh'[t].present = refresh[t].present
  /\ refresh'[t].left = refresh[t].left /\ refresh'[t].gen = refresh[t].gen
  /\ refresh'[t].stale \subseteq refresh[t].stale
Began(t) ==
  /\ refresh'[t].phase \in {"idle", "begin"}
  /\ refresh'[t].list = Nothing /\ refresh'[t].stale = {}

Elsewhere ==
  \/ Tick \/ AskScan \/ AddLibrary \/ RemoveLibrary \/ Suspend \/ Replace \/ Resume \/ Mount
  \/ \E f \in File : Arrive(f) \/ Copied(f) \/ Leave(f) \/ AskRemove(f) \/ DeleteFile(f)
  \/ DeleteFails \/ DeleteRow

LEMMA StartedFact ==
  /\ Started.phase = "begin" /\ Started.list = Nothing /\ Started.stale = {} /\ ~Started.doomed
  /\ Idle.phase = "idle" /\ Idle.list = Nothing /\ Idle.stale = {} /\ ~Idle.doomed
BY DEF Started, Idle

LEMMA NothingFact == Nothing.found = {} /\ Nothing.at = 0 /\ ~Nothing.lib
BY DEF Nothing, Listing

LEMMA RestartedFact ==
  ASSUME TypeOK, NEW s, NEW t \in Refresh
  PROVE  LET r == Restarted(refresh, s)[t] IN
         \/ r = Started
         \/ /\ r.phase = refresh[t].phase /\ r.lib = refresh[t].lib /\ r.list = refresh[t].list
            /\ r.present = refresh[t].present /\ r.left = refresh[t].left
            /\ r.gen = refresh[t].gen
            /\ r.stale = refresh[t].stale
BY DEF Restarted, TypeOK, RefreshTypes, Refreshes

LEMMA ElsewhereRefreshes ==
  ASSUME TypeOK, Elsewhere, NEW t \in Refresh
  PROVE  Same(t) \/ Began(t)
<1>0. refresh[t] \in Refreshes
  BY DEF TypeOK, RefreshTypes
<1>1. CASE UNCHANGED refresh
  BY <1>1 DEF Same
<1>2. CASE Tick \/ Replace
  <2>1. refresh'[t] = refresh[t] \/ refresh'[t] = Started
    BY <1>2 DEF Tick, Replace, TypeOK, RefreshTypes
  <2> QED BY <2>1, StartedFact DEF Same, Began
<1>3. CASE AskScan \/ AddLibrary
  <2>1. PICK s \in User : refresh' = Restarted(refresh, s)
    BY <1>3 DEF AskScan, AddLibrary
  <2> QED BY <2>1, RestartedFact, StartedFact DEF Same, Began
<1>4. CASE RemoveLibrary
  <2>1. PICK s \in User : refresh' = [u \in Refresh |-> [Restarted(refresh, s)[u] EXCEPT !.stale = {}]]
    BY <1>4 DEF RemoveLibrary
  <2>2. Restarted(refresh, s)[t] \in Refreshes
    BY RestartedType DEF TypeOK
  <2>3. /\ refresh'[t].phase = Restarted(refresh, s)[t].phase
        /\ refresh'[t].lib = Restarted(refresh, s)[t].lib
        /\ refresh'[t].list = Restarted(refresh, s)[t].list
        /\ refresh'[t].present = Restarted(refresh, s)[t].present
        /\ refresh'[t].left = Restarted(refresh, s)[t].left
        /\ refresh'[t].gen = Restarted(refresh, s)[t].gen
        /\ refresh'[t].stale = {}
    BY <2>1, <2>2 DEF Refreshes
  <2> QED BY <2>3, RestartedFact, StartedFact DEF Same, Began
<1>5. CASE DeleteRow
  BY <1>0, <1>5 DEF DeleteRow, Same, Refreshes
<1>6. CASE \/ Suspend \/ Resume \/ Mount \/ DeleteFails
           \/ \E f \in File : Arrive(f) \/ Copied(f) \/ Leave(f) \/ AskRemove(f) \/ DeleteFile(f)
  <2>1. UNCHANGED refresh
    BY <1>6 DEF Suspend, Resume, Mount, DeleteFails, Arrive, Copied, Leave, AskRemove, DeleteFile
  <2> QED BY <1>1, <2>1
<1> QED BY <1>2, <1>3, <1>4, <1>5, <1>6 DEF Elsewhere

LEMMA ElsewhereCatalog ==
  ASSUME Elsewhere
  PROVE  catalog' \in {catalog, Nothing} /\ UNCHANGED <<newest, tainted>>
<1>1. CASE Tick \/ AskScan \/ AddLibrary \/ RemoveLibrary \/ Suspend \/ Replace \/ Resume \/ Mount
  BY <1>1 DEF Tick, AskScan, AddLibrary, RemoveLibrary, Suspend, Replace, Resume, Mount, history
<1>2. CASE \/ DeleteFails \/ DeleteRow
           \/ \E f \in File : Arrive(f) \/ Copied(f) \/ Leave(f) \/ AskRemove(f) \/ DeleteFile(f)
  BY <1>2 DEF DeleteFails, DeleteRow, Arrive, Copied, Leave, AskRemove, DeleteFile, history
<1> QED BY <1>1, <1>2 DEF Elsewhere

LEMMA ElsewhereFiles ==
  ASSUME TypeOK, Elsewhere
  PROVE  FilesKept /\ VersionKept
<1>0. version \in Nat /\ version + 1 > version /\ version <= version + 1 /\ version + 1 # version
  BY DEF TypeOK, RowTypes
<1>1. CASE UNCHANGED <<files, copying, mounted, library, version, leftAt>>
  BY <1>0, <1>1 DEF FilesKept, VersionKept
<1>2. CASE version' = version + 1 /\ UNCHANGED <<files, copying, leftAt>>
  BY <1>0, <1>2 DEF FilesKept, VersionKept
<1>3. CASE Tick \/ AskScan \/ Suspend \/ Replace \/ Resume \/ DeleteFails \/ DeleteRow
           \/ \E f \in File : AskRemove(f)
  <2>1. UNCHANGED <<files, copying, mounted, library, version, leftAt>>
    BY <1>3 DEF Tick, AskScan, Suspend, Replace, Resume, DeleteFails, DeleteRow, AskRemove,
                directory, history
  <2> QED BY <1>1, <2>1
<1>4. CASE AddLibrary \/ RemoveLibrary \/ Mount
  <2>1. version' = version + 1 /\ UNCHANGED <<files, copying, leftAt>>
    BY <1>4 DEF AddLibrary, RemoveLibrary, Mount, directory, history
  <2> QED BY <1>2, <2>1
<1>5. ASSUME NEW f \in File, Leaves(f)
      PROVE  FilesKept /\ VersionKept
  BY <1>0, <1>5 DEF Leaves, FilesKept, VersionKept, TypeOK, HistoryTypes
<1>6. ASSUME NEW f \in File, Arrive(f) \/ Copied(f)
      PROVE  FilesKept /\ VersionKept
  BY <1>0, <1>6 DEF Arrive, Copied, FilesKept, VersionKept, history
<1>7. ASSUME NEW f \in File, Leave(f) \/ DeleteFile(f)
      PROVE  FilesKept /\ VersionKept
  <2>1. Leaves(f) \/ UNCHANGED <<files, copying, mounted, library, version, leftAt>>
    BY <1>7 DEF Leave, DeleteFile, directory
  <2> QED BY <2>1, <1>1, <1>5
<1> QED BY <1>3, <1>4, <1>6, <1>7 DEF Elsewhere

LEMMA ElsewhereWanted ==
  ASSUME TypeOK, Elsewhere
  PROVE  ListsKept /\ WantedKept
<1>1. ListsKept
  BY ElsewhereRefreshes, ElsewhereCatalog DEF ListsKept, IsList, L, Same, Began
<1>2. CASE UNCHANGED mounted
  <2>1. ASSUME NEW t \in Refresh, Needs(t)' PROVE Needs(t) /\ L(t)' = L(t)
    <3>1. ~Began(t)
      BY <2>1, NothingFact DEF Needs, L, Began
    <3>2. Same(t)
      BY <3>1, ElsewhereRefreshes
    <3> QED BY <1>2, <2>1, <3>2 DEF Needs, L, Same
  <2>2. ListNeeds' => ListNeeds /\ catalog' = catalog
    <3> SUFFICES ASSUME ListNeeds' PROVE ListNeeds /\ catalog' = catalog
      OBVIOUS
    <3>1. PICK t \in Refresh : refresh'[t].phase = "list"
      BY DEF ListNeeds
    <3>2. refresh[t].phase = "list"
      BY <3>1, ElsewhereRefreshes DEF Same, Began
    <3>3. catalog' = catalog
      BY ElsewhereCatalog, NothingFact DEF ListNeeds
    <3>4. mounted /\ catalog.lib
      BY <1>2, <3>3 DEF ListNeeds
    <3> QED BY <3>2, <3>3, <3>4 DEF ListNeeds
  <2> QED BY <1>1, <2>1, <2>2 DEF WantedKept, Wanted
<1>3. CASE Mount
  <2>1. UNCHANGED <<refresh, catalog>> /\ \A s \in Refresh : refresh[s].phase \in {"idle", "begin", "upsert"}
    BY <1>3 DEF Mount
  <2> QED BY <1>1, <2>1 DEF WantedKept, Wanted, ListNeeds, Needs, L
<1>4. Elsewhere /\ ~Mount => UNCHANGED mounted
  <2>1. CASE Tick \/ AskScan \/ AddLibrary \/ RemoveLibrary \/ Suspend \/ Replace \/ Resume
    BY <2>1 DEF Tick, AskScan, AddLibrary, RemoveLibrary, Suspend, Replace, Resume, directory
  <2>2. CASE \/ DeleteFails \/ DeleteRow
             \/ \E f \in File : Arrive(f) \/ Copied(f) \/ Leave(f) \/ AskRemove(f) \/ DeleteFile(f)
    BY <2>2 DEF DeleteFails, DeleteRow, Arrive, Copied, Leave, Leaves, AskRemove, DeleteFile, directory
  <2> QED BY <2>1, <2>2 DEF Elsewhere
<1> QED BY <1>1, <1>2, <1>3, <1>4

LEMMA ElsewhereKeepsLists ==
  ASSUME TypeOK, TypeOK', ListInv, ThereInv, CoverInv, Elsewhere
  PROVE  ListInv' /\ ThereInv' /\ CoverInv'
<1>1. newest \in Nat /\ newest' = newest
  BY ElsewhereCatalog DEF TypeOK, HistoryTypes
<1>2. newest <= newest' /\ newest' \in Nat
  BY <1>1
<1> QED BY <1>1, <1>2, ElsewhereWanted, ElsewhereFiles, ListsStay, CoverStays

-----------------------------------------------------------------------------
(* The steps of a refresh, and listings.                                     *)

\* The steps of s but those that make a listing or write a row
Simple(s) ==
  \/ Begin(s) \/ (Scan(s) /\ ScanFails(s))
  \/ Publish(s) \/ List(s) \/ SyncBegin(s) \/ Sweep(s) \/ Abort(s)

LEMMA StepChanges ==
  ASSUME TypeOK, NEW s \in Refresh,
         Simple(s)
  PROVE  /\ UNCHANGED <<files, copying, mounted, version, library, leftAt>>
         /\ \A t \in Refresh \ {s} : Same(t)
<1>1. UNCHANGED <<files, copying, mounted, version, library, leftAt>>
  BY DEF Simple, Begin, Scan, Publish, List, SyncBegin, Sweep, Abort, directory, history
<1>2. ASSUME NEW t \in Refresh \ {s}
      PROVE  Same(t)
  <2>1. CASE refresh'[t] = refresh[t]
    BY <2>1 DEF Same
  <2>2. CASE Sweep(s)
    BY <2>2 DEF Sweep, Same, TypeOK, RefreshTypes, Refreshes
  <2>3. CASE \/ Begin(s) \/ ScanFails(s) \/ Publish(s) \/ List(s) \/ SyncBegin(s) \/ Abort(s)
    <3>1. refresh'[t] = refresh[t]
      BY <2>3 DEF Begin, ScanFails, Publish, List, SyncBegin, Abort, TypeOK, RefreshTypes
    <3> QED BY <2>1, <3>1
  <2> QED BY <2>2, <2>3 DEF Simple
<1> QED BY <1>1, <1>2

\* The refresh whose step it is
LEMMA StepItself ==
  ASSUME TypeOK, NEW s \in Refresh
  PROVE  /\ Begin(s) => refresh'[s].phase = "scan" /\ refresh'[s].list = refresh[s].list
         /\ ScanFails(s) => refresh'[s].phase = "publish" /\ refresh'[s].list = Nothing
         /\ List(s) => refresh'[s].phase = "sync" /\ refresh'[s].list = catalog
         /\ SyncBegin(s) => /\ refresh'[s].phase = "upsert" /\ refresh'[s].list = refresh[s].list
                            /\ refresh'[s].present = Reachable(s) /\ refresh'[s].stale = rows
                            /\ refresh'[s].left = refresh[s].list.found
                            /\ refresh'[s].lib = refresh[s].lib
         /\ Sweep(s) => refresh'[s].phase = "idle" /\ refresh'[s].list = Nothing
         /\ Publish(s) \/ Abort(s) =>
              /\ \/ refresh'[s].phase \in {"list", "orphan"} /\ refresh'[s].list = refresh[s].list
                 \/ refresh'[s].phase = "idle" /\ refresh'[s].list = Nothing
              /\ refresh'[s].phase = "list" => Publish(s)
              /\ refresh'[s].phase = "orphan" => refresh[s].phase = "publish"
<1>0. refresh \in [Refresh -> Refreshes] /\ refresh[s] \in Refreshes
  BY DEF TypeOK, RefreshTypes
<1>1. Begin(s) => refresh'[s].phase = "scan" /\ refresh'[s].list = refresh[s].list
  BY <1>0 DEF Begin, Refreshes
<1>2. ScanFails(s) => refresh'[s].phase = "publish" /\ refresh'[s].list = Nothing
  BY <1>0 DEF ScanFails, Refreshes
<1>3. List(s) => refresh'[s].phase = "sync" /\ refresh'[s].list = catalog
  BY <1>0 DEF List, Refreshes
<1>4. SyncBegin(s) => /\ refresh'[s].phase = "upsert" /\ refresh'[s].list = refresh[s].list
                      /\ refresh'[s].present = Reachable(s) /\ refresh'[s].stale = rows
                      /\ refresh'[s].left = refresh[s].list.found
                      /\ refresh'[s].lib = refresh[s].lib
  BY <1>0 DEF SyncBegin, Refreshes
<1>5. Sweep(s) => refresh'[s].phase = "idle" /\ refresh'[s].list = Nothing
  BY <1>0, StartedFact DEF Sweep
<1>6. Publish(s) =>
        \/ refresh[s].phase = "orphan" /\ refresh'[s] = Idle
        \/ refresh'[s].phase = "list" /\ refresh'[s].list = refresh[s].list
  BY <1>0 DEF Publish, Refreshes
<1>7. Abort(s) =>
        \/ refresh'[s] = Idle
        \/ refresh[s].phase = "publish" /\ refresh'[s].phase = "orphan" /\ refresh'[s].list = refresh[s].list
  BY <1>0 DEF Abort, Refreshes
<1> QED BY <1>1, <1>2, <1>3, <1>4, <1>5, <1>6, <1>7, StartedFact

LEMMA StepKeepsLists ==
  ASSUME TypeOK, TypeOK', ListInv, ThereInv, CoverInv, NEW s \in Refresh,
         Simple(s)
  PROVE  ListInv' /\ ThereInv' /\ CoverInv'
<1>1. FilesKept /\ VersionKept
  BY StepChanges DEF FilesKept, VersionKept, TypeOK, RowTypes
<1>2. newest \in Nat /\ newest' \in Nat /\ newest <= newest'
  <2>1. newest \in Nat /\ newest' \in Nat
    BY DEF TypeOK, HistoryTypes
  <2>2. CASE SyncBegin(s)
    <3>1. refresh[s].list.at \in Nat
      BY DEF TypeOK, RefreshTypes, Refreshes, Listings
    <3> QED BY <2>1, <2>2, <3>1 DEF SyncBegin
  <2>3. CASE ~SyncBegin(s)
    <3>1. newest' = newest
      BY <2>3 DEF Simple, Begin, Scan, Publish, List, Sweep, Abort, history
    <3> QED BY <2>1, <3>1
  <2> QED BY <2>2, <2>3
<1>3. catalog' = IF Publish(s) THEN L(s) ELSE catalog
  BY DEF Simple, Begin, Scan, Publish, List, SyncBegin, Sweep, Abort, L
<1>4. \A t \in Refresh \ {s} : L(t)' = L(t)
  BY StepChanges DEF L, Same
<1>5. L(s)' \in {L(s), catalog, Nothing}
  BY StepItself DEF L, Simple
<1>6. ListsKept
  BY <1>3, <1>4, <1>5 DEF ListsKept, IsList
<1>7. WantedKept
  <2>1. UNCHANGED mounted
    BY StepChanges
  <2>2. \A t \in Refresh \ {s} : Needs(t)' => Needs(t) /\ L(t)' = L(t)
    BY <2>1, <1>4, StepChanges DEF Needs, L, Same
  <2>3. ASSUME Needs(s)' PROVE Wanted(L(s)')
    <3>1. L(s)'.lib /\ L(s)' # Nothing
      BY <2>3, NothingFact DEF Needs
    <3>2. CASE Publish(s) \/ Abort(s)
      <4>1. L(s)' = L(s) /\ L(s).lib /\ refresh'[s].phase \in {"list", "orphan"}
        BY <3>1, <3>2, StepItself DEF L
      <4>2. refresh[s].phase \in {"publish", "orphan"}
        BY <3>2, <4>1, StepItself DEF Publish
      <4>3. mounted
        BY <2>1, <2>3, <4>1 DEF Needs
      <4> QED BY <4>1, <4>2, <4>3 DEF Wanted, Needs
    <3>3. CASE List(s)
      <4>1. L(s)' = catalog /\ refresh'[s].phase = "sync" /\ refresh[s].phase = "list"
        BY <3>3, StepItself DEF L, List
      <4> QED BY <2>1, <2>3, <3>1, <4>1 DEF Wanted, ListNeeds, Needs
    <3>4. CASE SyncBegin(s)
      <4>1. /\ L(s)' = L(s) /\ refresh'[s].phase = "upsert" /\ refresh[s].phase = "sync"
            /\ refresh'[s].present = Reachable(s)
        BY <3>4, StepItself DEF L, SyncBegin
      <4>2. mounted
        BY <2>3, <4>1 DEF Needs, Reachable
      <4> QED BY <3>1, <4>1, <4>2 DEF Wanted, Needs
    <3>5. CASE Begin(s) \/ Sweep(s)
      BY <2>3, <3>5, StepItself DEF Needs
    <3>6. CASE ScanFails(s)
      BY <3>1, <3>6, StepItself DEF L
    <3> QED BY <3>2, <3>3, <3>4, <3>5, <3>6 DEF Simple
  <2>4. ASSUME ListNeeds' PROVE Wanted(catalog')
    <3>1. CASE Publish(s)
      <4>1. catalog' = L(s) /\ L(s).lib /\ mounted
        BY <1>3, <2>1, <2>4, <3>1 DEF ListNeeds
      <4> QED BY <3>1, <4>1 DEF Wanted, Needs, Publish
    <3>2. CASE ~Publish(s)
      <4>1. PICK t \in Refresh : refresh'[t].phase = "list"
        BY <2>4 DEF ListNeeds
      <4>2. t # s
        BY <3>2, <4>1, StepItself DEF Simple
      <4>3. refresh[t].phase = "list"
        BY <4>1, <4>2, StepChanges DEF Same
      <4>4. mounted /\ catalog.lib /\ catalog' = catalog
        BY <1>3, <2>1, <2>4, <3>2 DEF ListNeeds
      <4> QED BY <4>3, <4>4 DEF Wanted, ListNeeds
    <3> QED BY <3>1, <3>2
  <2> QED BY <2>2, <2>3, <2>4 DEF WantedKept, Wanted
<1> QED BY <1>1, <1>2, <1>6, <1>7, ListsStay, CoverStays

\* An upsert writes a row of a file that is there, and that every listing which is not older
\* has found
LEMMA UpsertChanges ==
  ASSUME TypeOK, NEW s \in Refresh, NEW f \in File, Upsert(s, f), NEW t \in Refresh
  PROVE  /\ refresh'[t].phase = refresh[t].phase /\ refresh'[t].lib = refresh[t].lib
         /\ refresh'[t].list = refresh[t].list /\ refresh'[t].present = refresh[t].present
         /\ refresh'[t].stale = refresh[t].stale \ {f}
         /\ refresh'[t].left = IF t = s THEN refresh[t].left \ {f} ELSE refresh[t].left
         /\ refresh'[t].doomed = refresh[t].doomed
BY DEF Upsert, TypeOK, RefreshTypes, Refreshes

LEMMA UpsertKeepsLists ==
  ASSUME TypeOK, TypeOK', ListInv, ThereInv, CoverInv, NEW s \in Refresh, NEW f \in File,
         Upsert(s, f), f \in L(s).found, L(s).at <= newest
  PROVE  ListInv' /\ ThereInv' /\ CoverInv'
<1>0. /\ version \in Nat \ {0} /\ \A g \in File : leftAt[g] \in Nat
      /\ L(s) \in Listings /\ L(s).at \in Nat /\ newest \in Nat /\ IsList(L(s))
  BY DEF TypeOK, RowTypes, HistoryTypes, RefreshTypes, Refreshes, Listings, L, IsList
<1>1. \A m \in Listings : (IsList(m)' <=> IsList(m)) /\ (Wanted(m)' <=> Wanted(m))
  <2>1. UNCHANGED <<catalog, mounted>> /\ \A t \in Refresh : L(t)' = L(t)
    BY UpsertChanges DEF Upsert, L, directory
  <2>2. \A t \in Refresh : Needs(t)' <=> Needs(t)
    BY <2>1, UpsertChanges DEF Needs
  <2>3. ListNeeds' <=> ListNeeds
    BY <2>1, UpsertChanges DEF ListNeeds
  <2> QED BY <2>1, <2>2, <2>3 DEF IsList, Wanted
<1>2. /\ UNCHANGED <<files, copying, mounted, newest>>
      /\ version' = IF library THEN version ELSE version + 1
      /\ library' = TRUE
      /\ leftAt' = IF leftAt[f] > L(s).at THEN leftAt ELSE [leftAt EXCEPT ![f] = 0]
  BY DEF Upsert, directory, L
<1>3. \A g \in File : \/ leftAt'[g] = leftAt[g]
                      \/ g = f /\ leftAt'[g] = 0 /\ leftAt[f] <= L(s).at
  BY <1>0, <1>2 DEF TypeOK, HistoryTypes
<1>4. leftAt[f] <= L(s).at => f \in files \ copying
  BY <1>0 DEF ListInv
<1>5. \A g \in File, m \in Listings : IsList(m) /\ g \in m.found /\ leftAt'[g] <= m.at => g \in files \ copying
  BY <1>3, <1>4 DEF ListInv
<1>6. ThereInv'
  BY <1>2, <1>3, <1>4 DEF ThereInv
<1>7. ListInv'
  <2> SUFFICES ASSUME NEW m \in Listings, IsList(m)
               PROVE  /\ m.at <= version'
                      /\ m.at = version' =>
                           /\ m.lib = library'
                           /\ m.found = IF mounted' /\ m.lib THEN files' \ copying' ELSE {}
                      /\ \A g \in m.found : leftAt'[g] <= m.at => g \in files' \ copying'
    BY <1>1 DEF ListInv
  <2>1. m.at <= version /\ m.at \in Nat /\ m.found \subseteq File
    BY DEF ListInv, Listings
  <2>2. m.at <= version' /\ (m.at = version' => version' = version)
    BY <1>0, <1>2, <2>1
  <2>3. version' = version => library
    BY <1>0, <1>2
  <2>4. m.at = version' =>
          /\ m.lib = library'
          /\ m.found = IF mounted' /\ m.lib THEN files' \ copying' ELSE {}
    BY <1>2, <2>2, <2>3 DEF ListInv, TypeOK, RowTypes
  <2>5. \A g \in m.found : leftAt'[g] <= m.at => g \in files' \ copying'
    BY <1>2, <1>5, <2>1
  <2> QED BY <2>2, <2>4, <2>5
<1>8. CoverInv'
  <2> SUFFICES ASSUME NEW m \in Listings, Wanted(m), m.at >= newest, m.at # 0,
                      NEW g \in File, Held(g, m)'
               PROVE  g \in m.found
    BY <1>1, <1>2 DEF CoverInv, Cover
  <2>1. Held(g, m)
    <3>1. CASE leftAt'[g] = leftAt[g]
      BY <1>1, <3>1 DEF Held
    <3>2. CASE g = f /\ leftAt[f] <= L(s).at
      <4>1. L(s).at <= m.at
        BY <1>0 DEF Listings
      <4> QED BY <1>0, <3>2, <4>1 DEF Held
    <3> QED BY <1>3, <3>1, <3>2
  <2> QED BY <2>1 DEF CoverInv, Cover
<1> QED BY <1>6, <1>7, <1>8

-----------------------------------------------------------------------------
(* Rows.                                                                     *)

RowInv ==
  /\ ~library => rows = {}
  /\ newest <= version
  /\ \A s \in Refresh : refresh[s].stale \subseteq rows

\* A refresh that writes.  What it found it has written, or will; what it lacks because its
\* listing is of a time without the library it will not delete, or an exception applies.
WriteInv ==
  \A s \in Refresh : refresh[s].phase = "upsert" =>
    /\ L(s).at <= newest
    /\ tainted \/ L(s).at > 0 \/ newest > 0
    /\ L(s).lib \/ ~refresh[s].present \/ tainted \/ L(s).at < newest \/ refresh[s].stale = {}
    /\ refresh[s].left \subseteq L(s).found
    /\ \A f \in L(s).found : f \in refresh[s].left \/ f \notin refresh[s].stale

CatalogInv == TypeOK /\ ListInv /\ ThereInv /\ CoverInv /\ RowInv /\ WriteInv

LEMMA CatalogInit == Init => CatalogInv
<1> SUFFICES ASSUME Init PROVE CatalogInv
  OBVIOUS
<1>1. TypeOK
  BY TypeInit
<1>2. /\ \A s \in Refresh : /\ refresh[s].phase \in {"idle", "begin"} /\ refresh[s].stale = {}
                            /\ L(s) = Nothing
      /\ catalog = Nothing
  BY StartedFact DEF Init, L
<1>3. \A m : IsList(m) => m = Nothing
  BY <1>2 DEF IsList
<1>4. version = 1 /\ newest = 0 /\ copying = {}
      /\ leftAt = [f \in File |-> IF f \in files THEN 0 ELSE 1]
  BY DEF Init
<1>5. ListInv
  BY <1>3, <1>4, NothingFact DEF ListInv
<1>6. ThereInv
  BY <1>4 DEF ThereInv
<1>7. CoverInv
  BY <1>2, NothingFact DEF CoverInv, Wanted, ListNeeds, Needs
<1>8. RowInv
  BY <1>2, <1>4 DEF RowInv, Init
<1>9. WriteInv
  BY <1>2 DEF WriteInv
<1> QED BY <1>1, <1>5, <1>6, <1>7, <1>8, <1>9 DEF CatalogInv

\* What is written stays right while newest, tainted and the rows to delete do
LEMMA WritesStay ==
  ASSUME TypeOK, WriteInv, newest' = newest, tainted => tainted',
         NEW t \in Refresh, Same(t), refresh'[t].phase = "upsert"
  PROVE  /\ L(t)'.at <= newest'
         /\ tainted' \/ L(t)'.at > 0 \/ newest' > 0
         /\ L(t)'.lib \/ ~refresh'[t].present \/ tainted' \/ L(t)'.at < newest' \/ refresh'[t].stale = {}
         /\ refresh'[t].left \subseteq L(t)'.found
         /\ \A f \in L(t)'.found : f \in refresh'[t].left \/ f \notin refresh'[t].stale
BY DEF WriteInv, Same, L

LEMMA ElsewhereRows ==
  ASSUME CatalogInv, TypeOK', Elsewhere
  PROVE  RowInv' /\ WriteInv'
<1>0. TypeOK /\ version \in Nat /\ version' \in Nat /\ newest \in Nat
  BY DEF CatalogInv, TypeOK, RowTypes, HistoryTypes
<1>1. newest' = newest /\ tainted' = tainted /\ version <= version'
  BY <1>0, ElsewhereCatalog, ElsewhereFiles DEF VersionKept
<1>2. \A t \in Refresh : Same(t) \/ Began(t)
  BY <1>0, ElsewhereRefreshes
<1>3. WriteInv'
  <2> SUFFICES ASSUME NEW t \in Refresh, refresh'[t].phase = "upsert"
               PROVE  /\ L(t)'.at <= newest'
                      /\ tainted' \/ L(t)'.at > 0 \/ newest' > 0
                      /\ L(t)'.lib \/ ~refresh'[t].present \/ tainted' \/ L(t)'.at < newest' \/ refresh'[t].stale = {}
                      /\ refresh'[t].left \subseteq L(t)'.found
                      /\ \A f \in L(t)'.found : f \in refresh'[t].left \/ f \notin refresh'[t].stale
    BY DEF WriteInv
  <2>1. Same(t)
    BY <1>2 DEF Began
  <2> QED BY <1>0, <1>1, <2>1, WritesStay DEF CatalogInv
<1>4. (~library' => rows' = {}) /\ \A t \in Refresh : refresh'[t].stale \subseteq rows'
  <2>1. CASE UNCHANGED <<library, rows>>
    BY <1>2, <2>1 DEF CatalogInv, RowInv, Same, Began
  <2>2. CASE AddLibrary
    <3>1. library' /\ UNCHANGED rows
      BY <2>2 DEF AddLibrary
    <3> QED BY <1>2, <3>1 DEF CatalogInv, RowInv, Same, Began
  <2>3. CASE RemoveLibrary
    <3>1. rows' = {} /\ \E s \in User : refresh' =
            [u \in Refresh |-> [Restarted(refresh, s)[u] EXCEPT !.stale = {}]]
      BY <2>3 DEF RemoveLibrary
    <3>2. PICK s \in User : refresh' =
            [u \in Refresh |-> [Restarted(refresh, s)[u] EXCEPT !.stale = {}]]
      BY <3>1
    <3>3. \A u \in Refresh : Restarted(refresh, s)[u] \in Refreshes
      BY <1>0, RestartedType DEF TypeOK
    <3>4. \A u \in Refresh : refresh'[u].stale = {}
      BY <3>2, <3>3 DEF Refreshes
    <3> QED BY <3>1, <3>4
  <2>4. CASE DeleteRow
    <3> DEFINE gone == IF remover.held THEN remover.item ELSE {}
    <3>1. /\ rows' = rows \ gone /\ UNCHANGED library
          /\ refresh' = [u \in Refresh |-> [refresh[u] EXCEPT !.stale = @ \ gone]]
      BY <2>4 DEF DeleteRow
    <3> HIDE DEF gone
    <3>2. \A u \in Refresh : refresh'[u].stale = refresh[u].stale \ gone
      BY <1>0, <3>1 DEF TypeOK, RefreshTypes, Refreshes
    <3> QED BY <3>1, <3>2 DEF CatalogInv, RowInv
  <2>5. CASE Tick \/ AskScan \/ Suspend \/ Replace \/ Resume \/ Mount \/ DeleteFails
    BY <2>1, <2>5 DEF Tick, AskScan, Suspend, Replace, Resume, Mount, DeleteFails
  <2>6. CASE \E f \in File : Arrive(f) \/ Copied(f) \/ Leave(f) \/ AskRemove(f) \/ DeleteFile(f)
    BY <2>1, <2>6 DEF Arrive, Copied, Leave, AskRemove, DeleteFile
  <2> QED BY <2>2, <2>3, <2>4, <2>5, <2>6 DEF Elsewhere
<1>5. newest' <= version'
  BY <1>0, <1>1 DEF CatalogInv, RowInv
<1> QED BY <1>3, <1>4, <1>5 DEF RowInv

\* The steps of a refresh that neither begin to write nor write
LEMMA QuietRows ==
  ASSUME CatalogInv, TypeOK', NEW s \in Refresh, Begin(s) \/ Scan(s) \/ Publish(s) \/ List(s) \/ Abort(s)
  PROVE  RowInv' /\ WriteInv'
<1>0. TypeOK /\ refresh[s] \in Refreshes
  BY DEF CatalogInv, TypeOK, RefreshTypes
<1>1. UNCHANGED <<rows, library, version, newest>> /\ (tainted => tainted')
  <2>1. CASE List(s)
    BY <2>1 DEF List
  <2>2. CASE Begin(s) \/ Scan(s) \/ Publish(s) \/ Abort(s)
    BY <2>2 DEF Begin, Scan, Publish, Abort, history
  <2> QED BY <2>1, <2>2
<1>2. \A t \in Refresh \ {s} : refresh'[t] = refresh[t]
  BY <1>0 DEF Begin, Scan, ScanSucceeds, ScanFails, Publish, List, Abort, TypeOK, RefreshTypes
<1>3. /\ refresh'[s].phase # "upsert"
      /\ refresh'[s].stale = refresh[s].stale \/ refresh'[s].stale = {}
  <2>1. CASE Begin(s)
    BY <1>0, <2>1 DEF Begin, TypeOK, RefreshTypes, Refreshes
  <2>2. CASE Scan(s)
    <3>1. \E l : refresh' = [refresh EXCEPT ![s] =
                               [refresh[s] EXCEPT !.phase = "publish", !.gen = 0, !.list = l]]
      BY <2>2 DEF Scan, ScanSucceeds, ScanFails
    <3> QED BY <1>0, <3>1 DEF TypeOK, RefreshTypes, Refreshes
  <2>3. CASE Publish(s)
    BY <1>0, <2>3, StartedFact DEF Publish, TypeOK, RefreshTypes, Refreshes
  <2>4. CASE List(s)
    BY <1>0, <2>4 DEF List, TypeOK, RefreshTypes, Refreshes
  <2>5. CASE Abort(s)
    BY <1>0, <2>5, StartedFact DEF Abort, TypeOK, RefreshTypes, Refreshes
  <2> QED BY <2>1, <2>2, <2>3, <2>4, <2>5
<1>4. RowInv'
  BY <1>1, <1>2, <1>3 DEF CatalogInv, RowInv
<1>5. WriteInv'
  BY <1>1, <1>2, <1>3 DEF CatalogInv, WriteInv, L
<1> QED BY <1>4, <1>5

LEMMA SyncBeginRows ==
  ASSUME CatalogInv, TypeOK', NEW s \in Refresh, SyncBegin(s)
  PROVE  RowInv' /\ WriteInv'
<1> DEFINE fresh == L(s).at = version /\ refresh[s].lib = library /\ ~refresh[s].doomed
<1>0. /\ TypeOK /\ version \in Nat \ {0} /\ newest \in Nat /\ L(s) \in Listings /\ L(s).at \in Nat
      /\ IsList(L(s)) /\ \A t \in Refresh : L(t) \in Listings /\ L(t).at \in Nat /\ IsList(L(t))
  BY DEF CatalogInv, TypeOK, RowTypes, HistoryTypes, RefreshTypes, Refreshes, Listings, L, IsList
<1>1. /\ UNCHANGED <<rows, library, version, mounted>>
      /\ newest' = IF L(s).at > newest THEN L(s).at ELSE newest
      /\ tainted' = IF fresh THEN FALSE
                    ELSE tainted \/ L(s).at = 0 \/ L(s).at < newest \/ (refresh[s].lib /\ ~L(s).lib)
  BY DEF SyncBegin, L, directory, Registered
<1>2. /\ \A t \in Refresh \ {s} : refresh'[t] = refresh[t]
      /\ refresh'[s].list = L(s) /\ refresh'[s].present = Reachable(s)
      /\ refresh'[s].stale = rows /\ refresh'[s].left = L(s).found
  BY <1>0, StepItself DEF SyncBegin, TypeOK, RefreshTypes, L
<1>3. /\ \A t \in Refresh : L(t).at <= version
      /\ \A t \in Refresh : L(t).at = version => L(t).lib = library
  BY <1>0 DEF CatalogInv, ListInv
<1>4. newest <= newest' /\ L(s).at <= newest' /\ newest' <= version /\ (fresh => newest' = version)
  BY <1>0, <1>1, <1>3 DEF CatalogInv, RowInv
<1>5. RowInv'
  BY <1>1, <1>2, <1>4 DEF CatalogInv, RowInv
<1>6. newest' \in Nat
  BY DEF TypeOK, HistoryTypes
<1> HIDE DEF fresh
<1>7. ASSUME NEW t \in Refresh, refresh'[t].phase = "upsert", t # s
      PROVE  /\ L(t)'.at <= newest'
             /\ tainted' \/ L(t)'.at > 0 \/ newest' > 0
             /\ L(t)'.lib \/ ~refresh'[t].present \/ tainted' \/ L(t)'.at < newest' \/ refresh'[t].stale = {}
             /\ refresh'[t].left \subseteq L(t)'.found
             /\ \A f \in L(t)'.found : f \in refresh'[t].left \/ f \notin refresh'[t].stale
  <2>1. refresh'[t] = refresh[t] /\ L(t)' = L(t) /\ refresh[t].phase = "upsert"
    BY <1>2, <1>7 DEF L
  <2>2. /\ L(t).at <= newest
        /\ tainted \/ L(t).at > 0 \/ newest > 0
        /\ L(t).lib \/ ~refresh[t].present \/ tainted \/ L(t).at < newest \/ refresh[t].stale = {}
        /\ refresh[t].left \subseteq L(t).found
        /\ \A f \in L(t).found : f \in refresh[t].left \/ f \notin refresh[t].stale
    BY <2>1 DEF CatalogInv, WriteInv
  <2>3. L(t).at <= newest'
    BY <1>0, <1>4, <1>6, <2>2
  <2>4. CASE fresh
    <3>1. newest' > 0
      BY <1>0, <1>4, <2>4
    <3>2. L(t).lib \/ L(t).at < newest' \/ refresh[t].stale = {}
      <4>1. CASE L(t).at # version
        BY <1>0, <1>3, <1>4, <2>4, <4>1
      <4>2. CASE L(t).at = version
        <5>1. L(t).lib \/ ~library
          BY <1>3, <4>2
        <5>2. ~library => refresh[t].stale = {}
          BY DEF CatalogInv, RowInv
        <5> QED BY <5>1, <5>2
      <4> QED BY <4>1, <4>2
    <3> QED BY <2>1, <2>2, <2>3, <3>1, <3>2
  <2>5. CASE ~fresh
    <3>1. tainted => tainted'
      BY <1>1, <2>5
    <3>2. tainted' \/ L(t).at > 0 \/ newest' > 0
      BY <1>0, <1>4, <1>6, <2>2, <3>1
    <3>3. L(t).at < newest => L(t).at < newest'
      BY <1>0, <1>4, <1>6
    <3> QED BY <2>1, <2>2, <2>3, <3>1, <3>2, <3>3
  <2> QED BY <2>4, <2>5
<1>8. /\ L(s)'.at <= newest'
      /\ tainted' \/ L(s)'.at > 0 \/ newest' > 0
      /\ L(s)'.lib \/ ~refresh'[s].present \/ tainted' \/ L(s)'.at < newest' \/ refresh'[s].stale = {}
      /\ refresh'[s].left \subseteq L(s)'.found
      /\ \A f \in L(s)'.found : f \in refresh'[s].left \/ f \notin refresh'[s].stale
  <2>1. L(s)' = L(s)
    BY <1>2 DEF L
  <2>2. CASE fresh
    <3>1. newest' > 0
      BY <1>0, <1>4, <2>2
    <3>2. L(s).lib \/ ~refresh'[s].present
      <4>1. refresh[s].lib = library /\ L(s).lib = library
        BY <1>3, <2>2 DEF fresh
      <4> QED BY <1>2, <4>1 DEF Reachable, Registered
    <3> QED BY <1>2, <1>4, <2>1, <3>1, <3>2
  <2>3. CASE ~fresh
    <3>1. tainted' \/ L(s).at > 0
      <4>1. L(s).at = 0 => tainted'
        BY <1>1, <2>3
      <4> QED BY <1>0, <4>1
    <3>2. L(s).lib \/ ~refresh'[s].present \/ tainted'
      BY <1>1, <1>2, <2>3 DEF Reachable, Registered
    <3> QED BY <1>2, <1>4, <2>1, <3>1, <3>2
  <2> QED BY <2>2, <2>3
<1>9. WriteInv'
  BY <1>7, <1>8 DEF WriteInv
<1> QED BY <1>5, <1>9

LEMMA UpsertRows ==
  ASSUME CatalogInv, TypeOK', NEW s \in Refresh, NEW f \in File, Upsert(s, f)
  PROVE  RowInv' /\ WriteInv'
<1>0. TypeOK /\ version \in Nat /\ newest \in Nat /\ version' \in Nat
  BY DEF CatalogInv, TypeOK, RowTypes, HistoryTypes
<1>1. rows' = rows \cup {f} /\ library' /\ newest' = newest /\ (tainted => tainted')
  BY DEF Upsert
<1>2. version <= version'
  <2>1. version' = version \/ version' = version + 1
    BY DEF Upsert
  <2> QED BY <1>0, <2>1
<1>3. \A t \in Refresh :
        /\ refresh'[t].phase = refresh[t].phase /\ refresh'[t].list = refresh[t].list
        /\ refresh'[t].present = refresh[t].present
        /\ refresh'[t].stale = refresh[t].stale \ {f}
        /\ refresh'[t].left = IF t = s THEN refresh[t].left \ {f} ELSE refresh[t].left
  <2> SUFFICES ASSUME NEW t \in Refresh
               PROVE  /\ refresh'[t].phase = refresh[t].phase /\ refresh'[t].list = refresh[t].list
                      /\ refresh'[t].present = refresh[t].present
                      /\ refresh'[t].stale = refresh[t].stale \ {f}
                      /\ refresh'[t].left = IF t = s THEN refresh[t].left \ {f} ELSE refresh[t].left
    OBVIOUS
  <2> QED BY <1>0, UpsertChanges
<1>4. newest' <= version'
  BY <1>0, <1>1, <1>2 DEF CatalogInv, RowInv
<1>5. RowInv'
  BY <1>1, <1>3, <1>4 DEF CatalogInv, RowInv
<1>6. WriteInv'
  <2> SUFFICES ASSUME NEW t \in Refresh, refresh'[t].phase = "upsert"
               PROVE  /\ L(t)'.at <= newest'
                      /\ tainted' \/ L(t)'.at > 0 \/ newest' > 0
                      /\ L(t)'.lib \/ ~refresh'[t].present \/ tainted' \/ L(t)'.at < newest' \/ refresh'[t].stale = {}
                      /\ refresh'[t].left \subseteq L(t)'.found
                      /\ \A g \in L(t)'.found : g \in refresh'[t].left \/ g \notin refresh'[t].stale
    BY DEF WriteInv
  <2>1. /\ refresh[t].phase = "upsert" /\ L(t)' = L(t) /\ refresh'[t].present = refresh[t].present
        /\ refresh'[t].stale = refresh[t].stale \ {f}
        /\ refresh'[t].left = IF t = s THEN refresh[t].left \ {f} ELSE refresh[t].left
    BY <1>3 DEF L
  <2> QED BY <1>1, <2>1 DEF CatalogInv, WriteInv
<1> QED BY <1>5, <1>6

LEMMA SweepRows ==
  ASSUME CatalogInv, TypeOK', NEW s \in Refresh, Sweep(s)
  PROVE  RowInv' /\ WriteInv'
<1> DEFINE gone == IF refresh[s].present /\ library THEN refresh[s].stale ELSE {}
<1>0. TypeOK
  BY DEF CatalogInv
<1>1. /\ rows' = rows \ gone /\ UNCHANGED <<library, version, newest>> /\ (tainted => tainted')
      /\ refresh' = [t \in Refresh |-> IF t = s THEN Idle ELSE [refresh[t] EXCEPT !.stale = @ \ gone]]
  BY DEF Sweep
<1> HIDE DEF gone
<1>2. /\ refresh'[s].phase = "idle" /\ refresh'[s].stale = {}
      /\ \A t \in Refresh \ {s} : Same(t) /\ refresh'[t].stale = refresh[t].stale \ gone
  BY <1>0, <1>1, StartedFact DEF TypeOK, RefreshTypes, Refreshes, Same
<1>3. RowInv'
  BY <1>1, <1>2 DEF CatalogInv, RowInv
<1>4. WriteInv'
  <2> SUFFICES ASSUME NEW t \in Refresh, refresh'[t].phase = "upsert"
               PROVE  /\ L(t)'.at <= newest'
                      /\ tainted' \/ L(t)'.at > 0 \/ newest' > 0
                      /\ L(t)'.lib \/ ~refresh'[t].present \/ tainted' \/ L(t)'.at < newest' \/ refresh'[t].stale = {}
                      /\ refresh'[t].left \subseteq L(t)'.found
                      /\ \A f \in L(t)'.found : f \in refresh'[t].left \/ f \notin refresh'[t].stale
    BY DEF WriteInv
  <2>1. Same(t)
    BY <1>2
  <2> QED BY <1>0, <1>1, <2>1, WritesStay DEF CatalogInv
<1> QED BY <1>3, <1>4

LEMMA CatalogStep == CatalogInv /\ [Next]_vars => CatalogInv'
<1> SUFFICES ASSUME CatalogInv, [Next]_vars PROVE CatalogInv'
  OBVIOUS
<1>0. TypeOK /\ TypeOK' /\ ListInv /\ ThereInv /\ CoverInv
  BY TypeStep DEF CatalogInv
<1>1. CASE UNCHANGED vars
  BY <1>0, <1>1 DEF CatalogInv, ListInv, ThereInv, CoverInv, RowInv, WriteInv, vars, IsList, Wanted, L,
                    Needs, ListNeeds, Cover, Held
<1>2. CASE Elsewhere
  BY <1>0, <1>2, ElsewhereKeepsLists, ElsewhereRows DEF CatalogInv
<1>3. ASSUME NEW s \in Refresh, RefreshStep(s)
      PROVE  CatalogInv'
  <2>1. CASE Begin(s) \/ (Scan(s) /\ ScanFails(s)) \/ Publish(s) \/ List(s) \/ Abort(s)
    <3>1. Simple(s)
      BY <2>1 DEF Simple
    <3> QED BY <1>0, <2>1, <3>1, StepKeepsLists, QuietRows DEF CatalogInv
  <2>2. CASE Scan(s) /\ ScanSucceeds(s)
    BY <1>0, <2>2, ScanLists, QuietRows DEF CatalogInv
  <2>3. CASE SyncBegin(s) \/ Sweep(s)
    <3>1. Simple(s)
      BY <2>3 DEF Simple
    <3> QED BY <1>0, <2>3, <3>1, StepKeepsLists, SyncBeginRows, SweepRows DEF CatalogInv
  <2>4. ASSUME NEW f \in File, Upsert(s, f)
        PROVE  CatalogInv'
    <3>1. f \in L(s).found /\ L(s).at <= newest
      BY <2>4 DEF CatalogInv, WriteInv, Upsert
    <3> QED BY <1>0, <2>4, <3>1, UpsertKeepsLists, UpsertRows DEF CatalogInv
  <2> QED BY <1>3, <2>1, <2>2, <2>3, <2>4 DEF RefreshStep, Scan
<1> QED BY <1>1, <1>2, <1>3 DEF Next, Elsewhere

\* The refresh deletes no row of a file that stayed, unless an exception applies
LEMMA SweepKeeps ==
  ASSUME CatalogInv, NEW s \in Refresh, Sweep(s), ~tainted', NEW f \in rows \ rows'
  PROVE  ~Stayed(f)
<1> DEFINE gone == IF refresh[s].present /\ library THEN refresh[s].stale ELSE {}
<1>0. /\ L(s) \in Listings /\ L(s).at \in Nat /\ newest \in Nat /\ f \in File
  BY DEF CatalogInv, TypeOK, RefreshTypes, Refreshes, Listings, L, HistoryTypes, RowTypes
<1>1. f \in gone /\ refresh[s].left = {} /\ refresh[s].phase = "upsert" /\ ~Late(s) /\ ~tainted
  BY DEF Sweep
<1>2. f \in refresh[s].stale /\ refresh[s].present
  BY <1>1
<1>3. L(s).at >= newest
  BY <1>0, <1>1 DEF Late, L
<1>4. /\ L(s).at > 0 \/ newest > 0
      /\ L(s).lib \/ L(s).at < newest
      /\ f \notin L(s).found
  BY <1>1, <1>2 DEF CatalogInv, WriteInv
<1>5. L(s).at # 0 /\ L(s).lib
  BY <1>0, <1>3, <1>4
<1>6. Needs(s)
  BY <1>1, <1>2, <1>5 DEF Needs
<1>7. Cover(L(s))
  BY <1>0, <1>6 DEF CatalogInv, CoverInv, Wanted
<1>8. leftAt[f] # 0
  BY <1>0, <1>3, <1>4, <1>5, <1>7 DEF Cover, Held
<1> QED BY <1>8 DEF Stayed

\* The item of a wallpaper that stays where it is is not deleted while its library is
\* registered, for any files, mixes of changes and failures, unless an older or a failed
\* listing, or one without the library, was written after a newer one.
THEOREM ItemsKept == Spec => KeepsItems
<1>1. CatalogInv /\ [Next]_vars =>
        [library /\ library' /\ ~tainted' => \A f \in rows \ rows' : ~Stayed(f)]_vars
  <2> SUFFICES ASSUME CatalogInv, Next, library, library', ~tainted', NEW f \in rows \ rows'
               PROVE  ~Stayed(f)
    BY DEF vars
  <2>1. CASE \E s \in Refresh : RefreshStep(s)
    <3>1. PICK s \in Refresh : RefreshStep(s)
      BY <2>1
    <3>2. Sweep(s)
      BY <3>1 DEF RefreshStep, Begin, Scan, Publish, List, SyncBegin, Upsert, Abort
    <3> QED BY <3>2, SweepKeeps
  <2>2. CASE Elsewhere
    <3>1. DeleteRow
      <4>1. CASE Tick \/ AskScan \/ AddLibrary \/ RemoveLibrary \/ Suspend \/ Replace \/ Resume
                 \/ Mount \/ DeleteFails
        BY <4>1 DEF Tick, AskScan, AddLibrary, RemoveLibrary, Suspend, Replace, Resume, Mount, DeleteFails
      <4>2. CASE \E g \in File : Arrive(g) \/ Copied(g) \/ Leave(g) \/ AskRemove(g) \/ DeleteFile(g)
        BY <4>2 DEF Arrive, Copied, Leave, AskRemove, DeleteFile
      <4> QED BY <2>2, <4>1, <4>2 DEF Elsewhere
    <3>2. f \in remover.item
      BY <3>1 DEF DeleteRow
    <3> QED BY <3>2 DEF Stayed
  <2> QED BY <2>1, <2>2 DEF Next, Elsewhere
<1> QED BY <1>1, CatalogInit, CatalogStep, PTL DEF Spec, KeepsItems

-----------------------------------------------------------------------------
(* The flag the watcher obeys.  A refresh that is dropped leaves it as it is, *)
(* but only one that another of the user's takes the place of is dropped.    *)

Undoomed(s) == refresh[s].phase \notin {"idle", "orphan"} /\ ~refresh[s].doomed

ScanInv ==
  /\ scanning => \E s \in Refresh : Undoomed(s)
  /\ (\E s \in Refresh : refresh[s].doomed) => \E s \in User : Undoomed(s)
  /\ \A s \in Refresh : refresh[s].doomed => s \in User

LEMMA UserFact == User \subseteq Refresh /\ "watch" \in Refresh /\ "watch" \notin User
  /\ "reload" \in Refresh /\ "reload" \notin User
BY DEF User, Refresh

\* No refresh is doomed or ends
LEMMA ScanStays ==
  ASSUME ScanInv, scanning' => scanning,
         \A t \in Refresh : (Undoomed(t) => Undoomed(t)') /\ (refresh'[t].doomed => refresh[t].doomed)
  PROVE  ScanInv'
BY UserFact DEF ScanInv

\* The refresh of s begins, and it dooms others
LEMMA ScanRestarts ==
  ASSUME TypeOK, ScanInv, UNCHANGED scanning, NEW s \in User,
         \A t \in Refresh : /\ refresh'[t].doomed = Restarted(refresh, s)[t].doomed
                            /\ refresh'[t].phase = Restarted(refresh, s)[t].phase
  PROVE  ScanInv'
<1>1. s \in Refresh
  BY UserFact
<1>2. Undoomed(s)'
  BY <1>1, StartedFact DEF Undoomed, Restarted
<1>3. \A t \in Refresh : refresh'[t].doomed => t \in User
  BY StartedFact DEF ScanInv, Restarted, TypeOK, RefreshTypes, Refreshes
<1> QED BY <1>1, <1>2, <1>3 DEF ScanInv

LEMMA ScanElsewhere ==
  ASSUME TypeOK, ScanInv, Elsewhere
  PROVE  ScanInv'
<1>0. refresh \in [Refresh -> Refreshes]
  BY DEF TypeOK, RefreshTypes
<1>1. CASE Tick \/ Replace
  <2>1. /\ UNCHANGED scanning
        /\ \A t \in Refresh : refresh'[t] = refresh[t] \/ refresh'[t] = Started
    BY <1>0, <1>1 DEF Tick, Replace
  <2>2. \A t \in Refresh : (Undoomed(t) => Undoomed(t)') /\ (refresh'[t].doomed => refresh[t].doomed)
    BY <2>1, StartedFact DEF Undoomed
  <2> QED BY <2>1, <2>2, ScanStays
<1>2. CASE AskScan \/ AddLibrary
  <2>1. PICK s \in User : refresh' = Restarted(refresh, s)
    BY <1>2 DEF AskScan, AddLibrary
  <2>2. UNCHANGED scanning
    BY <1>2 DEF AskScan, AddLibrary
  <2> QED BY <2>1, <2>2, ScanRestarts
<1>3. CASE RemoveLibrary
  <2>1. PICK s \in User : refresh' = [t \in Refresh |-> [Restarted(refresh, s)[t] EXCEPT !.stale = {}]]
    BY <1>3 DEF RemoveLibrary
  <2>2. \A t \in Refresh : Restarted(refresh, s)[t] \in Refreshes
    BY RestartedType DEF TypeOK
  <2>3. \A t \in Refresh : /\ refresh'[t].doomed = Restarted(refresh, s)[t].doomed
                           /\ refresh'[t].phase = Restarted(refresh, s)[t].phase
    BY <2>1, <2>2 DEF Refreshes
  <2>4. UNCHANGED scanning
    BY <1>3 DEF RemoveLibrary
  <2> QED BY <2>3, <2>4, ScanRestarts
<1>4. CASE DeleteRow
  <2>1. UNCHANGED scanning /\ \A t \in Refresh : /\ refresh'[t].phase = refresh[t].phase
                                                 /\ refresh'[t].doomed = refresh[t].doomed
    BY <1>0, <1>4 DEF DeleteRow, Refreshes
  <2> QED BY <2>1, ScanStays DEF Undoomed
<1>5. CASE \/ Suspend \/ Resume \/ Mount \/ DeleteFails
           \/ \E f \in File : Arrive(f) \/ Copied(f) \/ Leave(f) \/ AskRemove(f) \/ DeleteFile(f)
  <2>1. UNCHANGED <<scanning, refresh>>
    BY <1>5 DEF Suspend, Resume, Mount, DeleteFails, Arrive, Copied, Leave, AskRemove, DeleteFile
  <2> QED BY <2>1, ScanStays DEF Undoomed
<1> QED BY <1>1, <1>2, <1>3, <1>4, <1>5 DEF Elsewhere

\* The refresh whose step it is, and the others
LEMMA StepDooms ==
  ASSUME TypeOK, NEW s \in Refresh, RefreshStep(s)
  PROVE  /\ \A t \in Refresh \ {s} : refresh'[t].phase = refresh[t].phase /\ refresh'[t].doomed = refresh[t].doomed
         /\ refresh'[s].doomed => refresh[s].doomed
         /\ refresh'[s].phase \in {"idle", "orphan"} => \/ refresh[s].phase = "orphan"
                                                        \/ Sweep(s) \/ refresh[s].doomed
         /\ Undoomed(s) /\ ~Sweep(s) => Undoomed(s)'
<1>0. refresh \in [Refresh -> Refreshes] /\ refresh[s] \in Refreshes
  BY DEF TypeOK, RefreshTypes
<1>1. CASE Begin(s) \/ List(s)
  <2>1. CASE Begin(s)
    BY <1>0, <2>1 DEF Begin, Undoomed, Refreshes
  <2>2. CASE List(s)
    BY <1>0, <2>2 DEF List, Undoomed, Refreshes
  <2> QED BY <1>1, <2>1, <2>2
<1>2. CASE SyncBegin(s)
  BY <1>0, <1>2 DEF SyncBegin, Undoomed, Refreshes
<1>3. CASE Scan(s)
  <2>1. \E l : refresh' = [refresh EXCEPT ![s] =
                             [refresh[s] EXCEPT !.phase = "publish", !.gen = 0, !.list = l]]
    BY <1>3 DEF Scan, ScanSucceeds, ScanFails
  <2> QED BY <1>0, <2>1 DEF Undoomed, Refreshes
<1>4. CASE Publish(s)
  BY <1>0, <1>4, StartedFact DEF Publish, Undoomed, Refreshes
<1>5. CASE Abort(s)
  BY <1>0, <1>5, StartedFact DEF Abort, Undoomed, Refreshes
<1>6. CASE \E f \in File : Upsert(s, f)
  <2>1. PICK f \in File : Upsert(s, f)
    BY <1>6
  <2>2. \A t \in Refresh : refresh'[t].phase = refresh[t].phase /\ refresh'[t].doomed = refresh[t].doomed
    BY <2>1, UpsertChanges
  <2>3. refresh[s].phase = "upsert"
    BY <2>1 DEF Upsert
  <2> QED BY <2>2, <2>3 DEF Undoomed
<1>7. CASE Sweep(s)
  <2> DEFINE gone == IF refresh[s].present /\ library THEN refresh[s].stale ELSE {}
  <2>1. refresh' = [t \in Refresh |-> IF t = s THEN Idle ELSE [refresh[t] EXCEPT !.stale = @ \ gone]]
    BY <1>7 DEF Sweep
  <2> HIDE DEF gone
  <2> QED BY <1>0, <1>7, <2>1, StartedFact DEF Undoomed, Refreshes
<1> QED BY <1>1, <1>2, <1>3, <1>4, <1>5, <1>6, <1>7 DEF RefreshStep

LEMMA ScanRefresh ==
  ASSUME TypeOK, ScanInv, NEW s \in Refresh, RefreshStep(s)
  PROVE  ScanInv'
<1>1. CASE Sweep(s)
  <2>1. ~scanning' /\ (s \in User => \A t \in User \ {s} : ~refresh[t].doomed)
    BY <1>1 DEF Sweep
  <2>2. ~refresh'[s].doomed
    <3>1. refresh'[s] = Idle
      BY <1>1 DEF Sweep
    <3> QED BY <3>1, StartedFact
  <2>3. CASE s \in User
    BY <2>1, <2>2, <2>3, StepDooms, UserFact DEF ScanInv
  <2>4. CASE s \notin User
    <3>1. \A t \in User : Undoomed(t) => Undoomed(t)'
      BY <2>4, StepDooms, UserFact DEF Undoomed
    <3> QED BY <2>1, <2>2, <3>1, StepDooms, UserFact DEF ScanInv
  <2> QED BY <2>3, <2>4
<1>2. CASE Begin(s)
  <2>1. \A t \in Refresh : (Undoomed(t) => Undoomed(t)') /\ (refresh'[t].doomed => refresh[t].doomed)
    BY <1>2, StepDooms DEF Undoomed, Sweep, Begin
  <2>2. \E t \in Refresh : Undoomed(t)
    <3>1. CASE refresh[s].doomed
      BY <3>1, UserFact DEF ScanInv
    <3>2. CASE ~refresh[s].doomed
      BY <1>2, <3>2 DEF Undoomed, Begin
    <3> QED BY <3>1, <3>2
  <2> QED BY <2>1, <2>2, UserFact DEF ScanInv
<1>3. CASE ~Sweep(s) /\ ~Begin(s)
  <2>1. \A t \in Refresh : (Undoomed(t) => Undoomed(t)') /\ (refresh'[t].doomed => refresh[t].doomed)
    BY <1>3, StepDooms DEF Undoomed
  <2>2. UNCHANGED scanning
    BY <1>3 DEF RefreshStep, Scan, Publish, List, SyncBegin, Abort, Upsert
  <2> QED BY <2>1, <2>2, ScanStays
<1> QED BY <1>1, <1>2, <1>3

LEMMA ScanStep == TypeOK /\ ScanInv /\ [Next]_vars => ScanInv'
<1> SUFFICES ASSUME TypeOK, ScanInv, [Next]_vars PROVE ScanInv'
  OBVIOUS
<1>1. CASE UNCHANGED vars
  BY <1>1 DEF ScanInv, Undoomed, vars
<1>2. CASE Elsewhere
  BY <1>2, ScanElsewhere
<1>3. CASE \E s \in Refresh : RefreshStep(s)
  BY <1>3, ScanRefresh
<1> QED BY <1>1, <1>2, <1>3 DEF Next, Elsewhere

LEMMA ScanInit == Init => ScanInv
<1> SUFFICES ASSUME Init PROVE ScanInv
  OBVIOUS
<1>1. \A s \in Refresh : ~refresh[s].doomed
  BY StartedFact DEF Init
<1> QED BY <1>1 DEF Init, ScanInv

\* Whatever refreshes ran, were dropped or overlapped, and whatever failed: once nothing goes on,
\* the flag no longer announces one, or the watcher would wait for it for ever.
THEOREM FlagIsCleared == Spec => [](AtRest => ~scanning)
<1>1. ScanInv => (AtRest => ~scanning)
  BY DEF ScanInv, AtRest, Active, Undoomed
<1> QED BY <1>1, TypeInit, TypeStep, ScanInit, ScanStep, PTL DEF Spec

-----------------------------------------------------------------------------
(* The catalogue at rest.  A change that nobody has listed is one the        *)
(* watcher will see, or has seen and will list again (Pending), or one that  *)
(* a refresh which nobody will drop has listed, or will (Coming).  What the  *)
(* argument needs: the library is registered all the time, and directories   *)
(* in which files are removed stay mounted.                                  *)

Steady(kinds) == "library" \notin kinds /\ ~({"remove", "mount"} \subseteq kinds)

SteadyInv ==
  /\ Steady(mix.kinds) /\ library
  /\ \A s \in Refresh : refresh[s].phase \notin {"idle", "begin"} => refresh[s].lib

Pending == watch.seen # Times \/ watch.recheck

\* A file that is still being copied is one the watcher will look at again
WatchInv ==
  /\ watch.seen.known /\ watch.seen.time <= mtime + 1
  /\ (copying # {} => Pending) /\ (copying \ aged # {} => watch.seen # Times)
  /\ aged \subseteq copying

\* The file is deleted before its row is
RemoveInv ==
  /\ "remove" \in mix.kinds => mounted
  /\ remover.phase # "idle" => "remove" \in mix.kinds /\ \E f \in File : remover.item = {f}
  /\ remover.phase = "row" => remover.item \cap files = {}

\* When s has written and swept, the rows are what it has listed.  The listing that comes is
\* of this version, or an exception (a scan that failed) that will be known when it is read.
Writing(s) ==
  /\ refresh[s].present
  /\ L(s).found \subseteq rows \cup refresh[s].left
  /\ rows \subseteq L(s).found \cup refresh[s].stale
Coming(s) ==
  /\ ~refresh[s].doomed
  /\ \/ refresh[s].phase \in {"begin", "scan"}
     \/ refresh[s].phase \in {"publish", "list"} /\ L(s).at \in {0, version}
     \/ refresh[s].phase = "sync" /\ L(s).at = version
     \/ refresh[s].phase = "upsert" /\ L(s).at = version /\ Writing(s)
Done == newest = version /\ copying = {} /\ rows = files

RestInv == mounted /\ ~tainted => Pending \/ Done \/ \E s \in Refresh : Coming(s)

LEMMA KindsStay ==
  ASSUME TypeOK, Next
  PROVE  mix'.kinds = mix.kinds
<1>1. Spend => mix'.kinds = mix.kinds
  BY DEF Spend, TypeOK, OtherTypes
<1>2. CASE \E s \in Refresh : RefreshStep(s)
  BY <1>2 DEF RefreshStep, Begin, Scan, Publish, List, SyncBegin, Sweep, Abort, Upsert
<1>3. CASE Tick \/ AskScan \/ AddLibrary \/ RemoveLibrary \/ Suspend \/ Replace \/ Resume \/ Mount
           \/ DeleteFails \/ DeleteRow
  BY <1>1, <1>3 DEF Tick, AskScan, AddLibrary, RemoveLibrary, Suspend, Replace, Resume, Mount,
                    DeleteFails, DeleteRow
<1>4. CASE \E f \in File : Arrive(f) \/ Copied(f) \/ Leave(f) \/ AskRemove(f) \/ DeleteFile(f)
  BY <1>1, <1>4 DEF Arrive, Copied, Leave, AskRemove, DeleteFile
<1> QED BY <1>2, <1>3, <1>4 DEF Next

Reload == Suspend \/ Replace \/ Resume

\* In a steady mix these happen, and nothing else does
LEMMA SteadySteps ==
  ASSUME SteadyInv, Next
  PROVE  \/ \E s \in Refresh : RefreshStep(s)
         \/ Tick \/ AskScan \/ Reload \/ Mount \/ DeleteFails \/ DeleteRow
         \/ \E f \in File : Arrive(f) \/ Copied(f) \/ Leave(f) \/ AskRemove(f) \/ DeleteFile(f)
BY DEF SteadyInv, Steady, Next, AddLibrary, RemoveLibrary, May, Reload

LEMMA SteadyElse ==
  ASSUME TypeOK, SteadyInv,
         \/ Tick \/ AskScan \/ Reload \/ Mount \/ DeleteFails \/ DeleteRow
         \/ \E f \in File : Arrive(f) \/ Copied(f) \/ Leave(f) \/ AskRemove(f) \/ DeleteFile(f)
  PROVE  SteadyInv'
<1>1. Elsewhere /\ Next
  BY DEF Elsewhere, Next, Reload
<1>2. UNCHANGED library
  <2>1. CASE Tick \/ AskScan \/ Reload \/ Mount \/ DeleteFails \/ DeleteRow
    BY <2>1 DEF Tick, AskScan, Reload, Suspend, Replace, Resume, Mount, DeleteFails, DeleteRow
  <2>2. CASE \E f \in File : Arrive(f) \/ Copied(f) \/ Leave(f) \/ AskRemove(f) \/ DeleteFile(f)
    BY <2>2 DEF Arrive, Copied, Leave, AskRemove, DeleteFile
  <2> QED BY <2>1, <2>2
<1>3. Steady(mix'.kinds)
  BY <1>1, KindsStay DEF SteadyInv
<1> QED BY <1>1, <1>2, <1>3, ElsewhereRefreshes DEF SteadyInv, Same, Began

LEMMA SteadyRefresh ==
  ASSUME TypeOK, SteadyInv, NEW s \in Refresh, RefreshStep(s)
  PROVE  SteadyInv'
<1>0. refresh \in [Refresh -> Refreshes] /\ refresh[s] \in Refreshes /\ Next
  BY DEF TypeOK, RefreshTypes, Next
<1>1. library'
  BY DEF SteadyInv, RefreshStep, Begin, Scan, Publish, List, SyncBegin, Sweep, Abort, Upsert
<1>2. ASSUME NEW t \in Refresh
      PROVE  refresh'[t].phase \notin {"idle", "begin"} => refresh'[t].lib
  <2>1. CASE Begin(s)
    BY <1>0, <2>1 DEF Begin, SteadyInv, Refreshes
  <2>2. CASE Scan(s)
    <3>1. \E l : refresh' = [refresh EXCEPT ![s] =
                               [refresh[s] EXCEPT !.phase = "publish", !.gen = 0, !.list = l]]
      BY <2>2 DEF Scan, ScanSucceeds, ScanFails
    <3>2. refresh[s].phase = "scan"
      BY <2>2 DEF Scan
    <3> QED BY <1>0, <3>1, <3>2 DEF SteadyInv, Refreshes
  <2>3. CASE Publish(s)
    BY <1>0, <2>3, StartedFact DEF Publish, SteadyInv, Refreshes
  <2>4. CASE List(s)
    BY <1>0, <2>4 DEF List, SteadyInv, Refreshes
  <2>5. CASE SyncBegin(s)
    BY <1>0, <2>5 DEF SyncBegin, SteadyInv, Refreshes
  <2>6. CASE Abort(s)
    BY <1>0, <2>6, StartedFact DEF Abort, SteadyInv, Refreshes
  <2>7. CASE Sweep(s)
    <3> DEFINE gone == IF refresh[s].present /\ library THEN refresh[s].stale ELSE {}
    <3>1. refresh' = [u \in Refresh |-> IF u = s THEN Idle ELSE [refresh[u] EXCEPT !.stale = @ \ gone]]
      BY <2>7 DEF Sweep
    <3> HIDE DEF gone
    <3> QED BY <1>0, <3>1, StartedFact DEF SteadyInv, Refreshes
  <2>8. CASE \E f \in File : Upsert(s, f)
    <3>1. PICK f \in File : Upsert(s, f)
      BY <2>8
    <3>2. refresh'[t].phase = refresh[t].phase /\ refresh'[t].lib = refresh[t].lib
      BY <1>0, <3>1 DEF Upsert, Refreshes
    <3> QED BY <3>2 DEF SteadyInv
  <2> QED BY <2>1, <2>2, <2>3, <2>4, <2>5, <2>6, <2>7, <2>8 DEF RefreshStep
<1> QED BY <1>0, <1>1, <1>2, KindsStay DEF SteadyInv

LEMMA SteadyStep == TypeOK /\ SteadyInv /\ [Next]_vars => SteadyInv'
<1> SUFFICES ASSUME TypeOK, SteadyInv, [Next]_vars PROVE SteadyInv'
  OBVIOUS
<1>1. CASE UNCHANGED vars
  BY <1>1 DEF SteadyInv, vars
<1>2. CASE Next
  BY <1>2, SteadySteps, SteadyElse, SteadyRefresh
<1> QED BY <1>1, <1>2

LEMMA TimesFact ==
  ASSUME library, DirectoryTypes
  PROVE  Times.known /\ Times.time = (IF mounted THEN mtime + 1 ELSE 0) /\ Times.time <= mtime + 1
BY DEF Times, DirTime, DirectoryTypes

\* Nothing that the watcher looks at
WatchStays == UNCHANGED <<watch, Times, mtime, copying, aged>>
LEMMA WatchSame ==
  ASSUME WatchInv, WatchStays
  PROVE  WatchInv' /\ (Pending' <=> Pending)
BY DEF WatchInv, WatchStays, Pending

LEMMA RefreshWatch ==
  ASSUME SteadyInv, SteadyInv', NEW s \in Refresh, RefreshStep(s)
  PROVE  WatchStays /\ UNCHANGED <<directory, mix>>
<1>1. UNCHANGED <<directory, mix, watch>>
  BY DEF RefreshStep, Begin, Scan, Publish, List, SyncBegin, Sweep, Abort, Upsert
<1> QED BY <1>1 DEF WatchStays, Times, DirTime, directory, SteadyInv

\* A change of the entries is one the watcher has not seen
LEMMA ChangeIsPending ==
  ASSUME TypeOK, SteadyInv, SteadyInv', WatchInv, mounted', mtime' = mtime + 1, UNCHANGED watch
  PROVE  watch'.seen # Times' /\ watch'.seen.known /\ watch'.seen.time <= mtime' + 1
<1>1. mtime \in Nat /\ watch.seen.time \in Nat
  BY DEF TypeOK, DirectoryTypes, OtherTypes, Stamps
<1>2. Times'.time = mtime' + 1
  BY DEF Times, DirTime, SteadyInv
<1>3. watch.seen.time # mtime + 2
  BY <1>1 DEF WatchInv
<1> QED BY <1>1, <1>2, <1>3 DEF WatchInv

LEMMA FilesWatch ==
  ASSUME TypeOK, TypeOK', SteadyInv, SteadyInv', WatchInv,
         NEW f \in File, Arrive(f) \/ (Leaves(f) /\ mounted /\ UNCHANGED watch)
  PROVE  WatchInv' /\ Pending'
<1>1. mounted' /\ mtime' = mtime + 1 /\ UNCHANGED watch
  BY DEF Arrive, Leaves
<1>2. watch'.seen # Times' /\ watch'.seen.known /\ watch'.seen.time <= mtime' + 1
  BY <1>1, ChangeIsPending
<1>3. aged' \subseteq copying'
  BY DEF Arrive, Leaves, WatchInv
<1> QED BY <1>2, <1>3 DEF WatchInv, Pending

LEMMA CopiedWatch ==
  ASSUME SteadyInv, SteadyInv', WatchInv, NEW f \in File, Copied(f)
  PROVE  WatchInv' /\ Pending'
<1>1. /\ UNCHANGED <<watch, mtime, mounted>> /\ f \in copying
      /\ copying' = copying \ {f} /\ aged' = aged \ {f}
  BY DEF Copied
<1>2. UNCHANGED Times
  BY <1>1 DEF Times, DirTime, SteadyInv
<1>3. Pending
  BY <1>1 DEF WatchInv
<1> QED BY <1>1, <1>2, <1>3 DEF WatchInv, Pending

LEMMA MountWatch ==
  ASSUME TypeOK, SteadyInv, SteadyInv', WatchInv, Mount
  PROVE  WatchInv' /\ Pending'
<1>1. /\ UNCHANGED <<watch, mtime, copying, aged>> /\ mounted' = ~mounted
      /\ copying = {} /\ watch.seen = Times /\ mtime \in Nat
  BY DEF Mount, TypeOK, DirectoryTypes
<1>2. Times.time = (IF mounted THEN mtime + 1 ELSE 0) /\ Times'.time = (IF mounted' THEN mtime + 1 ELSE 0)
  BY <1>1 DEF Times, DirTime, SteadyInv
<1>3. Times'.time # Times.time
  <2>1. mtime + 1 # 0
    BY <1>1
  <2>2. mounted \in BOOLEAN
    BY DEF TypeOK, DirectoryTypes
  <2>3. CASE mounted
    BY <1>1, <1>2, <2>1, <2>3
  <2>4. CASE ~mounted
    BY <1>1, <1>2, <2>1, <2>4
  <2> QED BY <2>3, <2>4
<1> QED BY <1>1, <1>3 DEF WatchInv, Pending

LEMMA TickWatch ==
  ASSUME TypeOK, SteadyInv, SteadyInv', WatchInv, Tick
  PROVE  /\ WatchInv'
         /\ Pending => Pending' \/ refresh'["watch"] = Started
<1>1. /\ UNCHANGED <<mtime, copying, mounted, library, scanning>>
      /\ aged = {} /\ aged' = copying
      /\ watch' = [seen |-> Times, recheck |-> Recheck(watch.seen.known /\ Times.known /\ watch.seen # Times)]
      /\ (\/ watch.seen.known /\ Times.known /\ watch.seen # Times
          \/ watch.recheck) /\ ~scanning => refresh' = [refresh EXCEPT !["watch"] = Started]
  BY DEF Tick, directory
<1>2. UNCHANGED Times
  BY <1>1 DEF Times, DirTime
<1>3. Times.known /\ Times.time <= mtime + 1
  BY TimesFact DEF TypeOK, SteadyInv
<1>4. /\ watch'.seen = Times'
      /\ watch'.recheck = Recheck(watch.seen.known /\ Times.known /\ watch.seen # Times)
  BY <1>1, <1>2
<1>5. watch.seen # Times => watch'.recheck
  BY <1>3, <1>4 DEF WatchInv, Recheck
<1>6. watch.recheck /\ scanning => watch'.recheck
  BY <1>4 DEF Recheck
<1>7. WatchInv'
  BY <1>1, <1>2, <1>3, <1>4, <1>5 DEF WatchInv, Pending
<1>8. Pending => Pending' \/ refresh'["watch"] = Started
  <2>1. CASE watch.seen # Times
    BY <1>5, <2>1 DEF Pending
  <2>2. CASE watch.recheck /\ scanning
    BY <1>6, <2>2 DEF Pending
  <2>3. CASE watch.recheck /\ ~scanning
    BY <1>1, <2>3, UserFact DEF TypeOK, RefreshTypes
  <2> QED BY <2>1, <2>2, <2>3 DEF Pending
<1> QED BY <1>7, <1>8

LEMMA WatchStep ==
  ASSUME TypeOK, TypeOK', SteadyInv, SteadyInv', WatchInv, Next
  PROVE  WatchInv'
<1>1. CASE \E s \in Refresh : RefreshStep(s)
  BY <1>1, RefreshWatch, WatchSame
<1>2. CASE Tick \/ Mount
  BY <1>2, TickWatch, MountWatch
<1>3. CASE AskScan \/ Reload \/ DeleteFails \/ DeleteRow \/ \E f \in File : AskRemove(f)
  <2>1. UNCHANGED <<watch, library, directory>>
    BY <1>3 DEF AskScan, Reload, Suspend, Replace, Resume, DeleteFails, DeleteRow, AskRemove
  <2>2. WatchStays
    BY <2>1 DEF WatchStays, directory, Times, DirTime
  <2> QED BY <2>2, WatchSame
<1>4. CASE \E f \in File : Arrive(f) \/ Copied(f) \/ Leave(f)
  <2>1. PICK f \in File : Arrive(f) \/ Copied(f) \/ Leave(f)
    BY <1>4
  <2>2. Leave(f) => Leaves(f) /\ mounted /\ UNCHANGED watch
    BY DEF Leave
  <2>3. CASE Copied(f)
    BY <2>3, CopiedWatch
  <2>4. CASE Arrive(f) \/ Leave(f)
    BY <2>2, <2>4, FilesWatch
  <2> QED BY <2>1, <2>3, <2>4
<1>5. CASE \E f \in File : DeleteFile(f)
  <2>1. PICK f \in File : DeleteFile(f)
    BY <1>5
  <2>2. CASE mounted /\ f \in files
    BY <2>1, <2>2, FilesWatch DEF DeleteFile
  <2>3. CASE ~(mounted /\ f \in files)
    <3>1. UNCHANGED <<watch, library, directory>>
      BY <2>1, <2>3 DEF DeleteFile
    <3>2. WatchStays
      BY <3>1 DEF WatchStays, directory, Times, DirTime
    <3> QED BY <3>2, WatchSame
  <2> QED BY <2>2, <2>3
<1> QED BY <1>1, <1>2, <1>3, <1>4, <1>5, SteadySteps

LEMMA RemoveStep ==
  ASSUME TypeOK, SteadyInv, SteadyInv', RemoveInv, Next
  PROVE  RemoveInv'
<1>0. mix'.kinds = mix.kinds
  BY KindsStay
<1>1. CASE UNCHANGED <<remover, files, mounted>>
  BY <1>0, <1>1 DEF RemoveInv
<1>2. ASSUME NEW s \in Refresh, RefreshStep(s)
      PROVE  RemoveInv'
  <2>1. UNCHANGED <<files, mounted>>
    BY <1>2, RefreshWatch DEF directory
  <2>2. remover'.phase = remover.phase /\ remover'.item = remover.item
    <3>1. CASE Sweep(s)
      <4>1. PICK gone : Dropped(gone)
        BY <3>1 DEF Sweep
      <4> QED BY <4>1 DEF Dropped, TypeOK, RowTypes, Removers
    <3>2. CASE ~Sweep(s)
      <4>1. UNCHANGED remover
        BY <1>2, <3>2 DEF RefreshStep, Begin, Scan, Publish, List, SyncBegin, Abort, Upsert
      <4> QED BY <4>1
    <3> QED BY <3>1, <3>2
  <2> QED BY <1>0, <2>1, <2>2 DEF RemoveInv
<1>3. CASE Tick \/ AskScan \/ Reload
  BY <1>1, <1>3 DEF Tick, AskScan, Reload, Suspend, Replace, Resume, directory
<1>4. CASE Mount
  <2>1. "mount" \in mix.kinds
    BY <1>4 DEF Mount, May
  <2>2. UNCHANGED remover /\ "remove" \notin mix.kinds
    BY <1>4, <2>1 DEF Mount, SteadyInv, Steady
  <2> QED BY <1>0, <2>2 DEF RemoveInv
<1>5. CASE DeleteFails \/ DeleteRow
  <2>1. remover'.phase = "idle" /\ UNCHANGED <<files, mounted>>
    BY <1>5 DEF DeleteFails, DeleteRow, RemoverIdle, directory
  <2> QED BY <1>0, <2>1 DEF RemoveInv
<1>6. ASSUME NEW f \in File, Arrive(f) \/ Copied(f) \/ Leave(f)
      PROVE  RemoveInv'
  <2>1. UNCHANGED <<remover, mounted>>
    BY <1>6 DEF Arrive, Copied, Leave, Leaves
  <2>2. files' \cap remover.item \subseteq files \cap remover.item
    BY <1>6 DEF Arrive, Copied, Leave, Leaves
  <2> QED BY <1>0, <2>1, <2>2 DEF RemoveInv
<1>7. ASSUME NEW f \in File, AskRemove(f)
      PROVE  RemoveInv'
  <2>1. /\ remover' = [phase |-> "callback", item |-> {f}, held |-> TRUE]
        /\ "remove" \in mix.kinds /\ UNCHANGED <<files, mounted>>
    BY <1>7 DEF AskRemove, May, directory
  <2> QED BY <1>0, <2>1 DEF RemoveInv
<1>8. ASSUME NEW f \in File, DeleteFile(f)
      PROVE  RemoveInv'
  <2>1. /\ remover.phase = "callback" /\ f \in remover.item
        /\ remover'.phase = "row" /\ remover'.item = remover.item
    BY <1>8 DEF DeleteFile, TypeOK, RowTypes, Removers
  <2>2. mounted /\ remover.item = {f} /\ "remove" \in mix.kinds
    BY <2>1 DEF RemoveInv
  <2>3. f \notin files' /\ UNCHANGED mounted
    BY <1>8, <2>2 DEF DeleteFile, Leaves, directory
  <2> QED BY <1>0, <2>1, <2>2, <2>3 DEF RemoveInv
<1> QED BY <1>2, <1>3, <1>4, <1>5, <1>6, <1>7, <1>8, SteadySteps


-----------------------------------------------------------------------------
(* The step of RestInv.                                                      *)

Sound == CatalogInv /\ SteadyInv /\ WatchInv /\ RemoveInv

\* What a listing of this version found
LEMMA ListingOfNow ==
  ASSUME Sound, mounted, NEW s \in Refresh, L(s).at = version
  PROVE  L(s).found = files \ copying
<1>1. L(s) \in Listings /\ IsList(L(s))
  BY DEF Sound, CatalogInv, TypeOK, RefreshTypes, Refreshes, L, IsList
<1> QED BY <1>1 DEF Sound, CatalogInv, ListInv, SteadyInv

\* A refresh that writes from such a listing is the newest
LEMMA NewestOfNow ==
  ASSUME Sound, NEW s \in Refresh, refresh[s].phase = "upsert", L(s).at = version
  PROVE  newest = version
<1>1. L(s).at <= newest /\ newest <= version
  BY DEF Sound, CatalogInv, WriteInv, RowInv
<1>2. newest \in Nat /\ version \in Nat
  BY DEF Sound, CatalogInv, TypeOK, HistoryTypes, RowTypes
<1> QED BY <1>1, <1>2

LEMMA ComingStays ==
  ASSUME NEW t \in Refresh, Coming(t), refresh'[t] = refresh[t], UNCHANGED <<rows, version>>
  PROVE  Coming(t)'
BY DEF Coming, Writing, L

LEMMA RestStays ==
  ASSUME RestInv, UNCHANGED <<rows, version, files, copying, newest>>, mounted' => mounted,
         tainted => tainted', Pending => Pending',
         \A t \in Refresh : Coming(t) /\ mounted' /\ ~tainted' => Pending' \/ \E u \in Refresh : Coming(u)'
  PROVE  RestInv'
BY DEF RestInv, Done

LEMMA StepComing ==
  ASSUME Sound, SteadyInv', NEW s \in Refresh, NEW t \in Refresh, Coming(t), ~tainted',
         Begin(s) \/ Scan(s) \/ Publish(s) \/ List(s) \/ Abort(s)
  PROVE  Coming(t)'
<1>0. refresh \in [Refresh -> Refreshes] /\ refresh[t] \in Refreshes /\ UNCHANGED <<rows, version>>
  BY DEF Sound, CatalogInv, TypeOK, RefreshTypes, Begin, Scan, Publish, List, Abort
<1>1. CASE t # s
  <2>1. refresh'[t] = refresh[t]
    BY <1>0, <1>1 DEF Begin, Scan, ScanSucceeds, ScanFails, Publish, List, Abort
  <2> QED BY <1>0, <2>1, ComingStays
<1>2. CASE t = s /\ Begin(s)
  BY <1>0, <1>2 DEF Begin, Coming, Refreshes
<1>3. CASE t = s /\ Scan(s)
  <2>1. refresh[s].phase = "scan" /\ refresh[s].lib /\ library
    BY <1>3 DEF Scan, Sound, SteadyInv
  <2>2. CASE ScanSucceeds(s)
    <3>1. refresh' = [refresh EXCEPT ![s] =
            [@ EXCEPT !.phase = "publish", !.gen = 0, !.list = Listing(Found(s), version, TRUE)]]
      BY <2>1, <2>2 DEF ScanSucceeds
    <3>2. /\ refresh'[t].phase = "publish" /\ refresh'[t].doomed = refresh[t].doomed
          /\ refresh'[t].list = Listing(Found(s), version, TRUE)
      BY <1>0, <1>3, <3>1 DEF Refreshes
    <3>3. Listing(Found(s), version, TRUE).at = version
      BY DEF Listing
    <3> QED BY <1>0, <3>2, <3>3 DEF Coming, L
  <2>3. CASE ScanFails(s)
    <3>1. /\ refresh'[t].phase = "publish" /\ refresh'[t].doomed = refresh[t].doomed
          /\ refresh'[t].list = Nothing
      BY <1>0, <1>3, <2>3 DEF ScanFails, Refreshes
    <3> QED BY <1>0, <3>1, NothingFact DEF Coming, L
  <2> QED BY <1>3, <2>2, <2>3 DEF Scan
<1>4. CASE t = s /\ Publish(s)
  <2>1. refresh[s].phase = "publish"
    BY <1>4 DEF Publish, Coming
  <2>2. refresh' = [refresh EXCEPT ![s] = [@ EXCEPT !.phase = "list"]]
    BY <1>4, <2>1 DEF Publish
  <2> QED BY <1>0, <1>4, <2>1, <2>2 DEF Coming, L, Refreshes
<1>5. CASE t = s /\ List(s)
  <2>1. /\ refresh[s].phase = "list" /\ ~(catalog.at < refresh[s].list.at)
        /\ refresh[s].list.at # 0 /\ refresh[s].list.at \in {0, version}
    BY <1>5 DEF List, Coming, L
  <2>2. catalog \in Listings /\ IsList(catalog) /\ catalog.at <= version
    BY DEF Sound, CatalogInv, TypeOK, RefreshTypes, IsList, ListInv
  <2>3. version \in Nat /\ catalog.at \in Nat
    BY <2>2 DEF Sound, CatalogInv, TypeOK, RowTypes, Listings
  <2>4. catalog.at = version
    BY <2>1, <2>2, <2>3
  <2>5. refresh'[t].phase = "sync" /\ refresh'[t].list = catalog /\ refresh'[t].doomed = refresh[t].doomed
    BY <1>0, <1>5 DEF List, Refreshes
  <2> QED BY <1>0, <2>4, <2>5 DEF Coming, L
<1>6. CASE t = s /\ Abort(s)
  BY <1>6 DEF Abort, Coming
<1> QED BY <1>1, <1>2, <1>3, <1>4, <1>5, <1>6

LEMMA QuietRest ==
  ASSUME Sound, SteadyInv', RestInv, NEW s \in Refresh,
         Begin(s) \/ Scan(s) \/ Publish(s) \/ List(s) \/ Abort(s)
  PROVE  RestInv'
<1>1. UNCHANGED <<rows, version, newest>> /\ (tainted => tainted')
  <2>1. CASE Begin(s) \/ Scan(s) \/ Publish(s) \/ Abort(s)
    BY <2>1 DEF Begin, Scan, Publish, Abort, history
  <2>2. CASE List(s)
    BY <2>2 DEF List
  <2> QED BY <2>1, <2>2
<1>2. WatchStays /\ UNCHANGED directory
  BY RefreshWatch DEF Sound, RefreshStep
<1>3. Pending => Pending'
  BY <1>2, WatchSame DEF Sound
<1> QED BY <1>1, <1>2, <1>3, StepComing, RestStays DEF directory

\* A refresh begins to write.  If its listing is of this version the rows will be what it
\* found; if not it is not the one that comes.
LEMMA SyncBeginRest ==
  ASSUME Sound, SteadyInv', RestInv, NEW s \in Refresh, SyncBegin(s)
  PROVE  RestInv'
<1>0. /\ refresh \in [Refresh -> Refreshes] /\ refresh[s] \in Refreshes
      /\ newest \in Nat /\ version \in Nat
  BY DEF Sound, CatalogInv, TypeOK, RefreshTypes, RowTypes, HistoryTypes
<1>1. WatchStays /\ UNCHANGED <<files, copying, mounted, rows, version>> /\ refresh[s].phase = "sync"
  BY RefreshWatch DEF Sound, RefreshStep, SyncBegin, directory
<1>2. refresh[s].lib /\ library
  BY <1>1 DEF Sound, SteadyInv
<1>3. /\ refresh'[s].phase = "upsert" /\ refresh'[s].list = L(s)
      /\ refresh'[s].present = mounted /\ refresh'[s].stale = rows
      /\ refresh'[s].left = L(s).found /\ refresh'[s].doomed = refresh[s].doomed
  <2>1. /\ refresh'[s].phase = "upsert" /\ refresh'[s].list = L(s)
        /\ refresh'[s].present = Reachable(s) /\ refresh'[s].stale = rows
        /\ refresh'[s].left = L(s).found
    BY StepItself DEF Sound, CatalogInv, L
  <2>2. refresh'[s].doomed = refresh[s].doomed
    BY <1>0 DEF SyncBegin, Refreshes
  <2>3. Reachable(s) = mounted
    BY <1>2 DEF Reachable, Registered, Sound, CatalogInv, TypeOK, DirectoryTypes
  <2> QED BY <2>1, <2>2, <2>3
<1>4. ASSUME NEW t \in Refresh, t # s
      PROVE  refresh'[t] = refresh[t]
  BY <1>0, <1>4 DEF SyncBegin
<1>5. CASE L(s).at = version /\ ~refresh[s].doomed
  <2>1. mounted' => Coming(s)'
    BY <1>1, <1>3, <1>5 DEF Coming, Writing, L
  <2> QED BY <2>1 DEF RestInv
<1>6. CASE ~(L(s).at = version /\ ~refresh[s].doomed)
  <2>1. tainted => tainted'
    BY <1>6 DEF SyncBegin, L
  <2>2. ~Coming(s)
    BY <1>1, <1>6 DEF Coming
  <2>3. L(s).at <= version /\ L(s).at \in Nat
    <3>1. L(s) \in Listings /\ IsList(L(s))
      BY <1>0 DEF Refreshes, L, IsList
    <3> QED BY <3>1 DEF Sound, CatalogInv, ListInv, Listings
  <2>4. newest = version => newest' = version
    BY <1>0, <2>3 DEF SyncBegin, L
  <2>5. Pending => Pending'
    BY <1>1, WatchSame DEF Sound
  <2>6. Done => Done'
    BY <1>1, <2>4 DEF Done
  <2>7. \A t \in Refresh : Coming(t) => Coming(t)'
    BY <1>1, <1>4, <2>2, ComingStays
  <2> QED BY <1>1, <2>1, <2>5, <2>6, <2>7 DEF RestInv
<1> QED BY <1>5, <1>6

\* A row is written: unless it is an exception, of a file every listing of this version has
LEMMA UpsertRest ==
  ASSUME Sound, SteadyInv', RestInv, NEW s \in Refresh, NEW f \in File, Upsert(s, f)
  PROVE  RestInv'
<1>1. WatchStays /\ UNCHANGED <<files, copying, mounted>>
  BY RefreshWatch DEF Sound, RefreshStep, directory
<1>2. /\ UNCHANGED <<version, newest>> /\ rows' = rows \cup {f}
      /\ refresh[s].phase = "upsert" /\ f \in refresh[s].left
      /\ tainted' = (tainted \/ L(s).at < newest)
  BY DEF Upsert, Sound, SteadyInv, Late, L
<1>3. newest \in Nat /\ version \in Nat /\ L(s).at \in Nat
  BY DEF Sound, CatalogInv, TypeOK, RefreshTypes, RowTypes, HistoryTypes, Refreshes, Listings, L
<1>4. L(s).at <= newest /\ f \in L(s).found
  BY <1>2 DEF Sound, CatalogInv, WriteInv
<1> SUFFICES ASSUME mounted', ~tainted' PROVE (Pending \/ Done \/ \E t \in Refresh : Coming(t))'
  BY DEF RestInv
<1>5. L(s).at = newest /\ mounted /\ ~tainted
  <2>1. ~tainted /\ ~(L(s).at < newest) /\ mounted
    BY <1>1, <1>2
  <2> QED BY <1>3, <1>4, <2>1
<1>6. newest = version => f \in files \ copying
  BY <1>4, <1>5, ListingOfNow
<1>7. CASE Pending
  BY <1>1, <1>7, WatchSame DEF Sound
<1>8. CASE Done
  <2>1. rows' = rows
    BY <1>2, <1>6, <1>8 DEF Done
  <2> QED BY <1>1, <1>2, <1>8, <2>1 DEF Done
<1>9. ASSUME NEW t \in Refresh, Coming(t)
      PROVE  Coming(t)'
  <2>1. /\ refresh'[t].phase = refresh[t].phase /\ refresh'[t].list = refresh[t].list
        /\ refresh'[t].present = refresh[t].present /\ refresh'[t].doomed = refresh[t].doomed
        /\ refresh'[t].stale = refresh[t].stale \ {f}
        /\ refresh'[t].left = IF t = s THEN refresh[t].left \ {f} ELSE refresh[t].left
    <3>1. TypeOK
      BY DEF Sound, CatalogInv
    <3> QED BY <3>1, UpsertChanges
  <2>2. CASE refresh[t].phase # "upsert"
    BY <1>2, <1>9, <2>1, <2>2 DEF Coming, L
  <2>3. CASE refresh[t].phase = "upsert"
    <3>1. L(t).at = version /\ Writing(t)
      BY <1>9, <2>3 DEF Coming
    <3>2. newest = version
      BY <2>3, <3>1, NewestOfNow
    <3>3. f \in L(t).found
      BY <1>5, <1>6, <3>1, <3>2, ListingOfNow
    <3>4. Writing(t)'
      BY <1>2, <2>1, <3>1, <3>3 DEF Writing, L
    <3> QED BY <1>2, <1>9, <2>1, <2>3, <3>1, <3>4 DEF Coming, L
  <2> QED BY <2>2, <2>3
<1> QED BY <1>5, <1>7, <1>8, <1>9 DEF RestInv

\* Rows are deleted: unless it is an exception, those of no file that is there
LEMMA SweepRest ==
  ASSUME Sound, SteadyInv', RestInv, NEW s \in Refresh, Sweep(s)
  PROVE  RestInv'
<1> DEFINE gone == IF refresh[s].present /\ library THEN refresh[s].stale ELSE {}
<1>1. WatchStays /\ UNCHANGED <<files, copying, mounted>>
  BY RefreshWatch DEF Sound, RefreshStep, directory
<1>2. /\ UNCHANGED <<version, newest>> /\ rows' = rows \ gone
      /\ refresh[s].phase = "upsert" /\ refresh[s].left = {}
      /\ tainted' = (tainted \/ (gone # {} /\ L(s).at < newest))
      /\ refresh' = [t \in Refresh |-> IF t = s THEN Idle ELSE [refresh[t] EXCEPT !.stale = @ \ gone]]
  BY DEF Sweep, Late, L
<1>3. newest \in Nat /\ version \in Nat /\ L(s).at \in Nat
  BY DEF Sound, CatalogInv, TypeOK, RefreshTypes, RowTypes, HistoryTypes, Refreshes, Listings, L
<1>4. L(s).at <= newest /\ L(s).found \cap refresh[s].stale = {} /\ refresh[s].stale \subseteq rows
  BY <1>2 DEF Sound, CatalogInv, WriteInv, RowInv
<1>5. gone \subseteq refresh[s].stale /\ (refresh[s].present => gone = refresh[s].stale)
  BY DEF Sound, SteadyInv
<1> HIDE DEF gone
<1> SUFFICES ASSUME mounted', ~tainted' PROVE (Pending \/ Done \/ \E t \in Refresh : Coming(t))'
  BY DEF RestInv
<1>6. mounted /\ ~tainted /\ (gone # {} => L(s).at = newest)
  <2>1. ~tainted /\ mounted /\ (gone = {} \/ ~(L(s).at < newest))
    BY <1>1, <1>2
  <2> QED BY <1>3, <1>4, <2>1
<1>7. newest = version => gone \cap (files \ copying) = {}
  BY <1>4, <1>5, <1>6, ListingOfNow
<1>8. CASE Pending
  BY <1>1, <1>8, WatchSame DEF Sound
<1>9. CASE Done
  <2>1. rows' = rows
    BY <1>2, <1>4, <1>5, <1>7, <1>9 DEF Done
  <2> QED BY <1>1, <1>2, <1>9, <2>1 DEF Done
<1>10. CASE Coming(s)
  <2>1. L(s).at = version /\ Writing(s)
    BY <1>2, <1>10 DEF Coming
  <2>2. newest = version /\ L(s).found = files \ copying
    BY <1>2, <1>6, <2>1, NewestOfNow, ListingOfNow
  <2>3. rows' = files \ copying
    BY <1>2, <1>4, <1>5, <2>1, <2>2 DEF Writing
  <2>4. CASE copying = {}
    BY <1>1, <1>2, <2>2, <2>3, <2>4 DEF Done
  <2>5. CASE copying # {}
    BY <1>1, <2>5, WatchSame DEF Sound, WatchInv
  <2> QED BY <2>4, <2>5
<1>11. ASSUME NEW t \in Refresh \ {s}, Coming(t)
       PROVE  Coming(t)'
  <2>1. /\ refresh'[t].phase = refresh[t].phase /\ refresh'[t].list = refresh[t].list
        /\ refresh'[t].present = refresh[t].present /\ refresh'[t].doomed = refresh[t].doomed
        /\ refresh'[t].stale = refresh[t].stale \ gone /\ refresh'[t].left = refresh[t].left
    BY <1>2 DEF Sound, CatalogInv, TypeOK, RefreshTypes, Refreshes
  <2>2. CASE refresh[t].phase # "upsert"
    BY <1>2, <1>11, <2>1, <2>2 DEF Coming, L
  <2>3. CASE refresh[t].phase = "upsert"
    <3>1. L(t).at = version /\ Writing(t)
      BY <1>11, <2>3 DEF Coming
    <3>2. newest = version
      BY <2>3, <3>1, NewestOfNow
    <3>3. L(t).found \cap gone = {}
      BY <1>6, <1>7, <3>1, <3>2, ListingOfNow
    <3>4. Writing(t)'
      BY <1>2, <2>1, <3>1, <3>3 DEF Writing, L
    <3> QED BY <1>2, <1>11, <2>1, <2>3, <3>1, <3>4 DEF Coming, L
  <2> QED BY <2>2, <2>3
<1> QED BY <1>6, <1>8, <1>9, <1>10, <1>11 DEF RestInv

LEMMA RefreshRest ==
  ASSUME Sound, SteadyInv', RestInv, NEW s \in Refresh, RefreshStep(s)
  PROVE  RestInv'
BY QuietRest, SyncBeginRest, UpsertRest, SweepRest DEF RefreshStep

\* Changes of the directory are seen; the user's refreshes and those of a reload list them;
\* the row that a removal deletes is of a file that is gone
LEMMA ElseRest ==
  ASSUME Sound, WatchInv', SteadyInv', RestInv,
         \/ Tick \/ AskScan \/ Reload \/ Mount \/ DeleteFails \/ DeleteRow
         \/ \E f \in File : Arrive(f) \/ Copied(f) \/ Leave(f) \/ AskRemove(f) \/ DeleteFile(f)
  PROVE  RestInv'
<1>0. refresh \in [Refresh -> Refreshes] /\ TypeOK /\ TypeOK'
  <2>1. TypeOK
    BY DEF Sound, CatalogInv
  <2>2. Next
    BY DEF Next, Reload
  <2> QED BY <2>1, <2>2, TypeStep DEF TypeOK, RefreshTypes
<1>1. CASE Tick
  <2>1. UNCHANGED <<rows, version, files, copying, newest, mounted, tainted>>
    BY <1>1 DEF Tick, history
  <2>2. refresh["watch"].phase = "idle"
    BY <1>1 DEF Tick
  <2>3. refresh' = refresh \/ refresh' = [refresh EXCEPT !["watch"] = Started]
    BY <1>1 DEF Tick
  <2>4. ASSUME NEW t \in Refresh, Coming(t)
        PROVE  Coming(t)'
    <3>1. t # "watch"
      BY <2>2, <2>4 DEF Coming
    <3>2. refresh'[t] = refresh[t]
      BY <1>0, <2>3, <3>1
    <3> QED BY <2>1, <2>4, <3>2, ComingStays
  <2>5. Pending => Pending' \/ refresh'["watch"] = Started
    BY <1>0, <1>1, TickWatch DEF Sound
  <2>6. refresh'["watch"] = Started => Coming("watch")'
    BY StartedFact DEF Coming
  <2>7. Done => Done'
    BY <2>1 DEF Done
  <2> QED BY <2>1, <2>4, <2>5, <2>6, <2>7, UserFact DEF RestInv
<1>2. CASE AskScan
  <2>1. PICK s \in User : refresh' = Restarted(refresh, s)
    BY <1>2 DEF AskScan
  <2>2. s \in Refresh /\ refresh'[s] = Started
    BY <2>1, UserFact DEF Restarted
  <2>3. Coming(s)'
    BY <2>2, StartedFact DEF Coming
  <2> QED BY <2>2, <2>3 DEF RestInv
<1>3. CASE Replace
  <2>1. refresh'["reload"] = Started
    BY <1>0, <1>3, UserFact DEF Replace, Sound, SteadyInv
  <2>2. Coming("reload")'
    BY <2>1, StartedFact DEF Coming
  <2> QED BY <2>2, UserFact DEF RestInv
<1>4. ASSUME UNCHANGED <<refresh, rows, version, files, copying, newest, mounted, tainted, Times, watch>>
      PROVE  RestInv'
  <2>1. Pending' <=> Pending
    BY <1>4 DEF Pending
  <2>2. \A t \in Refresh : Coming(t) => Coming(t)'
    BY <1>4, ComingStays
  <2> QED BY <1>4, <2>1, <2>2, RestStays
<1>5. CASE Suspend \/ Resume \/ DeleteFails \/ \E f \in File : AskRemove(f)
  <2>1. UNCHANGED <<refresh, rows, version, directory, newest, tainted, watch, library>>
    BY <1>5 DEF Suspend, Resume, DeleteFails, AskRemove, history
  <2> QED BY <1>4, <2>1 DEF directory, Times, DirTime
<1>6. CASE Mount \/ \E f \in File : Arrive(f) \/ Copied(f) \/ Leave(f)
  <2>1. Pending'
    <3>1. CASE Mount
      BY <1>0, <3>1, MountWatch DEF Sound
    <3>2. CASE \E f \in File : Copied(f)
      BY <3>2, CopiedWatch DEF Sound
    <3>3. CASE \E f \in File : Arrive(f) \/ Leave(f)
      BY <1>0, <3>3, FilesWatch DEF Sound, Leave
    <3> QED BY <1>6, <3>1, <3>2, <3>3
  <2> QED BY <2>1 DEF RestInv
<1>7. CASE \E f \in File : DeleteFile(f)
  <2>1. PICK f \in File : DeleteFile(f)
    BY <1>7
  <2>2. CASE mounted /\ f \in files
    <3>1. Leaves(f) /\ UNCHANGED watch
      BY <2>1, <2>2 DEF DeleteFile
    <3>2. Pending'
      BY <1>0, <2>2, <3>1, FilesWatch DEF Sound
    <3> QED BY <3>2 DEF RestInv
  <2>3. CASE ~(mounted /\ f \in files)
    <3>1. UNCHANGED <<refresh, rows, version, directory, newest, tainted, watch, library>>
      BY <2>1, <2>3 DEF DeleteFile
    <3> QED BY <1>4, <3>1 DEF directory, Times, DirTime
  <2> QED BY <2>2, <2>3
<1>8. CASE DeleteRow
  <2> DEFINE gone == IF remover.held THEN remover.item ELSE {}
  <2>1. /\ rows' = rows \ gone /\ remover.phase = "row"
        /\ refresh' = [t \in Refresh |-> [refresh[t] EXCEPT !.stale = @ \ gone]]
        /\ UNCHANGED <<directory, version, library, watch, newest, tainted>>
    BY <1>8 DEF DeleteRow, history
  <2>2. gone \cap files = {}
    BY <2>1 DEF Sound, RemoveInv
  <2> HIDE DEF gone
  <2>3. UNCHANGED <<files, copying, mounted, Times>>
    BY <2>1 DEF directory, Times, DirTime
  <2>4. Pending => Pending'
    BY <2>1, <2>3 DEF Pending
  <2>5. Done => Done'
    BY <2>1, <2>2, <2>3 DEF Done
  <2>6. ASSUME mounted, NEW t \in Refresh, Coming(t)
        PROVE  Coming(t)'
    <3>1. /\ refresh'[t].phase = refresh[t].phase /\ refresh'[t].list = refresh[t].list
          /\ refresh'[t].present = refresh[t].present /\ refresh'[t].doomed = refresh[t].doomed
          /\ refresh'[t].stale = refresh[t].stale \ gone /\ refresh'[t].left = refresh[t].left
      BY <1>0, <2>1 DEF Refreshes
    <3>2. CASE refresh[t].phase # "upsert"
      BY <2>1, <2>6, <3>1, <3>2 DEF Coming, L
    <3>3. CASE refresh[t].phase = "upsert"
      <4>1. L(t).at = version /\ Writing(t)
        BY <2>6, <3>3 DEF Coming
      <4>2. L(t).found \cap gone = {}
        BY <2>2, <2>6, <4>1, ListingOfNow
      <4>3. Writing(t)'
        BY <2>1, <3>1, <4>1, <4>2 DEF Writing, L
      <4> QED BY <2>1, <2>6, <3>1, <3>3, <4>1, <4>3 DEF Coming, L
    <3> QED BY <3>2, <3>3
  <2> QED BY <2>1, <2>3, <2>4, <2>5, <2>6 DEF RestInv
<1> QED BY <1>1, <1>2, <1>3, <1>5, <1>6, <1>7, <1>8 DEF Reload

SoundRest == Sound /\ ScanInv /\ RestInv

LEMMA RestStep == SoundRest /\ [Next]_vars => SoundRest'
<1> SUFFICES ASSUME SoundRest, [Next]_vars PROVE SoundRest'
  OBVIOUS
<1>1. TypeOK /\ CatalogInv' /\ SteadyInv' /\ ScanInv'
  BY CatalogStep, SteadyStep, ScanStep DEF SoundRest, Sound, CatalogInv
<1>2. TypeOK'
  BY <1>1 DEF CatalogInv
<1>3. CASE UNCHANGED vars
  <2>1. WatchInv' /\ RemoveInv'
    BY <1>3 DEF SoundRest, Sound, WatchInv, Pending, RemoveInv, Times, DirTime, vars
  <2>2. RestInv'
    BY <1>3 DEF SoundRest, RestInv, Pending, Done, Coming, Writing, L, Times, DirTime, vars
  <2> QED BY <1>1, <2>1, <2>2 DEF SoundRest, Sound
<1>4. CASE Next
  <2>1. WatchInv' /\ RemoveInv'
    BY <1>1, <1>2, <1>4, WatchStep, RemoveStep DEF SoundRest, Sound
  <2>2. RestInv'
    BY <1>1, <1>4, <2>1, SteadySteps, ElseRest, RefreshRest DEF SoundRest, Sound
  <2> QED BY <1>1, <2>1, <2>2 DEF SoundRest, Sound
<1> QED BY <1>3, <1>4

LEMMA RestInit ==
  ASSUME \A m \in Mixes : Steady(m.kinds), Init
  PROVE  SoundRest
<1>1. CatalogInv /\ ScanInv
  BY CatalogInit, ScanInit
<1>2. Steady(mix.kinds) /\ library
  BY DEF Init, Steady
<1>3. /\ \A s \in Refresh : refresh[s].phase \in {"idle", "begin"}
      /\ refresh["startup"] = Started
  BY <1>2, StartedFact DEF Init, Refresh
<1>4. SteadyInv
  BY <1>2, <1>3 DEF SteadyInv
<1>5. WatchInv
  <2>1. Times.known /\ Times.time = 1
    BY <1>2 DEF Init, Times, DirTime
  <2> QED BY <2>1 DEF Init, WatchInv, Pending
<1>6. RemoveInv
  BY DEF Init, RemoveInv, RemoverIdle
<1>7. RestInv
  <2>1. "startup" \in Refresh /\ Coming("startup")
    BY <1>3, StartedFact DEF Coming, Refresh
  <2> QED BY <2>1 DEF RestInv
<1> QED BY <1>1, <1>4, <1>5, <1>6, <1>7 DEF SoundRest, Sound

LEMMA RestFits ==
  ASSUME SoundRest
  PROVE  CatalogAtRest
<1> SUFFICES ASSUME AtRest PROVE ~scanning /\ (mounted /\ ~tainted => rows = IF library THEN files ELSE {})
  BY DEF CatalogAtRest
<1>1. ~scanning /\ ~Pending /\ library
  BY DEF AtRest, SoundRest, Sound, SteadyInv, ScanInv, Undoomed, Active, Pending
<1>2. \A s \in Refresh : ~Coming(s)
  BY DEF AtRest, Active, Coming
<1> QED BY <1>1, <1>2 DEF SoundRest, RestInv, Done

\* When nothing goes on any more, the database shows exactly the wallpapers of the library,
\* under the exception of CatalogAtRest: files come, are copied and leave, the user removes
\* some, asks for refreshes and installs plugins, and scans fail, in any order and any number
\* of times; the file system comes and goes where nothing is removed.
THEOREM CatalogIsRight ==
  ASSUME \A m \in Mixes : Steady(m.kinds)
  PROVE  Spec => []CatalogAtRest
<1>1. Init => SoundRest
  BY RestInit
<1>2. SoundRest /\ [Next]_vars => SoundRest'
  BY RestStep
<1>3. SoundRest => CatalogAtRest
  BY RestFits
<1> QED BY <1>1, <1>2, <1>3, PTL DEF Spec
=============================================================================
