--------------------------- MODULE PlaylistCursor ---------------------------
(* The data of one playlist session: the cursors over its items.            *)
(* src/src/playback/playlist/cursor.rs and the SessionData half of          *)
(* engine.rs.  A session holds one shared cursor, used while the session is *)
(* synchronized, and one cursor per target, used while it is not.  Each     *)
(* operation runs under the session's lock, so it is one action here.       *)
(*                                                                          *)
(* The xorshift generator is a free choice of an order or of an item.       *)
(* Items of a playlist are distinct.  The indices pos and order_pos of the  *)
(* code are not kept: wherever they are read they are the places of the     *)
(* current item in items and in order.                                      *)
EXTENDS Naturals, Sequences, FiniteSets, SequencesExt

CONSTANTS TargetId,            \* displays and canvases that show the playlist
          SessionDefinitions,  \* the definitions it is edited to: [mode, sync, items]
          None                 \* no current item

ASSUME DefinitionsAssumption ==
  \A d \in SessionDefinitions :
    /\ d.mode \in {"sequential", "random", "shuffle"} /\ d.sync \in BOOLEAN
    /\ d.items \in Seq(ToSet(d.items)) /\ IsInjective(d.items) /\ None \notin ToSet(d.items)

VARIABLES definition,      \* SessionData.definition
          shared,          \* SessionData.synchronized_cursor
          targets          \* SessionData.targets, a function on the targets present

cursorVars == <<definition, shared, targets>>

----------------------------------------------------------------------------
(* One cursor.  `order` is the shuffled order, empty in the other modes;    *)
(* `round` is history, not state of the code: what forward steps have shown *)
(* since the round began, in the order they showed it.                      *)

NewCursors(d) ==
  {[order |-> o, current |-> None, round |-> <<>>] :
     o \in IF d.mode = "shuffle" THEN SetToSeqs(ToSet(d.items)) ELSE {<<>>}}

At(c, item) == [c EXCEPT !.current = item, !.round = <<item>>]

Place(s, item) == CHOOSE i \in 1..Len(s) : s[i] = item

(* set_current: refuses an item that is not listed. *)
SetCurrent(c, d, item) ==
  IF item \notin ToSet(d.items) \/ item = c.current THEN c ELSE At(c, item)

(* first *)
Firsts(c, d) ==
  IF d.items = <<>> THEN {c}
  ELSE CASE d.mode = "shuffle"    -> {At(c, c.order[1])}
         [] d.mode = "sequential" -> {At(c, d.items[1])}
         [] d.mode = "random"     -> {At(c, i) : i \in ToSet(d.items)}

(* next, forward (+1) or backward (-1): in shuffle mode reaching place 1    *)
(* begins a round in a new order.                                           *)
Moved(s, item, forward) ==
  LET n == Len(s)
      p == IF item = None THEN 1 ELSE Place(s, item)
  IN  IF forward THEN (p % n) + 1 ELSE ((p + n - 2) % n) + 1

Nexts(c, d, forward) ==
  IF d.items = <<>> THEN {c}
  ELSE CASE d.mode = "sequential" ->
              {At(c, d.items[Moved(d.items, c.current, forward)])}
         [] d.mode = "random" ->
              {At(c, i) : i \in IF Len(d.items) = 1 THEN ToSet(d.items)
                                ELSE ToSet(d.items) \ {c.current}}
         [] d.mode = "shuffle" ->
              LET p == Moved(c.order, c.current, forward)
              IN  IF p = 1
                  THEN {At([c EXCEPT !.order = o], o[1]) : o \in SetToSeqs(ToSet(d.items))}
                  ELSE {[At(c, c.order[p]) EXCEPT
                           !.round = IF forward THEN Append(c.round, c.order[p]) ELSE @]}

(* replace_items: a new mode starts a new cursor; otherwise the order keeps *)
(* the items that stay, one after the other as they were, and appends the   *)
(* new ones shuffled.  There is one sequence of those that stay.            *)
Kept(s, items) ==
  {r \in SetToSeqs(ToSet(s) \cap ToSet(items)) :
     \A i, j \in DOMAIN r : i < j => Place(s, r[i]) < Place(s, r[j])}

(* Mutant: an edit shuffles the whole list again and only finds the current *)
(* item in it.                                                              *)
Reshuffled(c, old, d) ==
  {[n EXCEPT !.current = IF c.current \in ToSet(d.items) THEN c.current ELSE None,
             !.round   = r] : n \in NewCursors(d), r \in Kept(c.round, d.items)}

Replaced(c, old, d) ==
  IF old.mode # d.mode
  THEN {SetCurrent(n, d, c.current) : n \in NewCursors(d)}
  ELSE {[order   |-> IF d.mode = "shuffle" THEN e[1] \o e[3] ELSE <<>>,
         current |-> IF c.current \in ToSet(d.items) THEN c.current ELSE None,
         round   |-> e[2]] :
          e \in Kept(c.order, d.items) \X Kept(c.round, d.items)
                  \X SetToSeqs(ToSet(d.items) \ ToSet(old.items))}

----------------------------------------------------------------------------
(* The session.                                                             *)

Synchronized(d) == d.mode = "sequential" \/ d.sync

Present == DOMAIN targets

Show(ts, d, item) == [t \in DOMAIN ts |-> SetCurrent(ts[t], d, item)]

(* upsert_target for a target that is not yet there. *)
With(ts, t, c) == [u \in DOMAIN ts \cup {t} |-> IF u = t THEN c ELSE ts[u]]

Starts(c, d, resume) ==
  IF resume \in ToSet(d.items) THEN {SetCurrent(c, d, resume)} ELSE Firsts(c, d)

(* Mutant: a target joins a synchronized session at its own resume item. *)
JoinedApart(t, resume, d, sh, ts) ==
  UNION {{<<IF sh.current = None THEN SetCurrent(sh, d, n.current) ELSE sh,
            With(ts, t, n)>> : n \in Starts(c, d, resume)} : c \in NewCursors(d)}

Joined(t, resume, d, sh, ts) ==
  UNION {
    IF Synchronized(d)
    THEN {<<s, With(ts, t, SetCurrent(c, d, s.current))>> :
            s \in IF sh.current = None THEN Starts(sh, d, resume) ELSE {sh}}
    ELSE {<<IF sh.current = None THEN SetCurrent(sh, d, n.current) ELSE sh,
            With(ts, t, n)>> : n \in Starts(c, d, resume)}
      : c \in NewCursors(d)}

(* reconfigure *)
PreviousShared ==
  IF shared.current # None \/ Present = {} THEN shared.current
  ELSE targets[CHOOSE t \in Present : TRUE].current

Invalid(ts) == {t \in DOMAIN ts : ts[t].current = None}

Reconfigured(d) ==
  LET valid == PreviousShared \in ToSet(d.items)
      shareds == UNION {IF valid THEN {SetCurrent(s, d, PreviousShared)} ELSE Firsts(s, d) :
                          s \in Replaced(shared, definition, d)}
      moved == {f \in [Present -> UNION {Replaced(targets[t], definition, d) : t \in Present}] :
                  \A t \in Present : f[t] \in Replaced(targets[t], definition, d)}
      Repaired(f) == {g \in [Present -> UNION {{f[t]} \cup Firsts(f[t], d) : t \in Present}] :
                        \A t \in Present : IF t \in Invalid(f) THEN g[t] \in Firsts(f[t], d)
                                                               ELSE g[t] = f[t]}
  IN  UNION {UNION {{<<s, IF Synchronized(d) /\ (~valid \/ Invalid(f) # {}) /\ s.current # None
                          THEN Show(g, d, s.current) ELSE g>> :
                       g \in Repaired(f)} : f \in moved} : s \in shareds}

----------------------------------------------------------------------------
Resumes == {None} \cup UNION {ToSet(d.items) : d \in SessionDefinitions}

(* A session begins with no target; activate gives it its first ones. *)
CursorInit ==
  /\ definition \in SessionDefinitions
  /\ shared \in NewCursors(definition)
  /\ targets = <<>>

(* activate: a changed definition is taken first, then the target joins.    *)
(* For a target that is there already it does what Rebuild does.            *)
Activate(t, resume, d) ==
  /\ t \notin Present
  /\ \E r \in IF d = definition THEN {<<shared, targets>>} ELSE Reconfigured(d) :
       \E j \in Joined(t, resume, d, r[1], r[2]) : shared' = j[1] /\ targets' = j[2]
  /\ definition' = d

(* attach: a display that comes back joins the session as it is. *)
Attach(t, resume) ==
  /\ t \notin Present
  /\ Present # {}
  /\ \E j \in Joined(t, resume, definition, shared, targets) :
       shared' = j[1] /\ targets' = j[2]
  /\ UNCHANGED definition

(* remove_display; the last target takes the session with it, and the next *)
(* activation makes another one.                                           *)
Leave(t) ==
  /\ t \in Present
  /\ targets' = [u \in Present \ {t} |-> targets[u]]
  /\ IF Present = {t} THEN definition' \in SessionDefinitions /\ shared' \in NewCursors(definition')
                      ELSE UNCHANGED <<definition, shared>>

(* step_assignments, by the rotator (forward) or by the user. *)
Step(forward) ==
  /\ Present # {}
  /\ definition.items # <<>>
  /\ IF Synchronized(definition)
     THEN \E s \in Nexts(shared, definition, forward) :
            shared' = s /\ targets' = Show(targets, definition, s.current)
     ELSE /\ targets' \in
               {f \in [Present -> UNION {Nexts(targets[t], definition, forward) : t \in Present}] :
                  \A t \in Present : f[t] \in Nexts(targets[t], definition, forward)}
          /\ UNCHANGED shared
  /\ UNCHANGED definition

(* jump_to *)
Jump(item) ==
  /\ Present # {}
  /\ item \in ToSet(definition.items)
  /\ shared' = SetCurrent(shared, definition, item)
  /\ targets' = Show(targets, definition, item)
  /\ UNCHANGED definition

(* rebuild and refresh: the definition was edited, or its query answers anew. *)
Rebuild(d) ==
  /\ Present # {}
  /\ d # definition
  /\ \E r \in Reconfigured(d) : shared' = r[1] /\ targets' = r[2]
  /\ definition' = d

CursorNext ==
  \/ \E t \in TargetId, resume \in Resumes, d \in SessionDefinitions : Activate(t, resume, d)
  \/ \E t \in TargetId, resume \in Resumes : Attach(t, resume)
  \/ \E t \in TargetId : Leave(t)
  \/ \E forward \in BOOLEAN : Step(forward)
  \/ \E item \in Resumes : Jump(item)
  \/ \E d \in SessionDefinitions : Rebuild(d)

CursorSpec == CursorInit /\ [][CursorNext]_cursorVars

----------------------------------------------------------------------------
(* Whatever edits, joins and leaves a session goes through, every target    *)
(* points at a listed item (only an empty, smart playlist shows nothing),   *)
(* and a shuffled round shows no item twice: replace_items keeps the part   *)
(* of the order already shown.                                              *)
Listed(t) ==
  IF definition.items = <<>> THEN targets[t].current = None
  ELSE targets[t].current \in ToSet(definition.items)
Fair(c) == IsInjective(c.round)
RoundFair == Fair(shared) /\ \A t \in Present : Listed(t) /\ Fair(targets[t])

(* Targets of a synchronized session that agree go on agreeing: no step,    *)
(* jump, join, leave or edit makes them differ.  (Making a session          *)
(* synchronized does not yet bring its targets together: the next step does.)*)
InSync == \A t \in Present : targets[t].current = shared.current
KeepsSync == InSync /\ Synchronized(definition') => InSync'
StaysInSync == [][KeepsSync]_cursorVars
=============================================================================
