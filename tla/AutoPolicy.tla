----------------------------- MODULE AutoPolicy -----------------------------
(* When wallpapers pause, stop or are muted by themselves:                  *)
(* routing/auto_replay.rs, routing/window_observation.rs and                *)
(* router/auto_policy.rs, with the stop of links of router/lifecycle.rs.    *)
(*                                                                          *)
(* Facts (windows, the session, power) are written under one lock section,  *)
(* and every writer then refreshes the policy in another: all the rules are *)
(* evaluated, a rule that no longer applies is kept for the resume delay,   *)
(* and its deadline is scheduled.  Which links are enabled follows in       *)
(* further sections.  A task is the list of sections it has still to run.   *)
(* That a delay passes is a step, so there is no clock.                     *)
EXTENDS Naturals, Sequences, FiniteSets

CONSTANTS Desktop, LockScreen, \* displays, by their role
          Legacy,              \* clients that cannot exclude windows
          Renderer,
          Requester,           \* concurrent requests and sources of facts
          Policies,            \* policies that may be set: [action, all], by condition
          Mixes                \* [kinds, changes]: what changes together in one
                               \* behaviour, and the bound on how often

AnyDisplay == Desktop \cup LockScreen
WindowCondition == {"fullscreen"}
GlobalCondition == {"locked", "battery"}
Condition == WindowCondition \cup GlobalCondition
Session == "session"                   \* Source::Global
Source == AnyDisplay \cup {Session}
Listener == "deadlines"
Task == Requester \cup AnyDisplay \cup {Listener}

VARIABLES kinds, changes,  \* what changes, and how often it still may
          settings,        \* [policy, exclude]: are some windows to be disregarded?
          facts,           \* global conditions that hold
          desktop,         \* window on each display: "none", "plain", or one "listed"
                           \* by the exclusions
          client,          \* [gen, exclude] that each client last received
          toClient, fromClient,
          observation,     \* window_observation: [gen, exclude], gen is both desired
                           \* and, once the client has answered, applied
          flags,           \* displays whose last_flags say fullscreen
          rules,           \* requested contribution and resume_at of each rule
          timer,           \* deadline of each source: "off", "on", or "fired" with the
                           \* current resume_token
          effects,         \* auto_effects: [stop, pause, mute], on all displays
          paused, applied, \* displays with auto_paused, with stop_applied
          stoppedRenderers,\* auto_stopped_renderers
          manual,          \* manual_stopped
          link,            \* of each display: [to, on]
          task

world == <<kinds, changes, settings, facts, desktop, client>>
wire == <<toClient, fromClient>>
inputs == <<observation, flags, manual>>
policyVars == <<rules, timer, effects, paused>>
stops == <<applied, stoppedRenderers>>
vars == <<world, wire, inputs, policyVars, stops, link, task>>

NoRule == [action |-> "none", all |-> FALSE, at |-> "none"]
NoLink == [to |-> {}, on |-> FALSE]
Gone == [to |-> {}, on |-> TRUE]       \* the display has left
Present == {d \in AnyDisplay : link[d] # Gone}

Init ==
  /\ \E m \in Mixes : kinds = m.kinds /\ changes = m.changes
  /\ settings \in [policy : Policies, exclude : {FALSE}]
  /\ facts = {}
  /\ desktop = [d \in AnyDisplay |-> "none"]
  /\ client = [d \in AnyDisplay |-> [gen |-> 0, exclude |-> FALSE]]
  /\ toClient = [d \in AnyDisplay |-> <<>>] /\ fromClient = [d \in AnyDisplay |-> <<>>]
  /\ observation = [d \in AnyDisplay |-> [gen |-> 0, exclude |-> FALSE]]
  /\ flags = {}
  /\ rules = [s \in Source |-> [c \in Condition |-> NoRule]]
  /\ timer = [s \in Source |-> "off"]
  /\ effects = [stop |-> FALSE, pause |-> FALSE, mute |-> FALSE]
  /\ paused = {} /\ applied = {} /\ stoppedRenderers = {} /\ manual = FALSE
  /\ link \in [AnyDisplay -> {[to |-> {r}, on |-> TRUE] : r \in Renderer}]
  /\ task = [t \in Task |-> <<>>]

----------------------------------------------------------------------------
(* The windows and the clients that observe them (external).                *)

Sees(d, w, excluding) == w = "plain" \/ (w = "listed" /\ ~excluding)

Report(d, w, c) == [gen |-> c.gen, fullscreen |-> Sees(d, w, c.exclude /\ d \notin Legacy)]

WindowChanges(d) ==
  /\ "window" \in kinds /\ changes > 0 /\ d \in Present
  /\ \E w \in {"none", "plain", "listed"} \ {desktop[d]} :
       /\ desktop' = [desktop EXCEPT ![d] = w]
       /\ fromClient' = [fromClient EXCEPT ![d] = Append(@, Report(d, w, client[d]))]
  /\ changes' = changes - 1
  /\ UNCHANGED <<kinds, settings, facts, client, toClient, inputs, policyVars, stops, link, task>>

ClientConfigures(d) ==
  /\ toClient[d] # <<>> /\ d \in Present
  /\ client' = [client EXCEPT ![d] = Head(toClient[d])]
  /\ toClient' = [toClient EXCEPT ![d] = Tail(@)]
  /\ fromClient' = [fromClient EXCEPT ![d] = Append(@, Report(d, desktop[d], client'[d]))]
  /\ UNCHANGED <<kinds, changes, settings, facts, desktop, inputs, policyVars, stops, link, task>>

----------------------------------------------------------------------------
(* Writers of facts and settings.                                           *)

\* State::reconcile: the exclusions a client can honour, and a generation for each change
Excludes(d) == settings.exclude /\ d \in Desktop \ Legacy
Reconciled(d) ==
  IF observation[d].exclude = Excludes(d) THEN observation[d]
  ELSE [gen |-> observation[d].gen + 1, exclude |-> Excludes(d)]

Reconcile(ds) ==
  /\ observation' = [d \in AnyDisplay |-> IF d \in ds THEN Reconciled(d) ELSE observation[d]]
  /\ toClient' = [d \in AnyDisplay |-> IF observation'[d] = observation[d] THEN toClient[d]
                                    ELSE Append(toClient[d], observation'[d])]

\* update_window_observation, and update_display_window_state for legacy clients
Observed(d) ==
  /\ task[d] = <<>> /\ fromClient[d] # <<>> /\ d \in Present
  /\ fromClient' = [fromClient EXCEPT ![d] = Tail(@)]
  /\ Reconcile({d})
  /\ IF Head(fromClient[d]).gen = observation'[d].gen
       THEN /\ flags' = IF Head(fromClient[d]).fullscreen /\ d \in Desktop THEN flags \cup {d}
                        ELSE flags \ {d}
            /\ task' = [task EXCEPT ![d] = <<"refresh">>]
       ELSE UNCHANGED <<flags, task>>
  /\ UNCHANGED <<world, manual, policyVars, stops, link>>

Change(t, kind, sections) ==
  /\ task[t] = <<>> /\ kind \in kinds /\ changes > 0
  /\ changes' = changes - 1
  /\ task' = [task EXCEPT ![t] = sections]

\* update_session_state, update_power_state
FactChanges(t) ==
  /\ Change(t, "fact", <<"refresh">>)
  /\ \E c \in GlobalCondition : facts' = IF c \in facts THEN facts \ {c} ELSE facts \cup {c}
  /\ UNCHANGED <<kinds, settings, desktop, client, wire, inputs, policyVars, stops, link>>

\* The settings are changed, and resync_auto_replay follows
SettingsChange(t) ==
  /\ \/ /\ Change(t, "policy", <<"reset">>)
        /\ \E p \in Policies \ {settings.policy} : settings' = [settings EXCEPT !.policy = p]
     \/ /\ Change(t, "exclude", <<"reset">>)
        /\ settings' = [settings EXCEPT !.exclude = ~@]
  /\ UNCHANGED <<kinds, facts, desktop, client, wire, inputs, policyVars, stops, link>>

\* set_manual_stop
SetManualStop(t) ==
  /\ Change(t, "manual", <<"activate", "reconcile">>)
  /\ manual' = ~manual
  /\ UNCHANGED <<kinds, settings, facts, desktop, client, wire, observation, flags, policyVars,
                 stops, link>>

\* apply_assignment and relink_displays_to, clear_display_assignments
Assign(t) ==
  /\ Change(t, "assign", <<"reconcile">>)
  /\ \E d \in Present :
       \/ \E r \in Renderer : link' = [link EXCEPT ![d] =
            [to |-> {r}, on |-> ~manual /\ ~effects.stop /\ d \notin applied]]
       \/ link[d] # NoLink /\ link' = [link EXCEPT ![d] = NoLink]
  /\ UNCHANGED <<kinds, settings, facts, desktop, client, wire, inputs, policyVars, stops>>

\* unregister_display
Leave(t) ==
  /\ Change(t, "leave", <<"cancel", "refresh", "reconcile">>)
  /\ \E d \in Present :
       /\ task[d] = <<>>
       /\ link' = [link EXCEPT ![d] = Gone]
       /\ flags' = flags \ {d} /\ paused' = paused \ {d} /\ applied' = applied \ {d}
       /\ rules' = [rules EXCEPT ![d] = [c \in Condition |-> NoRule]]
       /\ desktop' = [desktop EXCEPT ![d] = "none"]
       /\ toClient' = [toClient EXCEPT ![d] = <<>>] /\ fromClient' = [fromClient EXCEPT ![d] = <<>>]
  /\ UNCHANGED <<kinds, settings, facts, client, observation, manual, timer, effects,
                 stoppedRenderers>>

CancelDeadline(t) ==
  /\ task[t] # <<>> /\ Head(task[t]) = "cancel"
  /\ timer' = [s \in Source |-> IF s = Session \/ s \in Present THEN timer[s] ELSE "off"]
  /\ task' = [task EXCEPT ![t] = Tail(@)]
  /\ UNCHANGED <<world, wire, inputs, rules, effects, paused, stops, link>>

----------------------------------------------------------------------------
(* refresh_auto_policy.                                                     *)

Holds(s, c) ==
  IF s = Session THEN c \in GlobalCondition \cap facts ELSE c \in WindowCondition /\ s \in flags

Contribution(s, c) ==
  IF Holds(s, c) THEN [action |-> settings.policy.action[c], all |-> settings.policy.all[c], at |-> "none"]
  ELSE NoRule

\* State::update, for one rule
Updated(rule, now, reset) ==
  IF reset \/ now.action # "none" THEN now
  ELSE IF rule.action = "none" THEN rule
  ELSE IF rule.at = "over" THEN NoRule
  ELSE [rule EXCEPT !.at = "wait"]

Asks(rs, s, action, all) == \E c \in Condition : rs[s][c].action = action /\ rs[s][c].all = all

\* effects_for, of the rules rs, and their merge over the displays
StopsAll(rs) == \E s \in Source : Asks(rs, s, "stop", TRUE)
StopsLocal(rs, d) == Asks(rs, d, "stop", FALSE)
Mutes(rs) == \E s \in Source, all \in BOOLEAN : Asks(rs, s, "mute", all)
PausesAll(rs, d) ==
  \E s \in Source, c \in Condition :
    /\ rs[s][c].action = "pause" /\ rs[s][c].all
    /\ d \in LockScreen => c \notin WindowCondition \cup {"locked"}
PausesLocal(rs, d) == d \in Desktop /\ Asks(rs, d, "pause", FALSE)
AutoPaused(rs, d) == ~StopsAll(rs) /\ (PausesAll(rs, d) \/ PausesLocal(rs, d))

Effects(rs) ==
  [stop |-> StopsAll(rs), mute |-> Mutes(rs), pause |-> \E s \in Source : Asks(rs, s, "pause", TRUE)]

Waiting(rs, s) == \E c \in Condition : rs[s][c].at # "none"

\* Mutant: a deadline that is scheduled keeps its old token, so its event is stale
ScheduledOnce(s) == IF Waiting(rules', s) /\ timer[s] = "off" THEN "on" ELSE "off"

\* schedule_auto_resume: the token is new, so an event that has fired is stale
Scheduled(s) == IF Waiting(rules', s) THEN "on" ELSE "off"

Refresh(t) ==
  /\ task[t] # <<>> /\ Head(task[t]) \in {"refresh", "reset"}
  /\ Reconcile(Present)
  /\ rules' = [s \in Source |-> [c \in Condition |->
       IF s \in AnyDisplay \ Present THEN NoRule
       ELSE Updated(rules[s][c], Contribution(s, c), Head(task[t]) = "reset")]]
  /\ timer' = [s \in Source |-> IF s \in AnyDisplay \ Present THEN timer[s] ELSE Scheduled(s)]
  /\ effects' = Effects(rules')
  /\ paused' = {d \in Present : AutoPaused(rules', d)}
  /\ LET changed == \/ effects' # effects \/ paused' # paused
                    \/ applied # {d \in Present : effects'.stop \/ StopsLocal(rules', d)}
     IN  task' = [task EXCEPT ![t] = IF changed THEN <<"reconcile">> \o Tail(@) ELSE Tail(@)]
  /\ UNCHANGED <<world, fromClient, flags, manual, stops, link>>

\* A resume delay passes, and the scheduler reports it
DelayPasses(s) ==
  /\ \E c \in Condition : rules[s][c].at = "wait" /\ rules' = [rules EXCEPT ![s][c].at = "over"]
  /\ UNCHANGED <<world, wire, inputs, timer, effects, paused, stops, link, task>>

DeadlineFires(s) ==
  /\ timer[s] = "on" /\ \E c \in Condition : rules[s][c].at = "over"
  /\ timer' = [timer EXCEPT ![s] = "fired"]
  /\ UNCHANGED <<world, wire, inputs, rules, effects, paused, stops, link, task>>

\* finish_auto_replay_resume
FinishResume(s) ==
  /\ timer[s] = "fired" /\ task[Listener] = <<>>
  /\ timer' = [timer EXCEPT ![s] = "off"]
  /\ task' = [task EXCEPT ![Listener] = IF Waiting(rules, s) THEN <<"refresh">> ELSE <<>>]
  /\ UNCHANGED <<world, wire, inputs, rules, effects, paused, stops, link>>

----------------------------------------------------------------------------
(* reconcile_lifecycle, apply_auto_stop_links and                           *)
(* reconcile_assignment_activation, as far as links go.                     *)

\* auto_stops_renderer
StopsRenderer(r) == effects.stop \/ \E d \in Present : link[d].to = {r} /\ StopsLocal(rules, d)

\* Mutant: links are left alone when no display asks for a stop by itself
ReconcileUnasked(t) ==
  /\ task[t] # <<>> /\ Head(task[t]) = "reconcile"
  /\ LET stopping == effects.stop \/ \E d \in Present : d \in applied \/ StopsLocal(rules, d)
     IN  task' = [task EXCEPT ![t] = IF stopping THEN <<"apply", "activate">> \o Tail(@) ELSE Tail(@)]
  /\ UNCHANGED <<world, wire, inputs, policyVars, stops, link>>

ReconcileLifecycle(t) ==
  /\ task[t] # <<>> /\ Head(task[t]) = "reconcile"
  /\ LET stopping == \/ effects.stop \/ stoppedRenderers # {}
                     \/ \E d \in Present : d \in applied \/ StopsLocal(rules, d)
     IN  task' = [task EXCEPT ![t] = IF stopping THEN <<"apply", "activate">> \o Tail(@) ELSE Tail(@)]
  /\ UNCHANGED <<world, wire, inputs, policyVars, stops, link>>

ApplyAutoStop(t) ==
  /\ task[t] # <<>> /\ Head(task[t]) = "apply"
  /\ stoppedRenderers' = {r \in Renderer : StopsRenderer(r)}
  /\ applied' = {d \in Present : effects.stop \/ StopsLocal(rules, d)}
  /\ task' = [task EXCEPT ![t] = Tail(@)]
  /\ UNCHANGED <<world, wire, inputs, policyVars, link>>

Activate(t) ==
  /\ task[t] # <<>> /\ Head(task[t]) = "activate"
  /\ link' = [d \in AnyDisplay |->
       IF link[d].to = {} THEN link[d]
       ELSE [link[d] EXCEPT !.on = /\ ~manual /\ ~effects.stop /\ d \notin applied
                                   /\ \A r \in link[d].to : ~StopsRenderer(r)]]
  /\ task' = [task EXCEPT ![t] = Tail(@)]
  /\ UNCHANGED <<world, wire, inputs, policyVars, stops>>

----------------------------------------------------------------------------
Next ==
  \/ \E d \in AnyDisplay : WindowChanges(d) \/ ClientConfigures(d) \/ Observed(d)
  \/ \E t \in Requester :
       FactChanges(t) \/ SettingsChange(t) \/ SetManualStop(t) \/ Assign(t) \/ Leave(t)
  \/ \E t \in Task :
       CancelDeadline(t) \/ Refresh(t) \/ ReconcileLifecycle(t) \/ ApplyAutoStop(t) \/ Activate(t)
  \/ \E s \in Source : DelayPasses(s) \/ DeadlineFires(s) \/ FinishResume(s)

Spec == Init /\ [][Next]_vars

----------------------------------------------------------------------------
\* Nothing is under way and no resume delay is running
AtRest ==
  /\ \A t \in Task : task[t] = <<>>
  /\ \A d \in AnyDisplay : toClient[d] = <<>> /\ fromClient[d] = <<>>
  /\ \A s \in Source : timer[s] = "off"

Rules(s, c) ==
  LET holds == IF s = Session THEN c \in GlobalCondition \cap facts
               ELSE c \in WindowCondition /\ s \in Desktop /\ Sees(s, desktop[s], Excludes(s))
  IN  IF holds THEN [action |-> settings.policy.action[c], all |-> settings.policy.all[c]]
      ELSE [action |-> "none", all |-> FALSE]
AskedFor == [s \in Source |-> [c \in Condition |-> Rules(s, c)]]

(* In the end the policy has the effects that the windows, the session and  *)
(* the settings ask for, and no other: none is lost with an observation     *)
(* that is refused for its old exclusions, and none is kept for ever        *)
(* because its deadline was missed, replaced or cancelled.                  *)
EffectsAtRest ==
  AtRest =>
    /\ effects = Effects(AskedFor)
    /\ paused = {d \in Present : AutoPaused(AskedFor, d)}

(* In the end a link is enabled exactly if neither the user nor the policy  *)
(* stops it: the automatic stop of one display reaches all displays of its  *)
(* renderer, and ends with it, with its assignment and with the display.    *)
LinksAtRest ==
  AtRest => \A d \in Present : link[d].to # {} =>
    (link[d].on <=>
       /\ ~manual /\ ~StopsAll(AskedFor)
       /\ \A e \in Present : link[e].to = link[d].to => ~StopsLocal(AskedFor, e))
=============================================================================
