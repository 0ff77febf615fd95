--------------------------- MODULE MessageRouting ---------------------------
(***************************************************************************)
(* Who gets which part of a message: the participants of a thread and      *)
(* their mention handles (core/src/thread_store.rs), and the routing of    *)
(* send_thread_message (server/src/app.rs:93-511 and 1669-1827).           *)
(*                                                                         *)
(* A handle is a name and the numbers appended to make it unique: codex-2  *)
(* is <<codex, 2>>, whether it was given or made; a number above 999       *)
(* stands for the uuid that unique_mention_handle then appends.  A message *)
(* is a sequence of tokens, each a mention or a word.  What the code cuts  *)
(* out of the string, trims and joins is the set of the tokens' positions. *)
(* Lists of ids are sets; the order of the routes is that of their leads,  *)
(* and it matters: handle_prompt refuses a session that has a prompt out,  *)
(* whose agent is dead, or that was closed, so a participant of several    *)
(* routes may get the first of them only.                                  *)
(***************************************************************************)
EXTENDS Naturals, Sequences, FiniteSets

CONSTANTS Agents,      \* agent ids, in the form of canonical_mention_handle
          Profiles,    \* handles made of display names, canonical too
          Mentions,    \* handles that messages mention
          Word,        \* any other token
          NotGiven,    \* no explicit targets
          MaxAdds,     \* bound: participants that are added
          MaxExplicit, \* bound: explicit targets of a message
          MaxTokens    \* bound: tokens of a message

ASSUME RoutingAssumption ==
    /\ Profiles \subseteq Seq(Agents \cup Nat)
    /\ MaxAdds \in Nat /\ MaxExplicit \in Nat /\ MaxTokens \in Nat
    /\ \A ids \in SUBSET (0 .. MaxAdds) : ids # NotGiven

VARIABLES people,   \* the agent participants of the thread, by their ids
          added,    \* participants added so far
          message,  \* the message that was sent last, or << >>
          targets,  \* the explicit target_participant_ids of it, or NotGiven
          outcome,  \* "sent" or the error it was refused with
          journal,  \* target_participant_ids of its thread_message event
          prompts,  \* the calls of handle_prompt that led to a prompt
          free      \* whose session took the first call it got

routing_vars == <<people, added, message, targets, outcome, journal, prompts, free>>

User == 0                            \* the id of the human participant
Person(agent, handle) == [agent |-> agent, handle |-> handle]
Texts == UNION {[1 .. n -> Mentions \cup {Word}] : n \in 1 .. MaxTokens}

RoutingInit == /\ people = [n \in {} |-> NotGiven]
               /\ added = 0
               /\ message = <<>> /\ targets = NotGiven /\ outcome = "none"
               /\ journal = {} /\ prompts = {} /\ free = {}

-----------------------------------------------------------------------------
(* Participants. *)

(* effective_mention_handle of these participants. *)
HandlesOf(ids) == {people[n].handle : n \in ids}

(* Mutant: the suffix is not looked up again. *)
FirstSuffix(taken, preferred) ==
    IF preferred \in taken THEN Append(preferred, 2) ELSE preferred

(* unique_mention_handle: as preferred, or with the least free suffix. *)
UniqueMentionHandle(taken, preferred) ==
    LET least == CHOOSE k \in 2 .. Cardinality(taken) + 2 :
                     /\ Append(preferred, k) \notin taken
                     /\ \A j \in 2 .. k - 1 : Append(preferred, j) \in taken
    IN  IF preferred \in taken THEN Append(preferred, least) ELSE preferred

(* What was sent before is forgotten, to keep the states few. *)
ForgetMessage == /\ message' = <<>> /\ targets' = NotGiven /\ outcome' = "none"
                 /\ journal' = {} /\ prompts' = {} /\ free' = {}

(* add_thread_participant: with the agent's id, or a display name, as handle. *)
AddParticipant(agent, preferred) ==
    /\ added < MaxAdds
    /\ preferred = <<agent>> \/ preferred \in Profiles
    /\ added' = added + 1
    /\ people' = [n \in DOMAIN people \cup {added + 1} |->
                      IF n \in DOMAIN people THEN people[n]
                      ELSE Person(agent, UniqueMentionHandle(HandlesOf(DOMAIN people), preferred))]
    /\ ForgetMessage

(* set_participant_configuration: the handle follows the new display name. *)
SetConfiguration(n, preferred) ==
    /\ people' = [people EXCEPT ![n].handle =
                      UniqueMentionHandle(HandlesOf(DOMAIN people \ {n}), preferred)]
    /\ UNCHANGED added
    /\ ForgetMessage

RemoveParticipant(n) ==
    /\ people' = [i \in DOMAIN people \ {n} |-> people[i]]
    /\ UNCHANGED added
    /\ ForgetMessage

-----------------------------------------------------------------------------
(* Mentions and targets. *)

(* participant_matches_agent_mention: the handle, or the agent's id. *)
Matches(n, token) ==
    token # Word /\ (token = people[n].handle \/ token = <<people[n].agent>>)

(* The participants a token mentions. *)
Mentioned(token) == {n \in DOMAIN people : Matches(n, token)}

(* resolved_mentions: the positions of the mentions that name somebody. *)
Recognized(m) == {j \in DOMAIN m : Mentioned(m[j]) # {}}

(* resolve_thread_message_mentions *)
ResolveMentions(m) == UNION {Mentioned(m[j]) : j \in DOMAIN m}

(* Mutant: explicit targets and mentions are united. *)
UniteTargets(explicit, mentions) ==
    IF mentions = {} THEN explicit
    ELSE IF explicit = NotGiven THEN mentions ELSE explicit \cup mentions

(* merge_thread_message_targets *)
MergeTargets(explicit, mentions) ==
    IF mentions = {} THEN explicit
    ELSE IF explicit = NotGiven THEN mentions ELSE explicit \cap mentions

(* target_agent_participants: the human is passed over. *)
TargetAgents(merged) == IF merged = NotGiven THEN DOMAIN people ELSE merged \ {User}

-----------------------------------------------------------------------------
(* build_thread_message_routes *)

Route(ids, content) == [ids |-> ids, content |-> content]

(* shared_prefix: the text before all recognized mentions. *)
Prefix(m) == LET marks == Recognized(m) IN {t \in DOMAIN m : \A k \in marks : t < k}

(* The text between the mention at j and the next recognized one. *)
Segment(m, j) ==
    LET next == {k \in Recognized(m) : j < k}
    IN  {t \in DOMAIN m : j < t /\ \A k \in next : t < k}

(* Mutant: a mention that is followed by another one is not kept waiting. *)
TakeLast(m, acc, j) ==
    LET text == IF acc.routes = {} THEN Prefix(m) \cup Segment(m, j) ELSE Segment(m, j)
    IN  IF Segment(m, j) = {} THEN acc
        ELSE [acc EXCEPT !.routes = @ \cup {Route(Mentioned(m[j]), text)}]

(***************************************************************************)
(* The body of the loop over the recognized mentions: the ones next to one *)
(* another wait for the text that follows them, and the first text gets    *)
(* what came before all mentions put in front.                             *)
(***************************************************************************)
TakeMention(m, acc, j) ==
    LET ids == acc.waiting \cup Mentioned(m[j])
        segment == Segment(m, j)
        text == IF acc.routes = {} THEN Prefix(m) \cup segment ELSE segment
    IN  IF segment = {} THEN [acc EXCEPT !.waiting = ids]
        ELSE [waiting |-> {}, routes |-> acc.routes \cup {Route(ids, text)}]

(* The loop, and the routes it has made in the end. *)
Segments(m) ==
    LET marks == Recognized(m)
        loop[j \in 0 .. Len(m)] ==
            IF j = 0 THEN [waiting |-> {}, routes |-> {}]
            ELSE IF j \in marks THEN TakeMention(m, loop[j - 1], j)
            ELSE loop[j - 1]
    IN  loop[Len(m)].routes

(***************************************************************************)
(* The assignments: every selected participant of a segment gets a route   *)
(* of its own, which it leads, with its segments joined, for itself and    *)
(* for the selected participants it shares a segment with.                 *)
(***************************************************************************)
Assignments(routes, selected) ==
    LET mine(n) == {route \in routes : n \in route.ids}
    IN  {[lead |-> n,
          ids |-> UNION {route.ids \cap selected : route \in mine(n)},
          content |-> UNION {route.content : route \in mine(n)}]
            : n \in {n \in selected : mine(n) # {}}}

(* The only route of a message that is not cut into segments. *)
OneRoute(ids, m) == {[lead |-> User, ids |-> ids, content |-> DOMAIN m]}

BuildRoutes(m, selected) ==
    IF Recognized(m) = {} THEN OneRoute(selected, m)
    ELSE IF Segments(m) = {} THEN OneRoute(ResolveMentions(m), m)
    ELSE Assignments(Segments(m), selected)

-----------------------------------------------------------------------------
(* The calls of handle_prompt. *)

(* The first mention of a participant. *)
FirstMention(m, n) ==
    CHOOSE j \in DOMAIN m : Matches(n, m[j]) /\ \A i \in 1 .. j - 1 : ~Matches(n, m[i])

(* The order of the selected participants, and so of the routes they lead: *)
(* as first mentioned, and by one mention in the order they joined.        *)
Before(m, p, q) ==
    \/ FirstMention(m, p) < FirstMention(m, q)
    \/ FirstMention(m, p) = FirstMention(m, q) /\ p < q

(* A call for every selected participant of every route. *)
Calls(routes, selected) ==
    UNION {{[to |-> n, lead |-> route.lead, content |-> route.content]
               : n \in route.ids \cap selected} : route \in routes}

(* The calls that find the session as it was when the message came. *)
FirstCalls(m, calls) ==
    {call \in calls : \A other \in calls :
        other.to = call.to /\ other.lead # call.lead => Before(m, call.lead, other.lead)}

(* What the agents of these calls are prompted with. *)
Prompting(calls) == {[to |-> call.to, content |-> call.content] : call \in calls}

Refuse(error) == outcome' = error /\ journal' = {} /\ prompts' = {} /\ free' = {}

(***************************************************************************)
(* handle_send_thread_message: unknown explicit targets are refused, and   *)
(* so is a message that is left without targets, without agents among      *)
(* them, or without anybody that a route is for; otherwise it is           *)
(* journalled for everyone a route names, and every selected participant   *)
(* of every route is prompted with the route's content, unless             *)
(* handle_prompt refuses it.  The first call for a participant is taken if *)
(* its session is free; one after it only if the prompt before it is over  *)
(* by then, or the session has become free.                                *)
(***************************************************************************)
SendThreadMessage(m, explicit) ==
    LET unknown == explicit # NotGiven /\ ~ explicit \subseteq DOMAIN people \cup {User}
        merged == MergeTargets(explicit, ResolveMentions(m))
        selected == TargetAgents(merged)
        routes == BuildRoutes(m, selected)
        named == UNION {route.ids : route \in routes}
        nobody == merged = {} \/ selected = {} \/ named = {}
        calls == Calls(routes, selected)
        first == FirstCalls(m, calls)
    IN  /\ message' = m /\ targets' = explicit
        /\ \/ unknown /\ Refuse("unknown")
           \/ ~unknown /\ nobody /\ Refuse("no_targets")
           \/ /\ ~unknown /\ ~nobody
              /\ outcome' = "sent"
              /\ journal' = named
              /\ free' \in SUBSET (named \cap selected)
              /\ \E late \in SUBSET Prompting(calls \ first) :
                     prompts' = Prompting({call \in first : call.to \in free'}) \cup late
        /\ UNCHANGED <<people, added>>

(* Explicit targets are anybody who is or was in the thread. *)
Explicit == {NotGiven} \cup {ids \in SUBSET (0 .. added) : Cardinality(ids) <= MaxExplicit}

RoutingNext ==
    \/ \E agent \in Agents, preferred \in Profiles \cup {<<a>> : a \in Agents} :
           AddParticipant(agent, preferred)
    \/ \E n \in DOMAIN people : RemoveParticipant(n) \/ \E h \in Profiles : SetConfiguration(n, h)
    \/ /\ outcome = "none"
       /\ \E m \in Texts, explicit \in Explicit : SendThreadMessage(m, explicit)

RoutingSpec == RoutingInit /\ [][RoutingNext]_routing_vars

-----------------------------------------------------------------------------
(* Properties. *)

(***************************************************************************)
(* After any sequence of joining, renaming and leaving, no two             *)
(* participants have the same handle, also when a given display name looks *)
(* like a handle that was made unique (thread_store.rs).  A mention of the *)
(* handle may still mean others too, whose agent has it for its id.        *)
(***************************************************************************)
HandlesUnique ==
    \A i, j \in DOMAIN people : i # j => people[i].handle # people[j].handle

(***************************************************************************)
(* A prompt only goes where the sender wanted it: to an agent of the       *)
(* thread, among the explicit targets if there were any, mentioned if      *)
(* anybody was, and named in the journalled message.                       *)
(***************************************************************************)
PromptedAreAddressed ==
    \A prompt \in prompts :
        /\ prompt.to \in DOMAIN people
        /\ prompt.to \in journal
        /\ targets # NotGiven => prompt.to \in targets
        /\ Recognized(message) # {} =>
               \E j \in DOMAIN message : Matches(prompt.to, message[j])

(* The mentions a text token belongs to: the last ones before its segment. *)
Owners(j) ==
    {i \in Recognized(message) :
        /\ i < j
        /\ ~\E t \in i + 1 .. j - 1, k \in Recognized(message) :
               t \notin Recognized(message) /\ t < k /\ k < j}

(* The participants a text token is assigned to, as PROTOCOL.md puts it. *)
Assigned(j) == {n \in DOMAIN people : \E i \in Owners(j) : Matches(n, message[i])}

(* The words: what is not a recognized mention. *)
WordsOf == DOMAIN message \ Recognized(message)

(* Participants that share a segment share all of their segments. *)
SharedAlike ==
    LET groups == {Assigned(j) : j \in WordsOf}
    IN  \A a, b \in groups : a = b \/ a \cap b = {}

(***************************************************************************)
(* Nothing that was assigned is left out: every word after a mention is    *)
(* journalled for every wanted participant of the mentions in front of it, *)
(* and is in a prompt for it if its session was free, in a message whose   *)
(* participants share all of their segments or none; a message without     *)
(* recognized mentions goes to all that are wanted.  Where participants    *)
(* share some segments only, it may not get there: of "@codex X @codex-2   *)
(* Y", with two codex sessions, both are prompted with X first and refused *)
(* "X Y", so nobody gets Y (handle_send_thread_message, handle_prompt).    *)
(***************************************************************************)
AssignedIsSent ==
    outcome = "sent" =>
        \A j \in WordsOf, n \in DOMAIN people :
            /\ targets # NotGiven => n \in targets
            /\ n \in Assigned(j) \/ Recognized(message) = {}
            => /\ n \in journal
               /\ n \in free =>
                      \/ \E prompt \in prompts : prompt.to = n /\ j \in prompt.content
                      \/ ~SharedAlike

(***************************************************************************)
(* PROTOCOL.md:554: "Each agent prompt receives only its assigned segment  *)
(* plus its routing context" (the text before all mentions belongs to the  *)
(* first segment).                                                         *)
(***************************************************************************)
OnlyAssigned ==
    \A prompt \in prompts : \A j \in prompt.content \ Recognized(message) :
        Owners(j) # {} => prompt.to \in Assigned(j)

(* Every mention names one participant, and none follows another at once. *)
MentionsApart == \A j \in Recognized(message) :
                     /\ j + 1 \notin Recognized(message)
                     /\ \A a, b \in Mentioned(message[j]) : a = b

(***************************************************************************)
(* Where PROTOCOL.md:554 holds: OnlyAssigned can only fail for a message   *)
(* in which participants share a segment (build_thread_message_routes      *)
(* gives all that one of them was assigned to the others too).             *)
(***************************************************************************)
ApartIsOnlyAssigned == MentionsApart => OnlyAssigned
=============================================================================
