------------------------ MODULE AgentSettingsProofs ------------------------
(***************************************************************************)
(* DiscoveredHasModel and StoredIsInForce for any number of calls, models  *)
(* and efforts.                                                            *)
(*                                                                         *)
(* Both rest on who may change a session's options: the call that opened   *)
(* it, as long as it is under way, and afterwards the one configuration    *)
(* of it that may be handled at a time (Owned, OneHandler).  So what a     *)
(* call has set stays set until it is done with the rest (Applied), and    *)
(* what it is stored or remembered with is what it set (InForce,           *)
(* Remembered).                                                            *)
(***************************************************************************)
EXTENDS AgentSettings, TLAPS

-----------------------------------------------------------------------------
(* The inductive invariant, part by part. *)

Lists == [online : BOOLEAN, current : Models \cup {None}, efforts : BOOLEAN]

Kinds == {"list", "discover", "create", "add", "other", "configure"}
PCs == {"idle", "spawned", "opening", "model", "effort", "closing", "done", "kept"}

(* A call, but for where it is. *)
CallOf(pcs) == [pc : pcs, kind : Kinds, want : Settings, session : Calls \cup {None},
                previous : Lists \cup {None}, ok : BOOLEAN]

Handled == {"create", "add", "configure"}
Handling(c) == call[c].kind \in Handled /\ call[c].pc # "done"

(* One message is handled at a time. *)
OneHandler == \A c, d \in Calls : Handling(c) /\ Handling(d) => c = d

(* The session a call works on is its own, or the one it configures, which  *)
(* stays a participant's while it does.                                     *)
Over == {"done", "kept"}
UnderWay == {"model", "effort", "closing"}

OwnedBy(c, r) ==
    IF r.kind = "configure" THEN r.session \in Calls /\ stored[r.session] # None
    ELSE r.session = c

Owned ==
    /\ \A c \in Calls : call[c].pc \in UnderWay => OwnedBy(c, call[c])
    /\ \A c \in Calls : call[c].pc \in {"idle", "spawned", "closing", "kept"} => IsDiscovery(call[c])
    /\ \A c \in Calls : call[c].kind = "configure" => call[c].pc \in {"model", "effort", "done"}
    /\ \A s \in Calls : stored[s] # None => call[s].kind = "add" /\ call[s].pc = "done"

(* What a call has set already. *)
HasModel(o, want) == want.model # None => o.model = want.model
AppliedTo(o, r) ==
    /\ r.pc = "model" => r.want.model # None
    /\ r.pc = "effort" => r.want.effort # None /\ HasModel(o, r.want)
    /\ r.pc = "closing" /\ r.ok => HasModel(o, r.want)
Applied == \A c \in Calls : AppliedTo(options[call[c].session], call[c])

(* The session of a discovery that is over. *)
Remembered ==
    \A m \in Models : discovered[m] # None =>
        /\ IsDiscovery(call[discovered[m]]) /\ call[discovered[m]].pc \in Over
        /\ options[discovered[m]].model = m

(* StoredIsInForce, said of every session that is not being configured. *)
Meets(o, want) == /\ want.model # None => o.model = want.model
                  /\ want.effort # None => o.effort = want.effort
Changing(s) == \E c \in Calls : call[c].kind = "configure" /\ call[c].session = s /\ call[c].pc # "done"

InForce == \A s \in Calls : stored[s] # None /\ s \notin unsure /\ ~Changing(s)
                                => Meets(options[s], stored[s])

Inv == TypeOK /\ OneHandler /\ Owned /\ Applied /\ Remembered /\ InForce

-----------------------------------------------------------------------------
(* The list of agents, before and after a step. *)

(* list_agents gives one. *)
LEMMA ListTypes ==
    ASSUME alive \in BOOLEAN, latest \in Calls \cup {None}, options \in [Calls -> Options]
    PROVE  ListAgents \in Lists
<1>1. SettingOptions.model \in Models \cup {None}
    BY DEF SettingOptions, Options
<1> QED BY <1>1, SettingsAssumption DEF ListAgents, Lists

(* The same after a step. *)
LEMMA NextListTypes ==
    ASSUME alive' \in BOOLEAN, latest' \in Calls \cup {None}, options' \in [Calls -> Options]
    PROVE  ListAgents' \in Lists
<1>1. SettingOptions'.model \in Models \cup {None}
    BY DEF SettingOptions, Options
<1> QED BY <1>1, SettingsAssumption DEF ListAgents, Lists

(* So what clients are shown stays one. *)
LEMMA ShownTypes ==
    ASSUME shown \in Lists \cup {None}, NEW previous, BroadcastIfChanged(previous),
           alive' \in BOOLEAN, latest' \in Calls \cup {None}, options' \in [Calls -> Options]
    PROVE  shown' \in Lists \cup {None}
BY NextListTypes DEF BroadcastIfChanged

-----------------------------------------------------------------------------
(* A call at work.  In a step of c that has come to r, options change at     *)
(* most for the session c works on, and no other message is being handled   *)
(* if c is one.                                                             *)

Target(c, r) == IF r.kind = "configure" THEN r.session ELSE c

AtWork(c, r) ==
    /\ call[c].pc \notin Over
    /\ r \in CallOf(PCs \cup {"configure"})
    /\ r.kind = "configure" => r.session \in Calls /\ stored[r.session] # None
    /\ call[c].kind = "configure" => r.kind = "configure" /\ r.session = call[c].session
    /\ r.kind \in Handled => \A d \in Calls : d # c => ~Handling(d)
    /\ options' \in [Calls -> Options]
    /\ \A d \in Calls : d # Target(c, r) => options'[d] = options[d]
    /\ alive' \in BOOLEAN /\ closes' = closes /\ latest' \in Calls \cup {None}
    /\ open' \subseteq Calls /\ busy' \subseteq Calls

(* The types in the form the provers use them. *)
LEMMA CallTypes ==
    ASSUME TypeOK
    PROVE  /\ call \in [Calls -> CallOf(PCs)] /\ shown \in Lists \cup {None}
           /\ \A c \in Calls : call[c] \in CallOf(PCs)
BY DEF TypeOK, CallOf, PCs, Kinds, Lists

(* And back. *)
LEMMA NextTypes ==
    ASSUME alive' \in BOOLEAN, closes' \in BOOLEAN, call' \in [Calls -> CallOf(PCs)],
           open' \subseteq Calls, options' \in [Calls -> Options], latest' \in Calls \cup {None},
           discovered' \in [Models \cup {None} -> Calls \cup {None}],
           stored' \in [Calls -> Settings \cup {None}], busy' \subseteq Calls,
           shown' \in Lists \cup {None}, unsure' \subseteq Calls
    PROVE  TypeOK'
BY DEF TypeOK, CallOf, PCs, Kinds, Lists

(* Nobody else's session is touched, nor one that is remembered, nor the    *)
(* one of another participant.                                              *)
LEMMA OthersKeep ==
    ASSUME Inv, NEW c \in Calls, NEW r, AtWork(c, r)
    PROVE  /\ \A d \in Calls : d # c /\ call[d].pc \in UnderWay =>
                 /\ call[d].session \in Calls
                 /\ options'[call[d].session] = options[call[d].session]
           /\ \A m \in Models : discovered[m] # None =>
                 discovered[m] \in Calls \ {c} /\ options'[discovered[m]] = options[discovered[m]]
           /\ \A s \in Calls : stored[s] # None =>
                 s # c /\ (s # Target(c, r) => options'[s] = options[s])
<1>1. ASSUME NEW s \in Calls, stored[s] # None PROVE s # c /\ call[s].kind = "add" /\ call[s].pc = "done"
    BY <1>1 DEF Inv, Owned, AtWork, Over
<1>2. ASSUME NEW d \in Calls, d # c, call[d].pc \in UnderWay
      PROVE  call[d].session \in Calls /\ call[d].session # Target(c, r)
    <2>1. OwnedBy(d, call[d]) /\ call[d].pc # "done"
        BY <1>2 DEF Inv, Owned, UnderWay
    <2>2. CASE call[d].kind = "configure"
        <3>1. r.kind # "configure"
            BY <1>2, <2>1, <2>2 DEF AtWork, Handled, Handling
        <3> QED BY <1>1, <2>1, <2>2, <3>1 DEF OwnedBy, Target
    <2>3. CASE call[d].kind # "configure"
        BY <1>1, <1>2, <2>1, <2>3 DEF OwnedBy, Target, AtWork
    <2> QED BY <2>2, <2>3
<1>3. ASSUME NEW m \in Models, discovered[m] # None
      PROVE  discovered[m] \in Calls \ {c} /\ discovered[m] # Target(c, r)
    <2>1. /\ discovered[m] \in Calls /\ call[discovered[m]].pc \in Over
          /\ IsDiscovery(call[discovered[m]])
        BY <1>3 DEF Inv, Remembered, TypeOK
    <2> QED BY <1>1, <2>1 DEF AtWork, Target, IsDiscovery
<1> QED BY <1>1, <1>2, <1>3 DEF AtWork

(* The call waits for an answer. *)
LEMMA WaitsKeeps ==
    ASSUME Inv, NEW c \in Calls, NEW r, AtWork(c, r), r.session = Target(c, r),
           NEW pc \in UnderWay, NEW ok \in BOOLEAN,
           Waits(c, [r EXCEPT !.pc = pc, !.ok = ok]),
           pc = "closing" => IsDiscovery(r),
           pc = "model" => r.want.model # None,
           pc = "effort" => r.want.effort # None /\ HasModel(options'[r.session], r.want),
           pc = "closing" /\ ok => HasModel(options'[r.session], r.want)
    PROVE  Inv'
<1> DEFINE q == [r EXCEPT !.pc = pc, !.ok = ok]
<1>1. /\ q \in CallOf(PCs) /\ q.pc = pc /\ q.kind = r.kind /\ q.want = r.want
      /\ q.session = r.session /\ q.ok = ok
    BY DEF AtWork, CallOf, UnderWay, PCs
<1> HIDE DEF q
<1>2. call' = [call EXCEPT ![c] = q] /\ UNCHANGED <<discovered, stored, shown, unsure>>
    BY DEF Waits, q
<1>3. call \in [Calls -> CallOf(PCs)] /\ shown \in Lists \cup {None}
    BY CallTypes DEF Inv
<1>4. call'[c] = q /\ \A d \in Calls : d # c => call'[d] = call[d]
    BY <1>2, <1>3
<1>5. TypeOK'
    BY <1>1, <1>2, <1>3, NextTypes DEF Inv, TypeOK, AtWork
<1>6. OneHandler'
    BY <1>1, <1>4 DEF Inv, OneHandler, Handling, AtWork
<1>7. Owned'
    <2>1. OwnedBy(c, q)' /\ \A d \in Calls : OwnedBy(d, call[d]) => OwnedBy(d, call[d])'
        BY <1>1, <1>2 DEF AtWork, OwnedBy, Target
    <2> QED BY <1>1, <1>2, <1>4, <2>1, OthersKeep DEF Inv, Owned, UnderWay, IsDiscovery
<1>8. Applied'
    <2>1. AppliedTo(options'[r.session], q)
        BY <1>1 DEF AppliedTo, UnderWay
    <2>2. ASSUME NEW d \in Calls, d # c PROVE AppliedTo(options'[call[d].session], call[d])
        BY <2>2, OthersKeep DEF Inv, Applied, AppliedTo, UnderWay
    <2> QED BY <1>1, <1>4, <2>1, <2>2 DEF Applied
<1>9. Remembered'
    BY <1>2, <1>4, OthersKeep DEF Inv, Remembered
<1>10. InForce'
    <2>1. ASSUME NEW s \in Calls, stored[s] # None, ~Changing(s)' PROVE s # Target(c, r) /\ ~Changing(s)
        <3>1. ~Changing(s)
            BY <1>1, <1>4, <2>1 DEF Changing, AtWork, UnderWay
        <3> QED BY <1>1, <1>4, <2>1, <3>1, OthersKeep DEF Changing, Target, UnderWay
    <2> QED BY <1>2, <2>1, OthersKeep DEF Inv, InForce
<1> QED BY <1>5, <1>6, <1>7, <1>8, <1>9, <1>10 DEF Inv

(* A call that ends: the parts that are not about what it leaves behind. *)
LEMMA OverKeeps ==
    ASSUME Inv, NEW c \in Calls, NEW r, AtWork(c, r), NEW q \in CallOf(Over),
           q.pc = "kept" => IsDiscovery(q), call' = [call EXCEPT ![c] = q]
    PROVE  /\ call' \in [Calls -> CallOf(PCs)] /\ call'[c] = q
           /\ \A d \in Calls : d # c => call'[d] = call[d]
           /\ OneHandler' /\ Applied'
<1>1. q \in CallOf(PCs) /\ q.pc \in Over
    BY DEF CallOf, Over, PCs
<1>2. call \in [Calls -> CallOf(PCs)]
    BY CallTypes DEF Inv
<1>3. call' \in [Calls -> CallOf(PCs)] /\ call'[c] = q /\ \A d \in Calls : d # c => call'[d] = call[d]
    BY <1>1, <1>2
<1>4. OneHandler'
    BY <1>1, <1>3 DEF Inv, OneHandler, Handling, Handled, Over, IsDiscovery
<1>5. Applied'
    <2>1. ASSUME NEW d \in Calls, d # c PROVE AppliedTo(options'[call[d].session], call[d])
        BY <2>1, OthersKeep DEF Inv, Applied, AppliedTo, UnderWay
    <2> QED BY <1>1, <1>3, <2>1 DEF Applied, AppliedTo, Over
<1> QED BY <1>3, <1>4, <1>5

(* The usual end: the call is done, and keeps its kind. *)
LEMMA EndedKeeps ==
    ASSUME Inv, NEW c \in Calls, NEW r, AtWork(c, r), Ended(c, r)
    PROVE  /\ call' \in [Calls -> CallOf(PCs)]
           /\ call'[c].kind = r.kind /\ call'[c].pc = "done"
           /\ \A d \in Calls : d # c => call'[d] = call[d]
           /\ OneHandler' /\ Applied'
<1> DEFINE q == [Idle EXCEPT !.pc = "done", !.kind = r.kind]
<1>1. q \in CallOf(Over) /\ q.pc = "done" /\ q.kind = r.kind
    <2>1. r.kind \in Kinds
        BY DEF AtWork, CallOf
    <2> QED BY <2>1 DEF Idle, NoSettings, Settings, CallOf, Over
<1>2. call' = [call EXCEPT ![c] = q]
    BY DEF Ended
<1> HIDE DEF q
<1> QED BY <1>1, <1>2, OverKeeps

(* Nobody but c being configured by c, a session that was left alone and is *)
(* stored as before is still in force.                                      *)
LEMMA OthersInForce ==
    ASSUME Inv, NEW c \in Calls, NEW r, AtWork(c, r), NEW s \in Calls, s # Target(c, r),
           stored[s] # None, s \notin unsure, ~Changing(s)',
           \A d \in Calls : d # c => call'[d] = call[d]
    PROVE  Meets(options'[s], stored[s])
<1>1. ~Changing(s)
    <2>1. call[c].kind = "configure" => call[c].session # s
        BY DEF AtWork, Target
    <2> QED BY <2>1 DEF Changing
<1> QED BY <1>1, OthersKeep DEF Inv, InForce

(* The end of a discovery, whose session is closed or kept. *)
LEMMA DiscoveryEnds ==
    ASSUME Inv, NEW c \in Calls, NEW r, AtWork(c, r), IsDiscovery(r), NEW ok \in BOOLEAN,
           ok => HasModel(options'[c], r.want),
           NEW q \in CallOf(Over), IsDiscovery(q), call' = [call EXCEPT ![c] = q],
           discovered' = IF ok THEN [discovered EXCEPT ![r.want.model] = c] ELSE discovered,
           BroadcastIfChanged(r.previous), UNCHANGED <<stored, unsure>>
    PROVE  Inv'
<1>1. /\ call' \in [Calls -> CallOf(PCs)] /\ call'[c] = q
      /\ \A d \in Calls : d # c => call'[d] = call[d]
      /\ OneHandler' /\ Applied'
    BY OverKeeps
<1>2. r.want.model \in Models \cup {None} /\ q.pc \in Over
    BY DEF AtWork, CallOf, Settings
<1>3. discovered' \in [Models \cup {None} -> Calls \cup {None}]
    BY <1>2 DEF Inv, TypeOK
<1>4. TypeOK'
    BY <1>1, <1>3, CallTypes, ShownTypes, NextTypes DEF Inv, TypeOK, AtWork
<1>5. Owned'
    <2>1. \A d \in Calls : d # c => (OwnedBy(d, call[d]) => OwnedBy(d, call[d])')
        BY <1>1 DEF OwnedBy
    <2> QED BY <1>1, <1>2, <2>1, OthersKeep DEF Inv, Owned, Over, UnderWay, IsDiscovery
<1>6. Remembered'
    <2>1. ASSUME NEW m \in Models, discovered'[m] = c
          PROVE  options'[c].model = m
        <3>1. m = r.want.model /\ ok
            BY <1>3, <2>1, OthersKeep, SettingsAssumption DEF Inv, TypeOK
        <3> QED BY <3>1, SettingsAssumption DEF HasModel
    <2>2. ASSUME NEW m \in Models, discovered'[m] # c PROVE discovered'[m] = discovered[m]
        BY <1>2, <2>2 DEF Inv, TypeOK
    <2>3. ASSUME NEW m \in Models, discovered'[m] # None, discovered'[m] # c
          PROVE  /\ IsDiscovery(call'[discovered'[m]]) /\ call'[discovered'[m]].pc \in Over
                 /\ options'[discovered'[m]].model = m
        BY <1>1, <2>2, <2>3, OthersKeep DEF Inv, Remembered
    <2> QED BY <1>1, <1>2, <2>1, <2>3 DEF Remembered, IsDiscovery
<1>7. InForce'
    BY <1>1, OthersInForce, OthersKeep DEF InForce, IsDiscovery, Target
<1> QED BY <1>1, <1>4, <1>5, <1>6, <1>7 DEF Inv

(* The usual end of a discovery. *)
LEMMA ReportKeeps ==
    ASSUME Inv, NEW c \in Calls, NEW r, AtWork(c, r), IsDiscovery(r), NEW ok \in BOOLEAN,
           Report(c, r, ok), ok => HasModel(options'[c], r.want)
    PROVE  Inv'
<1> DEFINE q == [Idle EXCEPT !.pc = "done", !.kind = r.kind]
<1>1. q \in CallOf(Over) /\ q.kind = r.kind
    BY DEF Idle, NoSettings, Settings, CallOf, Over, Kinds, IsDiscovery
<1>2. /\ call' = [call EXCEPT ![c] = q] /\ UNCHANGED <<stored, unsure>>
      /\ discovered' = IF ok THEN [discovered EXCEPT ![r.want.model] = c] ELSE discovered
      /\ BroadcastIfChanged(r.previous)
    BY DEF Report, Ended
<1>3. IsDiscovery(q)
    BY <1>1 DEF IsDiscovery
<1> HIDE DEF q
<1> QED BY <1>1, <1>2, <1>3, DiscoveryEnds

(* A step that remembers nothing new leaves what is remembered as it is. *)
LEMMA RememberedKept ==
    ASSUME Inv, NEW c \in Calls, NEW r, AtWork(c, r), discovered' = discovered,
           \A d \in Calls : d # c => call'[d] = call[d]
    PROVE  Remembered'
BY OthersKeep DEF Inv, Remembered, IsDiscovery

(* The end of a creation: a participant is stored with what it was given. *)
LEMMA CreatedKeeps ==
    ASSUME Inv, NEW c \in Calls, NEW r, AtWork(c, r), r.kind \in {"create", "add", "other"},
           NEW ok \in BOOLEAN, Created(c, r, ok), ok => Meets(options'[c], r.want)
    PROVE  Inv'
<1>1. /\ Ended(c, r) /\ UNCHANGED <<discovered, unsure>>
      /\ stored' = IF ok /\ r.kind = "add" THEN [stored EXCEPT ![c] = r.want] ELSE stored
      /\ BroadcastIfChanged(r.previous) \/ shown' = shown
    BY DEF Created
<1>2. /\ r.want \in Settings /\ stored \in [Calls -> Settings \cup {None}] /\ stored[c] = None
      /\ shown \in Lists \cup {None}
    BY OthersKeep, CallTypes DEF AtWork, CallOf, Inv, TypeOK
<1>3. /\ stored' \in [Calls -> Settings \cup {None}]
      /\ \A d \in Calls : d # c => stored'[d] = stored[d]
      /\ stored'[c] # None => r.kind = "add" /\ ok /\ stored'[c] = r.want
    BY <1>1, <1>2
<1>4. TypeOK'
    <2>1. shown' \in Lists \cup {None}
        BY <1>1, <1>2, ShownTypes DEF AtWork
    <2> QED BY <1>1, <1>3, <2>1, EndedKeeps, NextTypes DEF Inv, TypeOK, AtWork
<1>5. Owned'
    <2>1. \A d \in Calls : d # c => (OwnedBy(d, call[d]) => OwnedBy(d, call[d])')
        BY <1>1, <1>2, <1>3, EndedKeeps DEF OwnedBy
    <2>2. \A s \in Calls : stored'[s] # None => call'[s].kind = "add" /\ call'[s].pc = "done"
        BY <1>1, <1>3, EndedKeeps DEF Inv, Owned
    <2> QED BY <1>1, <2>1, <2>2, EndedKeeps DEF Inv, Owned, UnderWay, IsDiscovery
<1>6. InForce'
    <2>1. ASSUME NEW s \in Calls, s # c, stored'[s] # None, s \notin unsure, ~Changing(s)'
          PROVE  Meets(options'[s], stored'[s])
        BY <1>1, <1>3, <2>1, EndedKeeps, OthersInForce DEF Target
    <2> QED BY <1>1, <1>3, <2>1 DEF InForce
<1> QED BY <1>1, <1>4, <1>5, <1>6, EndedKeeps, RememberedKept DEF Inv

(* The end of a change: it is stored, or the session is unsure. *)
LEMMA ConfiguredKeeps ==
    ASSUME Inv, NEW c \in Calls, NEW r, AtWork(c, r), r.kind = "configure",
           NEW ok \in BOOLEAN, Configured(c, r, ok), ok => Meets(options'[r.session], r.want)
    PROVE  Inv'
<1> DEFINE s0 == r.session
<1>1. /\ Ended(c, r) /\ discovered' = discovered
      /\ stored' = IF ok THEN [stored EXCEPT ![s0] = r.want] ELSE stored
      /\ unsure' = IF ok THEN unsure \ {s0} ELSE unsure \cup {s0}
      /\ BroadcastIfChanged(r.previous) \/ shown' = shown
    BY DEF Configured
<1>2. /\ r.want \in Settings /\ stored \in [Calls -> Settings \cup {None}]
      /\ s0 \in Calls /\ stored[s0] # None /\ s0 # c /\ Target(c, r) = s0
      /\ shown \in Lists \cup {None} /\ unsure \subseteq Calls
    BY OthersKeep, CallTypes DEF AtWork, CallOf, Inv, TypeOK, Target
<1> HIDE DEF s0
<1>3. /\ stored' \in [Calls -> Settings \cup {None}]
      /\ \A d \in Calls : d # s0 => stored'[d] = stored[d]
      /\ ok => stored'[s0] = r.want
      /\ \A d \in Calls : stored'[d] # None => stored[d] # None
    BY <1>1, <1>2
<1>4. TypeOK'
    <2>1. shown' \in Lists \cup {None}
        BY <1>1, <1>2, ShownTypes DEF AtWork
    <2> QED BY <1>1, <1>2, <1>3, <2>1, EndedKeeps, NextTypes DEF Inv, TypeOK, AtWork
<1>5. Owned'
    <2>1. \A d \in Calls : d # c /\ call[d].pc \in UnderWay => call[d].kind # "configure"
        BY <1>2 DEF AtWork, Handled, Handling, UnderWay
    <2>2. \A d \in Calls : d # c /\ call[d].pc \in UnderWay => OwnedBy(d, call[d])'
        BY <1>1, <2>1, EndedKeeps DEF Inv, Owned, OwnedBy
    <2>3. \A s \in Calls : stored'[s] # None => call'[s].kind = "add" /\ call'[s].pc = "done"
        BY <1>1, <1>2, <1>3, EndedKeeps, OthersKeep DEF Inv, Owned
    <2> QED BY <1>1, <2>2, <2>3, EndedKeeps DEF Inv, Owned, UnderWay, IsDiscovery
<1>6. InForce'
    <2>1. ASSUME NEW s \in Calls, s # s0, stored'[s] # None, s \notin unsure', ~Changing(s)'
          PROVE  Meets(options'[s], stored'[s])
        BY <1>1, <1>2, <1>3, <2>1, EndedKeeps, OthersInForce
    <2>2. ok => Meets(options'[s0], stored'[s0])
        BY <1>3 DEF s0
    <2>3. s0 \notin unsure' => ok
        BY <1>1
    <2> QED BY <2>1, <2>2, <2>3 DEF InForce
<1> QED BY <1>1, <1>4, <1>5, <1>6, EndedKeeps, RememberedKept DEF Inv

(* set_session_settings has returned. *)
LEMMA ConcludeKeeps ==
    ASSUME Inv, NEW c \in Calls, NEW r, AtWork(c, r), IsDiscovery(r) => r.session = c,
           NEW ok \in BOOLEAN, Conclude(c, r, ok), ok => Meets(options'[Target(c, r)], r.want)
    PROVE  Inv'
<1>1. CASE IsDiscovery(r) /\ closes
    <2>1. Waits(c, [r EXCEPT !.pc = "closing", !.ok = ok])
        BY <1>1 DEF Conclude, IsDiscovery
    <2>2. Target(c, r) = c /\ r.session = c /\ (ok => HasModel(options'[c], r.want))
        BY <1>1 DEF IsDiscovery, Target, Meets, HasModel
    <2> QED BY <1>1, <2>1, <2>2, WaitsKeeps DEF UnderWay
<1>2. CASE IsDiscovery(r) /\ ~closes
    <2>1. Report(c, r, ok)
        BY <1>2 DEF Conclude, IsDiscovery
    <2>2. ok => HasModel(options'[c], r.want)
        BY <1>2 DEF IsDiscovery, Target, Meets, HasModel
    <2> QED BY <1>2, <2>1, <2>2, ReportKeeps
<1>3. CASE r.kind \in {"create", "add", "other"}
    <2>1. Created(c, r, ok) /\ Target(c, r) = c
        BY <1>3 DEF Conclude, IsDiscovery, Target
    <2> QED BY <1>3, <2>1, CreatedKeeps
<1>4. CASE r.kind = "configure"
    <2>1. Configured(c, r, ok) /\ Target(c, r) = r.session
        BY <1>4 DEF Conclude, IsDiscovery, Target
    <2> QED BY <1>4, <2>1, ConfiguredKeeps
<1>5. r.kind \in Kinds
    BY DEF AtWork, CallOf
<1> QED BY <1>1, <1>2, <1>3, <1>4, <1>5 DEF Kinds, IsDiscovery

(* set_session_settings goes on after k, what came before being set. *)
LEMMA ProceedKeeps ==
    ASSUME Inv, NEW c \in Calls, NEW r, AtWork(c, r), r.session = Target(c, r),
           NEW k \in {"opening", "model", "effort"},
           k = "model" => HasModel(options'[r.session], r.want),
           k = "effort" => Meets(options'[r.session], r.want),
           Proceed(c, r, NextCategory(r.want, k))
    PROVE  Inv'
<1> DEFINE next == NextCategory(r.want, k)
<1>1. /\ next \in {"model", "effort", "end"}
      /\ next = "model" => r.want.model # None
      /\ next = "effort" => r.want.effort # None /\ HasModel(options'[r.session], r.want)
      /\ next = "end" => Meets(options'[r.session], r.want)
    BY DEF NextCategory, Categories, HasModel, Meets
<1> HIDE DEF next
<1>2. r.ok \in BOOLEAN
    BY DEF AtWork, CallOf
<1>3. IsDiscovery(r) => r.session = c
    BY DEF IsDiscovery, Target
<1>4. CASE next = "end"
    <2>1. Conclude(c, r, TRUE)
        BY <1>4 DEF Proceed, next
    <2> QED BY <1>1, <1>3, <1>4, <2>1, ConcludeKeeps
<1>5. CASE next # "end" /\ options'[r.session][next] # None
    <2>1. Waits(c, [r EXCEPT !.pc = next])
        BY <1>5 DEF Proceed, next
    <2>2. [r EXCEPT !.pc = next] = [r EXCEPT !.pc = next, !.ok = r.ok]
        BY DEF AtWork, CallOf
    <2> QED BY <1>1, <1>2, <1>5, <2>1, <2>2, WaitsKeeps DEF UnderWay
<1>6. CASE next # "end" /\ options'[r.session][next] = None
    <2>1. Conclude(c, r, FALSE)
        BY <1>6 DEF Proceed, next
    <2> QED BY <1>3, <2>1, ConcludeKeeps
<1> QED BY <1>4, <1>5, <1>6

-----------------------------------------------------------------------------
(* The actions. *)

(* A call that is not over is at work, if nothing happens but to its target. *)
LEMMA IsAtWork ==
    ASSUME Inv, NEW c \in Calls, call[c].pc \in {"opening"} \cup UnderWay,
           options' \in [Calls -> Options],
           \A d \in Calls : d # Target(c, call[c]) => options'[d] = options[d],
           alive' \in BOOLEAN, closes' = closes, latest' \in Calls \cup {None},
           open' \subseteq Calls, busy' \subseteq Calls
    PROVE  AtWork(c, call[c])
<1>1. call[c] \in CallOf(PCs \cup {"configure"})
    BY CallTypes DEF Inv, CallOf
<1>2. call[c].pc \notin Over
    BY DEF Over, UnderWay
<1>3. call[c].kind = "configure" => call[c].session \in Calls /\ stored[call[c].session] # None
    BY DEF Inv, Owned, OwnedBy, UnderWay
<1>4. call[c].kind \in Handled => \A d \in Calls : d # c => ~Handling(d)
    BY <1>2 DEF Inv, OneHandler, Handling, Over
<1> QED BY <1>1, <1>2, <1>3, <1>4 DEF AtWork

(* A call that is taken up, and waits for its task or its session. *)
LEMMA BeginsKeeps ==
    ASSUME Inv, NEW c \in Calls, call[c].pc \in {"idle", "spawned"},
           NEW q \in CallOf({"spawned", "opening"}), call' = [call EXCEPT ![c] = q],
           q.pc = "spawned" => IsDiscovery(q), q.kind # "configure", q.kind \in Handled => Free,
           shown' \in Lists \cup {None},
           UNCHANGED <<alive, closes, open, options, latest, discovered, stored, busy, unsure>>
    PROVE  Inv'
<1>1. q \in CallOf(PCs) /\ q.pc \in {"spawned", "opening"}
    BY DEF CallOf, PCs
<1>2. call \in [Calls -> CallOf(PCs)]
    BY CallTypes DEF Inv
<1>3. call' \in [Calls -> CallOf(PCs)] /\ call'[c] = q /\ \A d \in Calls : d # c => call'[d] = call[d]
    BY <1>1, <1>2
<1>4. TypeOK'
    BY <1>3, NextTypes DEF Inv, TypeOK
<1>5. OneHandler'
    BY <1>3 DEF Inv, OneHandler, Handling, Handled, Free
<1>6. IsDiscovery(call[c]) /\ stored[c] = None /\ \A m \in Models : discovered[m] # c
    BY SettingsAssumption DEF Inv, Owned, Remembered, Over
<1>7. Owned'
    <2>1. \A d \in Calls : d # c => (OwnedBy(d, call[d]) => OwnedBy(d, call[d])')
        BY <1>3 DEF OwnedBy
    <2> QED BY <1>1, <1>3, <1>6, <2>1 DEF Inv, Owned, UnderWay, IsDiscovery
<1>8. Applied'
    <2>1. ASSUME NEW d \in Calls, d # c PROVE AppliedTo(options[call[d].session], call[d])
        BY DEF Inv, Applied
    <2> QED BY <1>1, <1>3, <2>1 DEF Applied, AppliedTo
<1>9. Remembered'
    BY <1>3, <1>6 DEF Inv, Remembered, TypeOK
<1>10. InForce'
    <2>1. ASSUME NEW s \in Calls, ~Changing(s)' PROVE ~Changing(s)
        BY <1>3, <1>6, <2>1 DEF Changing, IsDiscovery
    <2> QED BY <2>1 DEF Inv, InForce
<1> QED BY <1>4, <1>5, <1>7, <1>8, <1>9, <1>10 DEF Inv

(* A change of settings begins, and is refused at once or sends a value. *)
LEMMA ConfigureKeeps ==
    ASSUME Inv, NEW c \in Calls, NEW s \in Calls, NEW want \in Requested, HandleConfigure(c, s, want)
    PROVE  Inv'
<1> DEFINE r == [Idle EXCEPT !.pc = "configure", !.kind = "configure", !.want = want,
                             !.session = s, !.previous = ListAgents]
<1>1. ListAgents \in Lists /\ want \in Settings
    BY ListTypes, RequestedAssumption DEF Inv, TypeOK
<1>2. r \in CallOf(PCs \cup {"configure"}) /\ r.kind = "configure" /\ r.session = s /\ r.want = want
    BY <1>1 DEF Idle, CallOf, Kinds
<1>3. Proceed(c, r, NextCategory(r.want, "opening")) /\ UNCHANGED <<alive, closes, open, busy, options, latest>>
    BY <1>2 DEF HandleConfigure
<1> HIDE DEF r
<1>4. AtWork(c, r)
    <2>1. call[c].pc \notin Over /\ call[c].kind # "configure"
        BY DEF HandleConfigure, Inv, Owned, Over, IsDiscovery
    <2>2. \A d \in Calls : ~Handling(d)
        BY DEF HandleConfigure, Free, Handling, Handled
    <2>3. stored[s] # None
        BY DEF HandleConfigure
    <2> QED BY <1>2, <1>3, <2>1, <2>2, <2>3 DEF AtWork, Inv, TypeOK
<1> QED BY <1>2, <1>3, <1>4, ProceedKeeps DEF Target

(* A discovery uses what is remembered, or opens a session. *)
LEMMA DiscoverKeeps ==
    ASSUME Inv, NEW c \in Calls, Discover(c)
    PROVE  Inv'
<1>1. /\ call[c].pc = "spawned" /\ IsDiscovery(call[c]) /\ call[c] \in CallOf(PCs)
      /\ ListAgents \in Lists
      /\ UNCHANGED <<alive, closes, open, options, discovered, stored, busy, unsure>>
    BY CallTypes, ListTypes DEF Discover, Inv, Owned, TypeOK
<1>2. CASE RestoreCachedSession(call[c].want.model) /\ BroadcastIfChanged(ListAgents) /\ Ended(c, call[c])
    <2> DEFINE r == [call[c] EXCEPT !.previous = ListAgents]
    <2>1. /\ r \in CallOf(PCs \cup {"configure"}) /\ r.kind = call[c].kind
          /\ r.previous = ListAgents
        BY <1>1 DEF CallOf
    <2>2. IsDiscovery(r)
        BY <1>1, <2>1 DEF IsDiscovery
    <2> HIDE DEF r
    <2>3. Report(c, r, FALSE)
        BY <1>1, <1>2, <2>1 DEF Report, Ended
    <2>4. latest' \in Calls \cup {None}
        <3>1. call[c].want.model \in Models \cup {None}
            BY <1>1 DEF CallOf, Settings
        <3> QED BY <1>2, <3>1 DEF RestoreCachedSession, Inv, TypeOK
    <2>5. AtWork(c, r)
        BY <1>1, <2>1, <2>2, <2>4 DEF AtWork, Over, IsDiscovery, Handled, Inv, TypeOK
    <2> QED BY <2>2, <2>3, <2>5, ReportKeeps
<1>3. CASE /\ call' = [call EXCEPT ![c].pc = "opening", ![c].previous = ListAgents]
           /\ UNCHANGED <<latest, shown>>
    <2> DEFINE q == [call[c] EXCEPT !.pc = "opening", !.previous = ListAgents]
    <2>1. q \in CallOf({"spawned", "opening"}) /\ q.kind = call[c].kind /\ q.pc = "opening"
        BY <1>1 DEF CallOf
    <2>2. call' = [call EXCEPT ![c] = q]
        BY <1>3, CallTypes DEF Inv
    <2> HIDE DEF q
    <2>3. q.kind \notin Handled
        BY <1>1, <2>1 DEF IsDiscovery, Handled
    <2> QED BY <1>1, <1>3, <2>1, <2>2, <2>3, CallTypes, BeginsKeeps DEF Inv, Handled
<1> QED BY <1>2, <1>3 DEF Discover

(* new_session has returned. *)
LEMMA OpenedKeeps ==
    ASSUME Inv, NEW c \in Calls, SessionOpened(c)
    PROVE  Inv'
<1>1. PICK model \in {DefaultModel, None} :
          options' = [options EXCEPT ![c] =
              [model |-> model, effort |-> IF model \in EffortModels THEN "unset" ELSE None]]
    BY DEF SessionOpened
<1>2. /\ options' \in [Calls -> Options]
      /\ \A d \in Calls : d # c => options'[d] = options[d]
    BY <1>1, SettingsAssumption DEF Inv, TypeOK, Options
<1> DEFINE r == [call[c] EXCEPT !.session = c]
<1>3. call[c] \in CallOf(PCs) /\ call[c].pc = "opening" /\ call[c].kind # "configure"
    BY CallTypes DEF SessionOpened, Inv, Owned
<1>4. /\ r \in CallOf(PCs \cup {"configure"}) /\ r.kind = call[c].kind /\ r.session = c
      /\ r.want = call[c].want
    BY <1>3 DEF CallOf
<1>5. /\ UNCHANGED <<alive, closes, busy>> /\ open' = open \cup {c} /\ latest' = c
      /\ Proceed(c, r, NextCategory(r.want, "opening"))
    BY <1>4 DEF SessionOpened
<1> HIDE DEF r
<1>6. AtWork(c, call[c])
    BY <1>2, <1>3, <1>5, IsAtWork DEF Inv, TypeOK, Target
<1>7. AtWork(c, r) /\ Target(c, r) = c
    BY <1>3, <1>4, <1>6 DEF AtWork, Target
<1> QED BY <1>4, <1>5, <1>7, ProceedKeeps

(* set_session_config_option has returned. *)
LEMMA OptionSetKeeps ==
    ASSUME Inv, NEW c \in Calls, OptionSet(c)
    PROVE  Inv'
<1> DEFINE k == call[c].pc
           s == call[c].session
           want == call[c].want
<1>1. /\ k \in {"model", "effort"} /\ s \in Calls /\ call[c] \in CallOf(PCs)
      /\ OwnedBy(c, call[c]) /\ want \in Settings
      /\ AppliedTo(options[s], call[c]) /\ options[s] \in Options
    <2>1. k \in {"model", "effort"} /\ call[c] \in CallOf(PCs)
        BY CallTypes DEF OptionSet, Inv
    <2>2. OwnedBy(c, call[c]) /\ AppliedTo(options[s], call[c])
        BY <2>1 DEF Inv, Owned, Applied, UnderWay
    <2>3. s \in Calls
        BY <2>2 DEF OwnedBy
    <2> QED BY <2>1, <2>2, <2>3 DEF CallOf, Inv, TypeOK
<1>2. /\ UNCHANGED <<alive, closes, open, busy>> /\ latest' = s
      /\ Proceed(c, call[c], NextCategory(want, k))
    BY DEF OptionSet
<1>3. ASSUME k = "model"
      PROVE  /\ options' = [options EXCEPT ![s] =
                    [model |-> want.model,
                     effort |-> IF want.model \in EffortModels THEN "unset" ELSE None]]
             /\ want.model \in Models
    BY <1>1, <1>3 DEF OptionSet, AppliedTo, Settings
<1>4. ASSUME k = "effort"
      PROVE  /\ options' = [options EXCEPT ![s] = [options[s] EXCEPT !.effort = want.effort]]
             /\ want.effort \in Efforts
    BY <1>1, <1>4 DEF OptionSet, AppliedTo, Settings
<1>5. /\ options' \in [Calls -> Options]
      /\ \A d \in Calls : d # s => options'[d] = options[d]
      /\ k = "model" => HasModel(options'[s], want)
      /\ k = "effort" => Meets(options'[s], want)
    <2>1. CASE k = "model"
        <3> DEFINE o == [model |-> want.model,
                         effort |-> IF want.model \in EffortModels THEN "unset" ELSE None]
        <3>1. o \in Options /\ o.model = want.model
            BY <1>3, <2>1 DEF Options
        <3> HIDE DEF o
        <3>2. options' = [options EXCEPT ![s] = o] /\ options \in [Calls -> Options]
            BY <1>3, <2>1 DEF o, Inv, TypeOK
        <3> QED BY <1>1, <2>1, <3>1, <3>2 DEF HasModel
    <2>2. CASE k = "effort"
        <3> DEFINE o == [options[s] EXCEPT !.effort = want.effort]
        <3>1. o \in Options /\ o.effort = want.effort /\ o.model = options[s].model
            BY <1>1, <1>4, <2>2 DEF Options
        <3> HIDE DEF o
        <3>2. options' = [options EXCEPT ![s] = o] /\ options \in [Calls -> Options]
            BY <1>4, <2>2 DEF o, Inv, TypeOK
        <3>3. HasModel(options[s], want)
            BY <1>1, <2>2 DEF AppliedTo
        <3> QED BY <1>1, <2>2, <3>1, <3>2, <3>3 DEF HasModel, Meets
    <2> QED BY <1>1, <2>1, <2>2
<1>6. Target(c, call[c]) = s
    BY <1>1 DEF OwnedBy, Target
<1>7. AtWork(c, call[c])
    BY <1>1, <1>2, <1>5, <1>6, IsAtWork DEF UnderWay, Inv, TypeOK
<1> QED BY <1>1, <1>2, <1>5, <1>6, <1>7, ProceedKeeps

(* A request is refused. *)
LEMMA RefusedKeeps ==
    ASSUME Inv, NEW c \in Calls, Refused(c)
    PROVE  Inv'
<1>1. /\ call[c].pc \in {"opening", "model", "effort"}
      /\ UNCHANGED <<alive, closes, open, busy, options, latest>>
    BY DEF Refused
<1>2. AtWork(c, call[c])
    BY <1>1, IsAtWork DEF UnderWay, Inv, TypeOK
<1>3. CASE call[c].pc = "opening" /\ IsDiscovery(call[c])
    BY <1>2, <1>3, ReportKeeps DEF Refused
<1>4. CASE ~(call[c].pc = "opening" /\ IsDiscovery(call[c]))
    <2>1. Conclude(c, call[c], FALSE)
        BY <1>4 DEF Refused
    <2>2. IsDiscovery(call[c]) => call[c].session = c
        BY <1>1, <1>4 DEF Inv, Owned, OwnedBy, UnderWay, IsDiscovery
    <2> QED BY <1>2, <2>1, <2>2, ConcludeKeeps
<1> QED BY <1>3, <1>4

(* close_session has returned, well or not. *)
LEMMA ClosedKeeps ==
    ASSUME Inv, NEW c \in Calls, SessionClosed(c) \/ CloseRefused(c)
    PROVE  Inv'
<1>1. /\ call[c].pc = "closing" /\ IsDiscovery(call[c]) /\ call[c].session = c
      /\ call[c].ok \in BOOLEAN /\ (call[c].ok => HasModel(options[c], call[c].want))
    <2>1. call[c].pc = "closing"
        BY DEF SessionClosed, CloseRefused
    <2>2. IsDiscovery(call[c]) /\ OwnedBy(c, call[c]) /\ AppliedTo(options[call[c].session], call[c])
        BY <2>1 DEF Inv, Owned, Applied, UnderWay
    <2>3. call[c].ok \in BOOLEAN
        BY CallTypes DEF Inv, CallOf
    <2> QED BY <2>1, <2>2, <2>3 DEF OwnedBy, AppliedTo, IsDiscovery
<1>2. UNCHANGED <<alive, closes, busy, options, latest>> /\ open' \subseteq Calls
    BY DEF SessionClosed, CloseRefused, Inv, TypeOK
<1>3. AtWork(c, call[c])
    BY <1>1, <1>2, IsAtWork DEF UnderWay, Inv, TypeOK
<1>4. CASE SessionClosed(c)
    BY <1>1, <1>2, <1>3, <1>4, ReportKeeps DEF SessionClosed
<1>5. CASE CloseRefused(c)
    <2> DEFINE q == [Idle EXCEPT !.pc = "kept"]
    <2>1. q \in CallOf(Over) /\ IsDiscovery(q)
        BY DEF Idle, NoSettings, Settings, CallOf, Over, Kinds, IsDiscovery
    <2>2. call' = [call EXCEPT ![c] = q]
        BY <1>5 DEF CloseRefused
    <2> HIDE DEF q
    <2> QED BY <1>1, <1>2, <1>3, <1>5, <2>1, <2>2, DiscoveryEnds DEF CloseRefused
<1> QED BY <1>4, <1>5

(* A participant leaves while no message is handled. *)
LEMMA RemoveKeeps ==
    ASSUME Inv, NEW s \in Calls, RemoveParticipant(s)
    PROVE  Inv'
<1>1. /\ stored' = [stored EXCEPT ![s] = None] /\ Free
      /\ UNCHANGED <<alive, closes, call, open, options, latest, discovered, busy, shown, unsure>>
    BY DEF RemoveParticipant
<1>2. stored' \in [Calls -> Settings \cup {None}] /\ \A d \in Calls : stored'[d] \in {None, stored[d]}
    BY <1>1 DEF Inv, TypeOK
<1>3. TypeOK'
    BY <1>1, <1>2, CallTypes, NextTypes DEF Inv, TypeOK
<1>4. Owned'
    <2>1. ASSUME NEW d \in Calls, call[d].pc \in UnderWay PROVE OwnedBy(d, call[d])'
        <3>1. call[d].kind # "configure"
            BY <1>1, <2>1 DEF Free, UnderWay
        <3> QED BY <1>1, <2>1, <3>1 DEF Inv, Owned, OwnedBy
    <2> QED BY <1>1, <1>2, <2>1 DEF Inv, Owned
<1>5. OneHandler' /\ Applied' /\ Remembered'
    BY <1>1 DEF Inv, OneHandler, Handling, Applied, Remembered
<1>6. InForce'
    BY <1>1, <1>2 DEF Inv, InForce, Changing
<1> QED BY <1>3, <1>4, <1>5, <1>6 DEF Inv

(* Turns, the crash of the agent and stuttering touch nothing of it. *)
LEMMA OtherwiseKeeps ==
    ASSUME Inv, alive' \in BOOLEAN, open' \subseteq Calls, busy' \subseteq Calls,
           UNCHANGED <<closes, call, options, latest, discovered, stored, shown, unsure>>
    PROVE  Inv'
<1>1. TypeOK'
    BY CallTypes, NextTypes DEF Inv, TypeOK
<1>2. OneHandler' /\ Applied' /\ Remembered'
    BY DEF Inv, OneHandler, Handling, Applied, Remembered
<1>3. Owned' /\ InForce'
    BY DEF Inv, Owned, OwnedBy, InForce, Changing
<1> QED BY <1>1, <1>2, <1>3 DEF Inv

(* No call was made yet. *)
LEMMA InvInit == Init => Inv
<1> SUFFICES ASSUME Init PROVE Inv
    OBVIOUS
<1>1. /\ \A c \in Calls : call[c] = Idle
      /\ Idle.pc = "idle" /\ Idle.kind = "list"
      /\ \A s \in Calls : stored[s] = None
      /\ \A m \in Models : discovered[m] = None
    BY DEF Init, Idle
<1>2. TypeOK
    BY SettingsAssumption DEF Init, TypeOK, Idle, NoSettings, Settings, Options
<1>3. OneHandler /\ Owned /\ Applied
    BY <1>1 DEF OneHandler, Handling, Handled, Owned, Applied, AppliedTo, UnderWay, IsDiscovery
<1>4. Remembered /\ InForce
    BY <1>1 DEF Remembered, InForce
<1> QED BY <1>2, <1>3, <1>4 DEF Inv

(* The invariant is inductive: one case for each action. *)
LEMMA InvNext == Inv /\ [Next]_vars => Inv'
<1> SUFFICES ASSUME Inv, [Next]_vars PROVE Inv'
    OBVIOUS
<1> USE DEF Inv
<1>1. ASSUME NEW c \in Calls, HandleListAgents(c) PROVE Inv'
    <2> DEFINE q == [Idle EXCEPT !.pc = "spawned"]
    <2>1. q \in CallOf({"spawned", "opening"}) /\ q.kind = "list"
        BY DEF Idle, NoSettings, Settings, CallOf, Kinds
    <2>2. call' = [call EXCEPT ![c] = q] /\ shown' \in Lists \cup {None} /\ call[c].pc = "idle"
        BY <1>1, ListTypes DEF HandleListAgents, TypeOK
    <2> HIDE DEF q
    <2> QED BY <1>1, <2>1, <2>2, BeginsKeeps DEF HandleListAgents, IsDiscovery, Handled
<1>2. ASSUME NEW c \in Calls, NEW want \in Requested, HandleDiscover(c, want) PROVE Inv'
    <2> DEFINE q == [Idle EXCEPT !.pc = "spawned", !.kind = "discover", !.want = want]
    <2>1. q \in CallOf({"spawned", "opening"}) /\ q.kind = "discover"
        BY RequestedAssumption DEF Idle, CallOf, Kinds
    <2>2. call' = [call EXCEPT ![c] = q] /\ shown' \in Lists \cup {None} /\ call[c].pc = "idle"
        BY <1>2, CallTypes DEF HandleDiscover
    <2> HIDE DEF q
    <2> QED BY <1>2, <2>1, <2>2, BeginsKeeps DEF HandleDiscover, IsDiscovery, Handled
<1>3. ASSUME NEW c \in Calls, NEW want \in Requested, NEW kind \in {"create", "add"},
             HandleCreate(c, kind, want)
      PROVE  Inv'
    <2> DEFINE q == [Idle EXCEPT !.pc = "opening", !.kind = kind, !.want = want,
                                 !.previous = ListAgents]
    <2>1. q \in CallOf({"spawned", "opening"}) /\ q.kind = kind /\ q.pc = "opening"
        <3>1. ListAgents \in Lists
            BY ListTypes DEF TypeOK
        <3> QED BY <3>1, RequestedAssumption DEF Idle, CallOf, Kinds
    <2>2. call' = [call EXCEPT ![c] = q] /\ shown' \in Lists \cup {None} /\ call[c].pc = "idle"
        BY <1>3, CallTypes DEF HandleCreate
    <2> HIDE DEF q
    <2> QED BY <1>3, <2>1, <2>2, BeginsKeeps DEF HandleCreate
<1>4. ASSUME NEW c \in Calls, OpenOther(c) PROVE Inv'
    <2> DEFINE q == [Idle EXCEPT !.pc = "opening", !.kind = "other"]
    <2>1. q \in CallOf({"spawned", "opening"}) /\ q.kind = "other" /\ q.pc = "opening"
        BY DEF Idle, NoSettings, Settings, CallOf, Kinds
    <2>2. call' = [call EXCEPT ![c] = q] /\ shown' \in Lists \cup {None} /\ call[c].pc = "idle"
        BY <1>4, CallTypes DEF OpenOther
    <2> HIDE DEF q
    <2> QED BY <1>4, <2>1, <2>2, BeginsKeeps DEF OpenOther, Handled
<1>5. ASSUME NEW s \in Calls, Prompt(s) \/ PromptEnds(s) PROVE Inv'
    BY <1>5, OtherwiseKeeps DEF Prompt, PromptEnds, TypeOK
<1>6. CASE Crash
    BY <1>6, OtherwiseKeeps DEF Crash
<1>7. CASE UNCHANGED vars
    BY <1>7, OtherwiseKeeps DEF vars, TypeOK
<1> QED BY <1>1, <1>2, <1>3, <1>4, <1>5, <1>6, <1>7, ConfigureKeeps, DiscoverKeeps, OpenedKeeps,
           OptionSetKeeps, RefusedKeeps, ClosedKeeps, RemoveKeeps DEF Next

(* The types of the backend's tables hold throughout. *)
THEOREM TypeCorrect == Spec => []TypeOK
<1>1. Inv => TypeOK
    BY DEF Inv
<1> QED BY <1>1, InvInit, InvNext, PTL DEF Spec

(* discovered_setting_sessions: a session that answers for a model shows    *)
(* that model's options and is nobody's, however calls, refusals and a      *)
(* crash fall together.                                                     *)
THEOREM CacheIsOfItsModel == Spec => []DiscoveredHasModel
<1>1. ASSUME Inv PROVE DiscoveredHasModel
    <2>1. ASSUME NEW m \in Models, discovered[m] # None
          PROVE  options[discovered[m]].model = m /\ stored[discovered[m]] = None
        <3>1. discovered[m] \in Calls /\ IsDiscovery(call[discovered[m]])
            BY <1>1, <2>1 DEF Inv, TypeOK, Remembered
        <3> QED BY <1>1, <2>1, <3>1 DEF Inv, Owned, Remembered, IsDiscovery
    <2> QED BY <2>1 DEF DiscoveredHasModel
<1> QED BY <1>1, InvInit, InvNext, PTL DEF Spec

(* The settings a participant is stored with are the ones its session runs  *)
(* with, unless the last change of them failed: set_session_settings sets   *)
(* the model first, and nobody else changes the session before it has set   *)
(* the effort.                                                              *)
THEOREM SettingsInForce == Spec => []StoredIsInForce
<1>1. ASSUME Inv PROVE StoredIsInForce
    <2>1. ASSUME NEW s \in Calls, stored[s] # None, s \notin unsure, Free
          PROVE  /\ stored[s].model # None => options[s].model = stored[s].model
                 /\ stored[s].effort # None => options[s].effort = stored[s].effort
        <3>1. ~Changing(s)
            BY <2>1 DEF Changing, Free
        <3> QED BY <1>1, <2>1, <3>1 DEF Inv, InForce, Meets
    <2> QED BY <2>1 DEF StoredIsInForce
<1> QED BY <1>1, InvInit, InvNext, PTL DEF Spec

=============================================================================
