------------------------- MODULE KnowledgeActivation -------------------------
(***************************************************************************)
(* Knowledge activation across the turns of one story: the coordinator     *)
(* (context/activation/coordinator.rs) drives the engine for a turn's      *)
(* baseline pass and for the resumed pass after planning, the preview      *)
(* service drives it read-only beside the turn, and the commit writes the  *)
(* timed state with the turn's knowledge change (sqlite_store.rs).         *)
(*                                                                         *)
(* The two runners are the turn in flight (the story permit admits one)    *)
(* and one preview request.  Every store call is a step of its own, since  *)
(* the other runner may commit between two of them.                        *)
(***************************************************************************)
EXTENDS ActivationIndex, FragmentMatchCache, TurnKnowledge

CONSTANTS
  Worlds     \* the stories to start from: entries, rules, texts, limits,
             \* and the bound `turns` on the turns committed

VARIABLES
  world,     \* the story: its rules, texts and limits never change
  store,     \* the database rows of the story
  cache,     \* the turns' fragment match cache (previews have their own)
  packs,     \* the turns' pack index cache
  run,       \* run["turn"], run["preview"]
  history    \* what each committed turn activated (no code: for properties)

vars == <<world, store, cache, packs, run, history>>

Runners == {"turn", "preview"}

Idle == [at |-> "idle"]

\* from_rule: the digest of a rule.  Worlds give different rules different
\* names, so the name stands for the digest.
from_rule(r) == r

\* Metadata of entry x under the rule named r.
Metadata(x, r, from_pack) ==
  Over([rule |-> world.rules[r], version |-> from_rule(r), from_pack |-> from_pack],
       world.entry[x])

Init ==
  /\ world \in Worlds
  /\ store = [revision |-> 0, overlay |-> 0, entries |-> world.entries,
              own |-> {}, issued |-> DOMAIN world.entries, timed |-> Empty]
  /\ cache = NoCache /\ packs = NoPacks
  /\ run = [a \in Runners |-> Idle]
  /\ history = <<>>

(***************************************************************************)
(* Starting a run.                                                         *)
(***************************************************************************)
Goto(a, r, at) == run' = [run EXCEPT ![a] = Over([at |-> at], r)]

\* A store read at the run's snapshot: refused once the story has moved on.
Moved(a) == store.revision # run[a].revision

NoDelta == [upserts |-> Empty, deletes |-> {}]

\* The turn loads its snapshot; its number follows the story's last turn.  A
\* scan buffer of too many fragments fails it.
BeginTurn ==
  LET n == store.revision
      first == IF n > world.recent THEN n - world.recent ELSE 0
      frags == build_activation_scan_buffer(
                 world.said[n + 1], world.named, world.events,
                 SubSeq(world.told, first + 1, n),
                 UNION {world.told[i] : i \in 1..first}, world.lim)
  IN  /\ run["turn"].at = "idle" /\ n < world.turns
      /\ \E dice \in world.dice :
           Goto("turn", [revision |-> n, turn |-> n + 1,
                         pass |-> "baseline", cont |-> <<>>, delta |-> NoDelta,
                         loaded |-> {}, timed |-> Empty, seeds |-> {}, dice |-> dice,
                         trigger |-> "Normal", frags |-> frags, base |-> Refused,
                         plan |-> Refused, shown |-> Refused],
                IF Cardinality(frags) > world.lim.max_scan_fragments
                THEN "failed" ELSE "prepare")
      /\ UNCHANGED <<world, store, cache, packs, history>>

\* preview: the snapshot and the story's turn counter are two reads.
BeginPreview ==
  /\ run["preview"].at = "idle"
  /\ \E p \in world.previews :
       Goto("preview", [revision |-> store.revision, turn |-> 0,
                        pass |-> "preview", cont |-> <<>>, delta |-> NoDelta,
                        loaded |-> {}, timed |-> Empty, seeds |-> p.seeds, dice |-> p.dice,
                        trigger |-> p.trigger,
                        frags |-> {p.contribution}], "number")
  /\ UNCHANGED <<world, store, cache, packs, history>>

PreviewTurnNumber ==
  /\ run["preview"].at = "number"
  /\ Goto("preview", [run["preview"] EXCEPT !.turn = store.revision + 1], "prepare")
  /\ UNCHANGED <<world, store, cache, packs, history>>

\* load_snapshot: the live rows, each the pack's or the story's own, and the
\* pack as it was imported.
load_snapshot ==
  [x \in DOMAIN store.entries |-> Metadata(x, store.entries[x], x \notin store.own)]

canonical_pack_entries ==
  [x \in DOMAIN world.entries |-> Metadata(x, world.entries[x], TRUE)]

\* The pack index comes from the cache or is built and put there; previews
\* have a cache of their own, which nothing else fills.
prepare_index(a) ==
  LET lim == world.lim
      pack == build_frozen_pack_index(canonical_pack_entries, lim.max_entries, lim)
      hit == a = "turn" /\ "this" \in DOMAIN packs.size
      index == compose_index_snapshot(
                 pack, build_overlay_index(load_snapshot, pack, lim), lim)
      builds == ~Moved(a) /\ ~hit /\ pack.ok /\ world.pack_bytes <= MaxPackBytes
  IN  /\ run[a].at = "prepare"
      /\ IF Moved(a) \/ ~(hit \/ builds) \/ ~index.ok THEN Goto(a, run[a], "failed")
         ELSE Goto(a, Over([index |-> index.metadata, patterns |-> index.patterns,
                            overlay |-> store.overlay], run[a]), "match")
      /\ packs' = IF a = "preview" \/ Moved(a) THEN packs
                  ELSE IF hit THEN pack_cache_get(packs, "this")
                  ELSE IF builds THEN pack_cache_insert(packs, "this", world.pack_bytes)
                  ELSE packs
      /\ UNCHANGED <<world, store, cache, history>>

\* An exact target must be in the index, and a fact is not for a character.
authorize_seed(index, e) ==
  e.source \in DOMAIN index /\ validate_deliveries(index[e.source].kind, {e.delivery})

\* The scan buffer through the cache, in scan order: a hit refreshes its
\* entry, a miss is matched and inserted.
CacheKey(a, f) == [story |-> "this", frag |-> f, overlay |-> run[a].overlay]

ThroughCache(a, c, f) ==
  LET key == CacheKey(a, f)
  IN  IF key \in DOMAIN c.value THEN CacheGet(c, key)
      ELSE CacheInsert(c, key, match_fragment(run[a].index, run[a].patterns, f))

\* What the run sees: the cached value of a fragment, else fresh matches.
Seen(a, c, f) ==
  IF CacheKey(a, f) \in DOMAIN c.value THEN c.value[CacheKey(a, f)]
  ELSE match_fragment(run[a].index, run[a].patterns, f)

match_fragments(a) ==
  LET order == InScanOrder(run[a].frags)
      before(f) == FoldLeft(LAMBDA c, g : ThroughCache(a, c, g), cache,
                            SelectSeq(order, LAMBDA g :
                              LexLess(FragmentKey(g), FragmentKey(f))))
      turn == a = "turn"
  IN  /\ run[a].at = "match"
      /\ Goto(a, Over([matches |-> [f \in run[a].frags |->
                 IF turn THEN Seen(a, before(f), f)
                 ELSE match_fragment(run[a].index, run[a].patterns, f)]], run[a]), "timed")
      /\ cache' = IF turn
                  THEN FoldLeft(LAMBDA c, g : ThroughCache(a, c, g), cache, order)
                  ELSE cache
      /\ UNCHANGED <<world, store, packs, history>>

\* A turn of another story shares the caches.
OtherStory ==
  /\ \E m \in world.others :
       cache' = CacheInsert(cache, [story |-> "other", frag |-> m, overlay |-> 0], m)
  /\ packs' \in {packs} \cup {pack_cache_insert(packs, "other", n) : n \in world.other_packs}
  /\ UNCHANGED <<world, store, run, history>>

Request(a) ==
  [turn |-> run[a].turn, trigger |-> run[a].trigger, index |-> run[a].index,
   patterns |-> run[a].patterns,
   frags |-> run[a].frags, matches |-> run[a].matches, timed |-> run[a].timed,
   seeds |-> run[a].seeds, lim |-> world.lim, deliveries |-> world.deliveries,
   dice |-> run[a].dice, favour |-> world.favour,
   snap |-> <<run[a].revision, run[a].overlay>>]

(***************************************************************************)
(* Driving the session.                                                    *)
(***************************************************************************)
\* The effects that still run, of the stored rows.
load_timed_state == store.timed

\* The read of the timed state verifies the revision; then the session starts.
StartSession(a) ==
  LET req == [Request(a) EXCEPT !.timed = load_timed_state]
      seeded == \A e \in run[a].seeds : authorize_seed(run[a].index, e)
      s == start(req, run[a].cont)
  IN  /\ run[a].at = "timed"
      /\ IF Moved(a) \/ ~seeded \/ Cardinality(run[a].seeds) > world.lim.max_external
         THEN Goto(a, run[a], "failed")
         ELSE Goto(a, Over([timed |-> load_timed_state, session |-> s], run[a]),
                   IF s.error = None THEN "rounds" ELSE "failed")
      /\ UNCHANGED <<world, store, cache, packs, history>>

Round(a) ==
  /\ run[a].at = "rounds" /\ run[a].session.stage # "Done"
  /\ \E s \in {next_round(Request(a), run[a].session)} :
        Goto(a, [run[a] EXCEPT !.session = s],
             CASE s.error # None -> "failed"
               [] s.error = None /\ s.pending # Empty -> "bodies"
               [] OTHER -> "rounds")
  /\ UNCHANGED <<world, store, cache, packs, history>>

\* One query by ids: refused at another revision, and by one oversized row.
load_by_source_ids(a, ids) ==
  /\ ~Moved(a)
  /\ \A x \in ids : run[a].index[x].bytes <= world.lim.max_single_entry_bytes

\* One query for all bodies of the round.  Any error of it, a moved snapshot
\* or one oversized row included, drops the whole round unless an entry of
\* it is mandatory.
load_bodies(a) ==
  LET s == run[a].session
      req == Request(a)
      read == load_by_source_ids(a, DOMAIN s.pending)
      lost == LoseBodies(req, s, DOMAIN s.pending)
      full == supply_bodies(req, s)
      to(t, more) == Goto(a, [run[a] EXCEPT !.session = t, !.loaded = @ \cup more],
                          IF t.error = None THEN "rounds" ELSE "failed")
  IN  /\ run[a].at = "bodies"
      /\ \/ (~read \/ world.flaky) /\ to(lost, {})
         \/ read /\ to(full, DOMAIN s.pending)
      /\ UNCHANGED <<world, store, cache, packs, history>>

\* finish, and what the caller keeps: the merged delta, the bodies of the
\* activated entries, the continuation for the resumed pass.
Finish(a) ==
  LET r == finish(Request(a), run[a].session)
      live == run[a].loaded \cap DOMAIN r.cont.activated
  IN  /\ run[a].at = "rounds" /\ run[a].session.stage = "Done"
      /\ Goto(a, [run[a] EXCEPT !.cont = <<r.cont>>, !.loaded = live,
                    !.delta = IF run[a].pass = "resumed" THEN merge(@, r) ELSE
                                [upserts |-> r.upserts, deletes |-> r.deletes]],
              CASE run[a].pass = "baseline" -> "listing"
                [] run[a].pass = "resumed"  -> "showing"
                [] run[a].pass = "preview"  -> "finished")
      /\ UNCHANGED <<world, store, cache, packs, history>>

Activated(a) == run[a].cont[1].activated
Kinds(a) == [x \in DOMAIN run[a].index |-> run[a].index[x].kind]
Sizes(a) == [x \in DOMAIN run[a].index |-> run[a].index[x].bytes]

\* The ids of the story's facts and rumors.
load_index == DOMAIN store.entries

\* A role's own memories, the first by id, as their costs.
load_memories_by_owner(role) == First(world.memories[role], world.shown.items)

\* The rest of the baseline: the story's fact and rumor ids are a read of
\* their own.
BaselineReady ==
  LET base == prepare_baseline(world.cast, world.here, world.player,
                               Activated("turn"), load_index, world.shown)
  IN  /\ run["turn"].at = "listing"
      /\ Goto("turn", [run["turn"] EXCEPT !.base = base],
              IF Moved("turn") \/ ~base.ok THEN "failed" ELSE "planning")
      /\ UNCHANGED <<world, store, cache, packs, history>>

\* The planner answers within its contract.  A plan that asks for nothing
\* skips retrieval; any other resumes the activation on the same index.
Plan ==
  LET r == run["turn"]
      story == [impulses |-> world.impulses, cast |-> world.cast,
                player |-> world.player, ai |-> world.ai, kind |-> Kinds("turn")]
  IN  /\ r.at = "planning"
      /\ \E out \in world.answers :
           LET plan == build(out, r.base, story, world.planner)
           IN  /\ validate_writer_planner_output(out, world.planner)
               /\ IF ~plan.ok THEN Goto("turn", r, "failed")
                  ELSE IF plan.requests = {} /\ plan.audiences = {}
                  THEN Goto("turn", [r EXCEPT !.plan = plan], "finished")
                  ELSE Goto("turn", [r EXCEPT !.plan = plan, !.pass = "resumed",
                                              !.seeds = plan.requests], "match")
      /\ UNCHANGED <<world, store, cache, packs, history>>

\* The memories of each audience are a read; then the context is built.
Retrieve ==
  LET r == run["turn"]
  IN  /\ r.at = "showing"
      /\ \E ctx \in {retrieved_context(Activated("turn"), Kinds("turn"), Sizes("turn"),
                         r.base.known, r.plan.audiences,
                         [d \in r.plan.audiences |-> load_memories_by_owner(d)],
                         world.shown)} :
           IF (Moved("turn") /\ r.plan.audiences # {}) \/ ~ctx.ok
           THEN Goto("turn", r, "failed")
           ELSE Goto("turn", [r EXCEPT !.shown = ctx], "finished")
      /\ UNCHANGED <<world, store, cache, packs, history>>

(***************************************************************************)
(* The end of a run.                                                       *)
(***************************************************************************)
\* The knowledge changes a turn may commit; ids are never used again.
Changed(change, entries) ==
  CASE change.op = "none"   -> entries
    [] change.op = "delete" -> [x \in DOMAIN entries \ {change.source} |-> entries[x]]
    [] OTHER                -> Over(change.source :> change.rule, entries)

\* An added or updated entry has the turn for its source, not the pack.
Owned(change, entries) ==
  (store.own \cup (IF change.op \in {"add", "update"} THEN {change.source} ELSE {}))
    \cap DOMAIN entries

Applicable(change) ==
  CASE change.op = "none"   -> TRUE
    [] change.op = "add"    -> change.source \notin store.issued
    [] change.op = "delete" -> /\ change.source \in DOMAIN store.entries
                               /\ world.entry[change.source].kind = "Rumor"
    [] OTHER                -> change.source \in DOMAIN store.entries

apply_activation_state_delta(timed, delta) ==
  Over(delta.upserts, [x \in DOMAIN timed \ delta.deletes |-> timed[x]])

\* Rows without a live entry of the same rule version are deleted.
reconcile_activation_state(timed, entries) ==
  LET live == {x \in DOMAIN timed : /\ x \in DOMAIN entries
                                    /\ entries[x] = timed[x].version}
  IN  [x \in live |-> timed[x]]

\* Mutant of OverlayAfter: only an addition moves the version.
overlay_after_add(change) ==
  IF change.op = "add" THEN store.overlay + 1 ELSE store.overlay

\* A memory change leaves the overlay version alone; every other moves it.
OverlayAfter(change) ==
  IF change.op = "none" THEN store.overlay ELSE store.overlay + 1

\* The commit transaction: revision, entries, overlay version, timed state.
Commit ==
  LET r == run["turn"]
      done == r.cont[1]
  IN  /\ r.at = "finished" /\ ~Moved("turn")
      /\ \E change \in world.changes :
           LET entries == Changed(change, store.entries)
               timed == apply_activation_state_delta(store.timed, r.delta)
           IN  /\ Applicable(change)
               /\ store' = [revision |-> store.revision + 1,
                            overlay |-> OverlayAfter(change),
                            entries |-> entries,
                            own |-> Owned(change, entries),
                            issued |-> store.issued \cup DOMAIN entries,
                            timed |-> reconcile_activation_state(timed, entries)]
      /\ history' = Append(history,
           [fresh |-> {x \in DOMAIN done.activated : ~done.activated[x].sticky},
            active |-> DOMAIN done.activated,
            decided |-> DOMAIN done.activated \cup DOMAIN done.terminal,
            entries |-> store.entries])
      /\ run' = [run EXCEPT !["turn"] = Idle]
      /\ UNCHANGED <<world, cache, packs>>

\* The turn fails or is cancelled anywhere: nothing of it is kept.
Abandon ==
  /\ run["turn"].at \notin {"idle"}
  /\ run' = [run EXCEPT !["turn"] = Idle]
  /\ UNCHANGED <<world, store, cache, packs, history>>

Answer ==
  /\ run["preview"].at = "finished"
  /\ Goto("preview", run["preview"], "answered")
  /\ UNCHANGED <<world, store, cache, packs, history>>

Drive(a) ==
  \/ prepare_index(a)
  \/ match_fragments(a)
  \/ StartSession(a)
  \/ Round(a)
  \/ load_bodies(a)
  \/ Finish(a)

Next ==
  \/ BeginTurn
  \/ BeginPreview
  \/ PreviewTurnNumber
  \/ \E a \in Runners : Drive(a)
  \/ OtherStory
  \/ BaselineReady
  \/ Plan
  \/ Retrieve
  \/ Commit
  \/ Abandon
  \/ Answer

\* A task that can take a step of its run takes it: the awaits inside a run
\* are store queries, which return.  A run can take a step exactly in these
\* stages, so this is weak fairness of its steps, in a form TLC checks without
\* evaluating ENABLED on whole rounds.
Busy(a) == run[a].at \in {"prepare", "match", "timed", "rounds", "bodies",
                           "listing", "showing"}

Fairness ==
  \A a \in Runners : <>[]Busy(a) => []<><<run'[a] # run[a]>>_vars

Spec == Init /\ [][Next]_vars /\ Fairness

-----------------------------------------------------------------------------
(***************************************************************************)
(* Properties.                                                             *)
(***************************************************************************)
HasSession(a) == "session" \in DOMAIN run[a]

Sum(f) == FoldLeft(LAMBDA n, x : n + f[x], 0, SetToSeq(DOMAIN f))

\* The turn's budget is exactly what its activated entries cost, in items and
\* tokens, per audience and in all, in the resumed pass as in the baseline,
\* and within its limits; normal entries never eat the reserved and mandatory
\* shares.  When a pass ends, the body of every activated entry is at hand, so
\* the prompt never meets activation_body_missing.
DeliveriesAccounted ==
  \A a \in Runners : HasSession(a) =>
    LET lim == world.lim
        done == run[a].session.done
        u == done.usage
        on == done.activated
        to(d) == {x \in DOMAIN on : d \in on[x].deliveries}
    IN  /\ \A d \in DOMAIN u.items :
             /\ u.items[d] = Cardinality(to(d))
             /\ u.tokens[d] = Sum([x \in to(d) |-> on[x].cost])
             /\ u.items[d] <= lim.max_items_per_audience
             /\ u.tokens[d] <= lim.max_tokens_per_audience
        /\ u.total = Sum(u.items)
        /\ u.Normal + u.Reserved + u.Mandatory = Sum(u.tokens)
        /\ Sum(u.tokens) <= lim.max_total_tokens
        /\ u.Normal <= lim.max_total_tokens - lim.reserved_tokens - lim.mandatory_tokens
        /\ Cardinality(DOMAIN on) <= lim.max_activated_entries
        /\ run[a].at = "finished" => run[a].loaded = DOMAIN on

\* Within a turn a verdict stands: an entry refused for the turn (lost its
\* group, failed its probability, went over budget) is not activated by a
\* later round or by the resumed pass, an activated entry stays activated, and
\* a group has one activated entry at most.
VerdictsFinal ==
  /\ [](\A a \in Runners : HasSession(a) =>
         LET on == DOMAIN run[a].session.done.activated
         IN  \A x, y \in on : x # y =>
               world.rules[run[a].index[x].version].groups
                 \cap world.rules[run[a].index[y].version].groups = {})
  /\ [][\A a \in Runners :
          HasSession(a) /\ "session" \in DOMAIN run'[a] /\ run'[a].turn = run[a].turn =>
            LET old == run[a].session.done
                new == run'[a].session.done
            IN  /\ DOMAIN old.activated \subseteq DOMAIN new.activated
                /\ DOMAIN old.terminal \subseteq DOMAIN new.terminal
                /\ (DOMAIN old.terminal \ DOMAIN old.activated)
                     \cap DOMAIN new.activated = {}]_vars

\* The timed effect of a committed activation holds over the following turns
\* while the entry keeps its rule: through its sticky turns the entry is
\* decided on whatever the texts say, and through the cooldown after them it
\* is not activated.  The delta of the baseline pass must survive the merge
\* with the resumed one, the commit and its reconciliation.
TimedEffectsKept ==
  \A t \in 1..Len(history) : \A x \in history[t].fresh :
    LET rule == world.rules[history[t].entries[x]]
        kept(u) == \A v \in t..u : /\ x \in DOMAIN history[v].entries
                                    /\ history[v].entries[x] = history[t].entries[x]
    IN  \A u \in (t + 1)..Len(history) : kept(u) =>
          /\ u <= t + rule.sticky_turns => x \in history[u].decided
          /\ /\ u > t + rule.sticky_turns
             /\ u <= t + rule.sticky_turns + rule.cooldown_turns
             => x \notin history[u].active

\* A run works on one story state: its index, composed of the cached pack and
\* the overlay, holds exactly the live entries under their present rules; the
\* matches it uses, cached or not, are those of these rules and of no older
\* rule of an entry; and a preview that passed its index load is evaluated for
\* the turn that follows its snapshot.
SnapshotConsistent ==
  \A a \in Runners : "index" \in DOMAIN run[a] =>
    LET index == run[a].index
        live == UNION {compile_entry(x, index[x].rule) : x \in DOMAIN index}
    IN  /\ ~Moved(a) => store.entries = [x \in DOMAIN index |-> index[x].version]
        /\ "matches" \in DOMAIN run[a] =>
             \A f \in run[a].frags : run[a].matches[f] = LiteralMatches(live, f)
        /\ run[a].turn = run[a].revision + 1

\* The caches' counters are what their entries add up to, so that the limits
\* on fragments, stories, packs and bytes really bound them.
CacheAccounted ==
  LET of(s) == {k \in DOMAIN cache.value : k.story = s}
      exact(order, keys) == Range(order) = keys /\ Len(order) = Cardinality(keys)
  IN  /\ exact(cache.order, DOMAIN cache.value)
      /\ DOMAIN cache.parts = {k.story : k \in DOMAIN cache.value}
      /\ \A s \in DOMAIN cache.parts :
           /\ cache.parts[s] = Cardinality(of(s))
           /\ cache.parts[s] <= MaxFragmentsPerStory
      /\ cache.bytes = Sum([k \in DOMAIN cache.value |->
                             Cardinality(cache.value[k])])
      /\ cache.bytes <= MaxTotalBytes
      /\ Cardinality(DOMAIN cache.parts) <= MaxCachedStories
      /\ exact(packs.order, DOMAIN packs.size)
      /\ packs.bytes = Sum(packs.size)
      /\ packs.bytes <= MaxPackBytes /\ Len(packs.order) <= MaxPacks

\* Recursion and depth expansion end: a pass that started comes to a result or
\* an error, or its turn is given up.
RunsEnd == \A a \in Runners : Busy(a) ~> ~Busy(a)

\* What a turn is about to write its story from: every entry shown to an
\* audience is activated for that audience and loaded and, to a role, a rumor;
\* the writer sees no entry twice, in the baseline and again in the retrieved
\* context; the planner was offered every entry it was not shown.  Each list
\* (the baseline, the retrieved facts and rumors of the writer, the rumors of
\* each role) fits retrieval's limits, and an activated entry is missing from
\* the turn only for want of room: in the retrieved lists only behind every
\* entry shown, and when the first one missing would not fit any more; without
\* a retrieval, when it comes after the limit on items or is larger than what
\* the entries before it leave.  (Whether an entry is mandatory makes no
\* difference to these limits.)
KnowledgeShown ==
  LET r == run["turn"]
      on == Activated("turn")
      for(d) == {x \in DOMAIN on : d \in on[x].deliveries}
      of(S, k) == {x \in S : r.index[x].kind = k}
      before(x, S) == {y \in S : LexLess(Append(on[y].order, y), Append(on[x].order, x))}
      cost(S) == Sum([x \in S |-> on[x].cost])
      fits(S) == Cardinality(S) <= world.shown.items /\ cost(S) <= world.shown.tokens
      served(S, wanted) ==
        /\ S \subseteq wanted /\ fits(S)
        /\ \A x \in wanted \ S : /\ before(x, S) = S
                                 /\ before(x, wanted \ S) = {} => ~fits(S \cup {x})
      missing == for("Writer") \ r.base.known
  IN  r.at = "finished" =>
        /\ r.base.known \subseteq for("Writer") \cap r.loaded /\ fits(r.base.known)
        /\ r.base.known \cap r.base.index = {}
        /\ r.base.known \cup r.base.index = DOMAIN r.index
        /\ r.pass = "baseline" =>
             \A x \in missing : \/ Cardinality(before(x, for("Writer"))) >= world.shown.items
                                \/ cost(before(x, r.base.known) \cup {x}) > world.shown.tokens
        /\ r.pass = "resumed" =>
             /\ r.shown.writer \subseteq r.loaded
             /\ \A k \in {"Fact", "Rumor"} : served(of(r.shown.writer, k), of(missing, k))
             /\ DOMAIN r.shown.roles = r.plan.audiences
             /\ \A d \in r.plan.audiences :
                  /\ r.shown.roles[d] \subseteq r.loaded
                  /\ \A x \in for(d) : r.index[x].kind = "Rumor"
                  /\ served(r.shown.roles[d], for(d))
             /\ r.shown.items <= world.shown.total_items
             /\ r.shown.tokens <= world.shown.total_tokens
=============================================================================
