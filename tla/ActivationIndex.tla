-------------------------- MODULE ActivationIndex ---------------------------
(***************************************************************************)
(* What the activation engine works on: rules, the pattern index of a      *)
(* story and the scan buffer of a turn.  The index of a story is composed  *)
(* of the frozen index of its pack, built once and cached, and an overlay  *)
(* of the entries the story added, changed or removed since.               *)
(***************************************************************************)
EXTENDS ActivationEngine

CONSTANTS
  MaxPacks,        \* packs in the index cache
  MaxPackBytes     \* max_total_estimated_bytes of the index cache

\* KnowledgeActivationRule::disabled, the rule other rules are written over.
disabled ==
  [keys |-> {}, secondary |-> {}, logic |-> "AndAny", scan_depth |-> NoDepth,
   enabled |-> FALSE, constant |-> FALSE, exact_target_only |-> FALSE,
   exclude_recursion |-> FALSE, prevent_recursion |-> FALSE,
   delay_until_recursion |-> 0, order |-> 0, probability |-> 100,
   groups |-> {}, group_override |-> FALSE, weight |-> 1,
   use_group_scoring |-> FALSE, sticky_turns |-> 0, cooldown_turns |-> 0,
   delay_turns |-> 0, triggers |-> {}, class |-> "Normal"]

validate_rule(rule, lim) ==
  /\ ~(rule.constant /\ rule.exact_target_only)
  /\ rule.enabled => rule.keys # {} \/ rule.constant \/ rule.exact_target_only
  /\ rule.probability <= 100
  /\ rule.scan_depth # NoDepth => rule.scan_depth <= lim.max_scan_depth
  /\ Cardinality(rule.keys) <= lim.max_patterns_per_entry
  /\ Cardinality(rule.secondary) <= lim.max_patterns_per_entry
  /\ Cardinality(rule.groups) <= lim.max_groups_per_entry

(***************************************************************************)
(* The index.  `rows` are maps from a source to its metadata.              *)
(***************************************************************************)
compile_entry(x, rule) ==
       {[source |-> x, pattern |-> "primary", word |-> w, positive |-> TRUE] :
          w \in rule.keys}
  \cup {[source |-> x, pattern |-> "secondary", word |-> w,
         positive |-> rule.logic \in {"AndAny", "AndAll"}] : w \in rule.secondary}

\* The patterns of the rows, or an error: too many rows or patterns, or a
\* rule that does not pass.
build_frozen_pack_index(rows, max_entries, lim) ==
  LET patterns == UNION {compile_entry(x, rows[x].rule) : x \in DOMAIN rows}
  IN  [metadata |-> rows, patterns |-> patterns,
       ok |-> /\ Cardinality(DOMAIN rows) <= max_entries
              /\ \A x \in DOMAIN rows : validate_rule(rows[x].rule, lim)
              /\ Cardinality(patterns) <= lim.max_literal_patterns]

build_overlay_index(rows, pack, lim) ==
  LET own == {x \in DOMAIN rows : ~rows[x].from_pack}
      index == build_frozen_pack_index([x \in own |-> rows[x]],
                                       lim.max_overlay_entries, lim)
      gone == DOMAIN pack.metadata \ DOMAIN rows
  IN  [upserts |-> index.metadata, tombstones |-> gone, patterns |-> index.patterns,
       ok |-> index.ok /\ Cardinality(gone) <= lim.max_tombstones]

\* The pack's metadata without the removed entries, under the overlay's.  The
\* two pattern sets stay apart: match_fragment takes the pack's patterns only
\* for the entries that are still the pack's.
compose_index_snapshot(pack, overlay, lim) ==
  LET kept == DOMAIN pack.metadata \ overlay.tombstones
      metadata == Over(overlay.upserts, [x \in kept |-> pack.metadata[x]])
  IN  [metadata |-> metadata,
       patterns |-> [pack |-> pack.patterns, overlay |-> overlay.patterns],
       ok |-> /\ pack.ok /\ overlay.ok
              /\ Cardinality(pack.patterns) + Cardinality(overlay.patterns)
                   <= lim.max_literal_patterns
              /\ Cardinality(DOMAIN metadata) <= lim.max_entries]

(***************************************************************************)
(* FrozenPackIndexCache: `order` is the tick order, oldest first, and      *)
(* `bytes` the total kept beside the entries.  The index of a key never    *)
(* changes, so the cache holds keys and their sizes.                       *)
(***************************************************************************)
NoPacks == [order |-> <<>>, size |-> Empty, bytes |-> 0]

pack_cache_get(c, key) ==
  IF key \in DOMAIN c.size
  THEN [c EXCEPT !.order = Append(SelectSeq(@, LAMBDA k : k # key), key)] ELSE c

PackRemove(c, key) ==
  IF key \notin DOMAIN c.size THEN c
  ELSE [order |-> SelectSeq(c.order, LAMBDA k : k # key),
        size |-> [k \in DOMAIN c.size \ {key} |-> c.size[k]],
        bytes |-> c.bytes - c.size[key]]

\* insert: the caller has checked that the index alone fits.
pack_cache_insert(c, key, size) ==
  LET d == PackRemove(c, key)
      in == [order |-> Append(d.order, key), size |-> Over(key :> size, d.size),
             bytes |-> d.bytes + size]
  IN  FoldLeft(LAMBDA e, k :
                 IF Len(e.order) > MaxPacks \/ e.bytes > MaxPackBytes
                 THEN PackRemove(e, e.order[1]) ELSE e,
               in, in.order)

(***************************************************************************)
(* The scan buffer of a turn: what the player says, the player's name, the *)
(* events planned, the recent segments from the latest back, the summary.  *)
(* Role label and directions are scanned like name and events.             *)
(***************************************************************************)
build_activation_scan_buffer(said, named, events, recent, summary, lim) ==
  LET n == Len(recent)
      depth == IF lim.include_summary THEN lim.max_scan_depth ELSE n + 1
  IN       {ScanFragment("PlayerContribution", 0, 0, said)}
      \cup {ScanFragment("PlayerRoleName", 0, 0, w) : w \in {named} \ {{}}}
      \cup {ScanFragment("NarrativeEvent", 0, i - 1, events[i]) : i \in 1..Len(events)}
      \cup {ScanFragment("RecentStory", i, i - 1, recent[n + 1 - i]) : i \in 1..n}
      \cup {ScanFragment("StorySummary", depth, 0, w) : w \in {summary} \ {{}}}
=============================================================================
