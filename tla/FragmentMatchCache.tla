------------------------- MODULE FragmentMatchCache -------------------------
(***************************************************************************)
(* The bounded LRU cache of fragment matches                               *)
(* (context/activation/fragment_cache.rs).  Every operation runs under one *)
(* mutex, so each is an operator from a cache to the next cache.  `order`  *)
(* is the tick order, oldest first; `parts` and `bytes` are the counters   *)
(* the code keeps beside the entries.                                      *)
(***************************************************************************)
EXTENDS Integers, Sequences, FiniteSets, SequencesExt

CONSTANTS
  MaxFragmentsPerStory,   \* max_fragments_per_story
  MaxCachedStories,       \* max_cached_stories
  MaxMatchesPerFragment,  \* max_matches_per_fragment
  MaxTotalBytes           \* max_total_estimated_bytes, in matches

NoCache == [order |-> <<>>, value |-> [k \in {} |-> {}],
            parts |-> [s \in {} |-> 0], bytes |-> 0]

\* estimate_match_bytes: the size of one match is the unit.
estimate_match_bytes(matches) == Cardinality(matches)

Without(order, key) == SelectSeq(order, LAMBDA k : k # key)

\* get: a hit becomes the youngest entry.
CacheGet(c, key) ==
  IF key \in DOMAIN c.value
  THEN [c EXCEPT !.order = Append(Without(@, key), key)] ELSE c

\* Mutant of decrement_partition: a story keeps its row at zero.
decrement_to_zero(parts, story) ==
  IF story \notin DOMAIN parts \/ parts[story] = 0 THEN parts
  ELSE [parts EXCEPT ![story] = @ - 1]

\* decrement_partition: a story without entries leaves the table.
decrement_partition(parts, story) ==
  IF story \notin DOMAIN parts THEN parts
  ELSE IF parts[story] <= 1
  THEN [s \in DOMAIN parts \ {story} |-> parts[s]]
  ELSE [parts EXCEPT ![story] = @ - 1]

remove_key(c, key) ==
  IF key \notin DOMAIN c.value THEN c
  ELSE [order |-> Without(c.order, key),
        value |-> [k \in DOMAIN c.value \ {key} |-> c.value[k]],
        parts |-> decrement_partition(c.parts, key.story),
        bytes |-> c.bytes - estimate_match_bytes(c.value[key])]

Oldest(c, story) == SelectSeq(c.order, LAMBDA k : k.story = story)[1]

\* The loops remove one entry at a time, so as many passes as entries do.
enforce_partition_limit(c, story) ==
  FoldLeft(LAMBDA d, i :
             IF story \in DOMAIN d.parts /\ d.parts[story] > MaxFragmentsPerStory
             THEN remove_key(d, Oldest(d, story)) ELSE d,
           c, c.order)

enforce_global_limits(c) ==
  FoldLeft(LAMBDA d, i :
             IF Cardinality(DOMAIN d.parts) > MaxCachedStories \/ d.bytes > MaxTotalBytes
             THEN remove_key(d, d.order[1]) ELSE d,
           c, c.order)

\* insert: oversized values are not kept; the limits hold again afterwards.
CacheInsert(c, key, matches) ==
  LET size == estimate_match_bytes(matches)
      d == remove_key(c, key)
      n == IF key.story \in DOMAIN d.parts THEN d.parts[key.story] ELSE 0
      in == [order |-> Append(d.order, key),
             value |-> [k \in DOMAIN d.value \cup {key} |->
                          IF k = key THEN matches ELSE d.value[k]],
             parts |-> [s \in DOMAIN d.parts \cup {key.story} |->
                          IF s = key.story THEN n + 1 ELSE d.parts[s]],
             bytes |-> d.bytes + size]
  IN  IF size > MaxMatchesPerFragment \/ size > MaxTotalBytes THEN c
      ELSE enforce_global_limits(enforce_partition_limit(in, key.story))
=============================================================================
