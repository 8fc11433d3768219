------------------------------ MODULE Selection ------------------------------
(***************************************************************************)
(* Which hosts, which variables, which transport: the inventory            *)
(* (inventory.rs), host patterns (host_pattern.rs), `--limit` (limit.rs),   *)
(* tags (tags.rs), and what orchestrator.rs makes of them at the start of a *)
(* run.  Pure operators; Loading.tla and RunLoop.tla are built on them.     *)
(*                                                                         *)
(* Names are opaque.  The BTreeMaps of the code keep hosts and groups in    *)
(* name order, here the order of `Inventory` and of `GroupNames`.  Globs    *)
(* and regexes are the set of names they match.  A map of variables is a    *)
(* function from keys to values.                                           *)
(***************************************************************************)
EXTENDS Integers, Sequences, SequencesExt, FiniteSets, TLC

CONSTANTS
  Inventory,   \* the host names there are, in name order
  GroupNames,  \* the group names there are, in name order, All among them
  All,         \* the implicit group
  Localhost    \* the implicit host

Hosts == Range(Inventory)

ASSUME SelectionAssumption ==
  /\ Localhost \in Hosts /\ All \in Range(GroupNames)
  /\ Hosts \cap Range(GroupNames) = {}

Ordered(S) == SelectSeq(Inventory, LAMBDA h : h \in S)

NoVars == <<>>  \* the function with the empty domain

\* Every layer goes over the ones before it, key by key.
Layered(layers) == FoldLeft(LAMBDA under, over : over @@ under, NoVars, layers)

Lookup(f, x) == IF x \in DOMAIN f THEN f[x] ELSE NoVars

-----------------------------------------------------------------------------
(* Var files: group_vars/ and host_vars/.  `disk` maps a group or host to    *)
(* the files of its directory in name order, [vaulted, map]; `password` is   *)
(* "none", "right" or "wrong".                                              *)

\* Mutant of Content: a vault file nobody can open goes in as it is.
ContentSealed(file, password) == file.map

\* `load_var_file`: without a password a vaulted file counts as empty.
Content(file, password) ==
  IF file.vaulted /\ password = "none" THEN NoVars ELSE file.map

OnDisk(disk, name, password) ==
  IF name \in DOMAIN disk
    THEN Layered([i \in DOMAIN disk[name] |-> Content(disk[name][i], password)])
    ELSE NoVars

\* `discover_vars_named` asks for the groups and the hosts the file declares;
\* an implicit localhost has no host_vars.
Asked(raw) == DOMAIN raw.groups \cup {All} \cup UNION {raw.groups[g].members : g \in DOMAIN raw.groups}

FilesRead(raw, disk) == UNION {Range(disk[n]) : n \in Asked(raw) \cap DOMAIN disk}

ValuesOf(map) == {map[k] : k \in DOMAIN map}

\* Mutant of Learned: only what the last file of a directory says is learned.
LearnedLast(raw, disk, password) ==
  UNION {ValuesOf(Last(disk[n]).map) : n \in
           {m \in Asked(raw) \cap DOMAIN disk : Last(disk[m]).vaulted /\ password = "right"}}

\* SecretRegistry: every value that came out of a vault.
Learned(raw, disk, password) ==
  UNION {ValuesOf(f.map) : f \in {g \in FilesRead(raw, disk) : g.vaulted /\ password = "right"}}

-----------------------------------------------------------------------------
(* The inventory.  `raw` is the YAML: vars, stray (hosts under all.hosts),   *)
(* groups : name -> [members, vars, inline : host -> vars].                 *)

GroupsOf(raw) == SelectSeq(GroupNames, LAMBDA g : g \in DOMAIN raw.groups)

\* `all`: the members of the groups in their order, each host once.
AllMembers(raw) ==
  FoldLeft(LAMBDA hs, g : hs \o SelectSeq(Ordered(raw.groups[g].members),
                                          LAMBDA h : h \notin Range(hs)),
           <<>>, GroupsOf(raw))

\* [hosts, groups]: what patterns are resolved against.  The implicit
\* localhost is a host and no member of `all`.
View(raw) ==
  [hosts |-> Range(AllMembers(raw)) \cup {Localhost},
   groups |-> [g \in DOMAIN raw.groups \cup {All} |->
                 IF g = All THEN AllMembers(raw) ELSE Ordered(raw.groups[g].members)]]

MemberOf(raw, h) == SelectSeq(GroupsOf(raw), LAMBDA g : h \in raw.groups[g].members)

\* A host may be declared in several groups; the last one wins, key by key.
Inline(raw, h) ==
  LET of == MemberOf(raw, h)
  IN IF of = <<>> THEN "conn" :> "local"
     ELSE Layered([i \in DOMAIN of |-> Lookup(raw.groups[of[i]].inline, h)])

HostFile(raw, disk, h, password) ==
  IF MemberOf(raw, h) = <<>> THEN NoVars ELSE OnDisk(disk, h, password)

\* The sources in between: of each group its file and its inline vars.
OfGroups(raw, disk, of, password, fileOver) ==
  [i \in 1 .. 2 * Len(of) |->
     LET g == of[(i + 1) \div 2]
     IN IF (i % 2 = 1) = fileOver THEN raw.groups[g].vars ELSE OnDisk(disk, g, password)]

\* `assemble_inventory`: the layers the connection coordinates are taken from.
Coordinates(raw, disk, h, password) ==
  Layered(<<raw.vars, OnDisk(disk, All, password)>>
          \o OfGroups(raw, disk, MemberOf(raw, h), password, FALSE)
          \o <<HostFile(raw, disk, h, password), Inline(raw, h)>>)

\* Mutant of WorldLayers: the host's file goes below those of its groups.
WorldLayersHostFirst(raw, disk, h, password) ==
  <<raw.vars, OnDisk(disk, All, password), HostFile(raw, disk, h, password)>>
  \o OfGroups(raw, disk, MemberOf(raw, h), password, TRUE)
  \o <<Inline(raw, h)>>

\* `build_world_vars`: the same sources, but a group's file goes over its
\* inline vars.
WorldLayers(raw, disk, h, password) ==
  <<raw.vars, OnDisk(disk, All, password)>>
  \o OfGroups(raw, disk, MemberOf(raw, h), password, TRUE)
  \o <<HostFile(raw, disk, h, password), Inline(raw, h)>>

\* What templates see of a host: the layers, and the address as it was
\* resolved for the connection.
World(raw, disk, password) ==
  [h \in View(raw).hosts |->
     (IF h \in Range(AllMembers(raw))
        THEN "addr" :> Coordinates(raw, disk, h, password)["addr"]
        ELSE "addr" :> "loopback")
     @@ Layered(WorldLayers(raw, disk, h, password))]

\* `load_with_vars` gives up: hosts outside any group, `all` declared again, a
\* vault that does not open, a host without an address.
InventoryLoads(raw, disk, password) ==
  /\ raw.stray = {} /\ All \notin DOMAIN raw.groups
  /\ password = "wrong" => \A f \in FilesRead(raw, disk) : ~f.vaulted
  /\ \A h \in Range(AllMembers(raw)) : "addr" \in DOMAIN Coordinates(raw, disk, h, password)

-----------------------------------------------------------------------------
(* Host patterns: sequences of [op : "or" | "and" | "not", names, index].   *)
(* `names` is {All}, the name of a plain term, or what a glob matches        *)
(* (`glob`); `index` is <<>>, <<i>> or <<from, to>>, `Open` an absent end.   *)

Open == 1000

WellFormed(pattern) == pattern # <<>> /\ pattern[1].op = "or"

Plain(term) == ~term.glob /\ term.names # {All} /\ term.op = "or" /\ term.index = <<>>

\* `expand_via_regex`: groups before hosts, each host once.
Matching(names, inv) ==
  FoldLeft(LAMBDA hs, more : hs \o SelectSeq(more, LAMBDA h : h \notin Range(hs)),
           <<>>,
           Append([i \in DOMAIN GroupNames |->
                     IF GroupNames[i] \in names \cap DOMAIN inv.groups
                       THEN inv.groups[GroupNames[i]] ELSE <<>>],
                  Ordered(names \cap inv.hosts)))

\* `expand_term_kind`: a plain name is a group before it is a host, and no name
\* is both here.
Expand(term, inv) == Matching(term.names, inv)

Clamp(i, len) == LET v == IF i < 0 THEN len + i ELSE i
                 IN IF v < 0 THEN 0 ELSE IF v > len THEN len ELSE v

\* `apply_index`: Python's, counted from 0.
Indexed(hs, index) ==
  CASE index = <<>> -> hs
    [] Len(index) = 1 -> LET i == IF index[1] < 0 THEN Len(hs) + index[1] ELSE index[1]
                         IN IF i \in 0 .. Len(hs) - 1 THEN <<hs[i + 1]>> ELSE <<>>
    [] OTHER -> SubSeq(hs, Clamp(index[1], Len(hs)) + 1, Clamp(index[2], Len(hs)))

Matched(term, inv) == Indexed(Expand(term, inv), term.index)

\* Mutant of Resolve: unions first, then intersections, then exclusions.
ResolveSorted(pattern, inv) ==
  LET ofOp(op) == SelectSeq(pattern, LAMBDA term : term.op = op)
  IN FoldLeft(LAMBDA hs, term : LET m == Matched(term, inv) IN
                CASE term.op = "or" -> hs \o SelectSeq(m, LAMBDA h : h \notin Range(hs))
                  [] term.op = "and" -> SelectSeq(hs, LAMBDA h : h \in Range(m))
                  [] OTHER -> SelectSeq(hs, LAMBDA h : h \notin Range(m)),
              <<>>, ofOp("or") \o ofOp("and") \o ofOp("not"))

\* `HostPattern::resolve`: term after term, from left to right.
Resolve(pattern, inv) ==
  FoldLeft(LAMBDA hs, term : LET m == Matched(term, inv) IN
             CASE term.op = "or" -> hs \o SelectSeq(m, LAMBDA h : h \notin Range(hs))
               [] term.op = "and" -> SelectSeq(hs, LAMBDA h : h \in Range(m))
               [] OTHER -> SelectSeq(hs, LAMBDA h : h \notin Range(m)),
           <<>>, pattern)

\* `resolve_play_targets` and `LimitFilter::apply`; <<>> is no limit.
Targeted(hosts, limit, inv) ==
  IF limit = <<>> THEN Resolve(hosts, inv)
  ELSE SelectSeq(Resolve(hosts, inv), LAMBDA h : h \in Range(Resolve(limit, inv)))

-----------------------------------------------------------------------------
(* Tags: `TagFilter::should_run`                                            *)

\* `untagged` stands for a task with no tag but `always` and `never`.
ShouldRun(tags, include, skip) ==
  LET called == IF tags \subseteq {"always", "never"} THEN tags \cup {"untagged"} ELSE tags
  IN /\ "all" \notin skip /\ called \cap skip = {}
     /\ IF include = {} \/ "all" \in include
          THEN "always" \in tags \/ "never" \notin tags
          ELSE "always" \in tags \/ called \cap include # {}

-----------------------------------------------------------------------------
(* Transports: `resolve_host_connection_modes`                              *)

Pinned(seen) == "conn" \in DOMAIN seen /\ seen["conn"] = "local"

\* Mutant of Transports: a play over ssh is not remembered.
TransportsForgetful(plays, world, targets) ==
  LET pinned == {h \in targets : Pinned(world[h])}
      Visit(seen, p) ==
        LET hs == (Range(p.targets) \cap targets) \ pinned
        IN IF p.local THEN [seen EXCEPT !.local = @ \cup hs]
           ELSE [seen EXCEPT !.mixed = @ \/ hs \cap seen.local # {}, !.ssh = @ \cup hs]
  IN FoldLeft(Visit, [local |-> pinned, ssh |-> {}, mixed |-> FALSE], plays)

\* [local, ssh, mixed]: play after play; a host pinned by its own variable is
\* local whatever the plays say.
Transports(plays, world, targets) ==
  LET pinned == {h \in targets : Pinned(world[h])}
      Visit(seen, p) ==
        LET hs == (Range(p.targets) \cap targets) \ pinned
        IN IF p.local THEN [seen EXCEPT !.mixed = @ \/ hs \cap seen.ssh # {}, !.local = @ \cup hs]
           ELSE [seen EXCEPT !.mixed = @ \/ hs \cap seen.local # {}, !.ssh = @ \cup hs]
  IN FoldLeft(Visit, [local |-> pinned, ssh |-> {}, mixed |-> FALSE], plays)
=============================================================================
