-------------------------------- MODULE Wall --------------------------------
(***************************************************************************)
(* The wall: src/runtime/classify.rs and src/runtime/action_required.rs    *)
(* over the table of src/state/mod.rs.  Constant-level operators that say  *)
(* which tool calls of an invocation are allowed.                          *)
(***************************************************************************)
EXTENDS Naturals, Sequences, SequencesExt

CONSTANTS
  Tool,         \* tool names an engine may ask for
  BuiltinKind,  \* BuiltinKind[t]: what classify_tool's table says of a builtin
  Capability,   \* MCP prefixes: [class, tools (names it begins), listed, whole]
  DryRun,       \* tools that dry_run.block names, none when it is off
  SoulNamed,    \* names that begin with SOUL.md
  Root          \* the soul root, a sequence of path segments

ToolClass == {"Read", "Net", "FileWrite", "Post", "SettleTx", "Shell", "Other"}
Kind == {"FileRead", "Read", "Net", "FileWrite", "Shell"}

ASSUME WallAssumption ==
  /\ DOMAIN BuiltinKind \subseteq Tool /\ Range(BuiltinKind) \subseteq Kind
  /\ Capability \subseteq [class : {"Read", "Post", "SettleTx"}, tools : SUBSET Tool,
                           listed : SUBSET Tool, whole : BOOLEAN]
  /\ \A c, d \in Capability : c.tools \cap d.tools # {} => c = d \/ c.class # d.class
  /\ DryRun \subseteq Tool
  /\ "SOUL.md" \in SoulNamed
  /\ SoulNamed \cap {"skills", "stimuli", "prompts", "memory", "agents", "runlogs"} = {}

WakeState == {"perceive", "express", "settle", "reflect"}

\* A path as a tool's input writes it; NoTarget when the input has none.
NoTarget == [abs |-> FALSE, segs |-> <<>>]

\* default_spec: what each state may use, and where it may write.
Scope(s) == CASE s = "perceive" -> {"Read", "Net"}
              [] s = "express"  -> {"Read", "FileWrite", "Post"}
              [] s = "settle"   -> {"Read", "FileWrite", "SettleTx"}
              [] s = "reflect"  -> {"Read", "FileWrite"}

WritableDirs(s) ==
  CASE s = "perceive" -> {}
    [] s \in {"express", "settle"} -> {"memory"}
    [] s = "reflect" -> {"skills", "stimuli", "prompts", "SOUL.md", "memory", "agents"}

\* A file of the soul is the sequence of its segments; the prefixes are directories, but for
\* SOUL.md, which lets in whatever begins with that name.
Permitted(s, file) ==
  \/ Head(file) \in WritableDirs(s) \ {"SOUL.md"} /\ Len(file) > 1
  \/ Head(file) \in SoulNamed /\ "SOUL.md" \in WritableDirs(s)

\* Settle claims before Post, Post before Read: the least of the ranks wins.
ClassRank(c) == CASE c.class = "SettleTx" -> 0 [] c.class = "Post" -> 1 [] c.class = "Read" -> 2

\* Mutant of Claim: the prefixes are searched from the loosest class.
ClaimLoosest(t) == CHOOSE c \in Capability :
  t \in c.tools /\ \A d \in Capability : t \in d.tools => ClassRank(c) >= ClassRank(d)

\* The capability whose prefix claims the tool.
Claim(t) == CHOOSE c \in Capability :
  t \in c.tools /\ \A d \in Capability : t \in d.tools => ClassRank(c) <= ClassRank(d)

\* targets_runlogs: some segment, wherever it stands.
TargetsRunlogs(target) == "runlogs" \in Range(target.segs)

\* classify_tool: a claimed tool off its server's list is Other, as is an unknown one.
Classify(t, target) ==
  IF \E c \in Capability : t \in c.tools
  THEN IF Claim(t).whole \/ t \in Claim(t).listed THEN Claim(t).class ELSE "Other"
  ELSE IF t \notin DOMAIN BuiltinKind THEN "Other"
  ELSE IF BuiltinKind[t] = "FileRead"
       THEN IF TargetsRunlogs(target) THEN "Other" ELSE "Read"
  ELSE BuiltinKind[t]

\* normalize_lexical: `.` is dropped, `..` takes the last segment back.
Normalize(segs) ==
  FoldLeft(LAMBDA done, seg : CASE seg = "."  -> done
                                [] seg = ".." -> IF done = <<>> THEN done ELSE Front(done)
                                [] OTHER      -> Append(done, seg),
           <<>>, segs)

Absolute(target) == Normalize(IF target.abs THEN target.segs ELSE Root \o target.segs)

\* relativize: the path below the soul root; a target outside it has none.
Escapes(target) == ~IsPrefix(Root, Absolute(target))
Relative(target) == SubSeq(Absolute(target), Len(Root) + 1, Len(Absolute(target)))

\* Mutant of WriteTargetAllowed: the segments are taken as they were written.
WriteTargetAllowedRaw(s, target) ==
  target.segs # <<>> /\ (Permitted(s, target.segs) \/ target.abs)

\* write_target_allowed: never runlogs/, and under a writable prefix.
WriteTargetAllowed(s, target) ==
  /\ ~Escapes(target) /\ Relative(target) # <<>>
  /\ Head(Relative(target)) # "runlogs"
  /\ Permitted(s, Relative(target))

\* decide: class scope, then dry run, then the path, then the memory floor, which
\* longTerm says the cycle's trust clears.
Decide(s, longTerm, t, target) ==
  LET class == Classify(t, target) IN
  /\ class \in Scope(s)
  /\ t \notin DryRun
  /\ class = "FileWrite" =>
       /\ target # NoTarget
       /\ WriteTargetAllowed(s, target)
       /\ Head(Relative(target)) = "memory" => longTerm

\* What acted_outward counts, and what the engine is not even offered.
Outward(t, target) == Classify(t, target) \in {"Post", "SettleTx"}

Disallowed(s) == {t \in DOMAIN BuiltinKind :
                    \/ BuiltinKind[t] = "Shell"
                    \/ BuiltinKind[t] = "Net" /\ "Net" \notin Scope(s)}
=============================================================================
