------------------------- MODULE InstallationProofs -------------------------
(***************************************************************************)
(* Proofs about Installation, for any processes, any initial files and     *)
(* edits that hold settings and plugins, and any bounds: what the user has *)
(* chosen is what runs act on, but for what install sets itself, and       *)
(* installing settles.                                                     *)
(***************************************************************************)
EXTENDS Installation, WellFoundedInduction, SequenceTheorems, TLAPS

-----------------------------------------------------------------------------
(* Calls.                                                                  *)
Goals == {"packages", "manifest", "use"}
Steps == {"user file", "opencode", "read user", "read project", "use", "packages",
          "patch", "manifest", "truncate", "write"}

Pending(c) == c.pc \in {"truncate", "write"}

(* Where a call is when what it has to write is written.                   *)
Position(c) == IF Pending(c) THEN c.then ELSE c.pc

IsConfig(config) ==
    /\ config.approval \in BOOLEAN
    /\ Servers \subseteq DOMAIN config.servers
    /\ \A s \in Packaged : /\ config.servers[s].enabled \in BOOLEAN
                           /\ config.servers[s].remote \in BOOLEAN
                           /\ config.servers[s].args \in Seq(Texts)

(* What is written where, and where that leads to.                         *)
Written(c) ==
    /\ c.content = Json(c.content.data) /\ IsData(c.path, c.content.data)
    /\ \/ c.path = "user" /\ c.then = "opencode" /\ c.goal = "packages"
       \/ c.path = "user" /\ c.then = "read project"
       \/ c.path = "opencode" /\ c.then = "read user" /\ c.goal = "packages"
       \/ c.path = "project" /\ c.then = c.goal
       \/ c.path = "project" /\ c.then = "read user" /\ c.goal = "manifest"
       \/ c.path = "manifest" /\ c.then = "done" /\ c.goal = "manifest"
          /\ c.content = Json(c.config.servers)

IsUnderWay(c) ==
    /\ DOMAIN c = {"pc", "goal", "user", "config", "path", "content", "then", "doubt", "alone"}
    /\ c.pc \in Steps /\ c.goal \in Goals
    /\ c.path \in {"user", "project", "opencode", "manifest"}
    /\ c.doubt \in BOOLEAN /\ c.alone \in BOOLEAN
    /\ IsSettings(c.user) /\ IsConfig(c.config)
    /\ c.pc \in {"user file", "opencode", "patch"} => c.goal = "packages"
    /\ c.pc \in Goals => c.goal = c.pc
    /\ Pending(c) => Written(c)

IsCall(c) ==
    \/ c = Idle
    \/ /\ c.pc \in {"done", "failed"}
       /\ DOMAIN c = {"pc", "alone", "doubt"} /\ c.doubt \in BOOLEAN /\ c.alone \in BOOLEAN
    \/ IsUnderWay(c)

Counts == [calls : 0 .. MaxCalls, edits : 0 .. MaxEdits, faults : 0 .. MaxFaults]

Typed ==
    /\ DOMAIN file = Paths
    /\ \A path \in Paths : file[path] \in {Absent, Torn} \/ IsWritten(path, file[path])
    /\ packages \subseteq Packaged
    /\ DOMAIN call = Processes
    /\ \A p \in Processes : IsCall(call[p])
    /\ count \in Counts
    /\ damaged \in BOOLEAN
    /\ patched \in {"no", "yes", "overtaken"}
    /\ wish = [user |-> wish.user, project |-> wish.project, plugins |-> wish.plugins]
    /\ IsSettings(wish.user) /\ IsSettings(wish.project) /\ IsPlugins(wish.plugins)

-----------------------------------------------------------------------------
(* The user's choices.                                                     *)

Approval(raw, default) ==
    IF "approval" \in DOMAIN raw /\ raw.approval # Bad THEN raw.approval ELSE default

Base(user) == Merge(Defaults, Normalized(user))
Chosen == Loaded(wish.user, wish.project)

(* What install's patch may not touch: the fields that decide what starts. *)
Switches == {"enabled", "remote"}

(* The project's settings say what the user has set, if not in the same    *)
(* words ...                                                               *)
Rephrases(data) ==
    /\ \A default \in BOOLEAN : Approval(data, default) = Approval(wish.project, default)
    /\ \A s : s \notin Servers =>
          /\ s \in DOMAIN data.servers <=> s \in DOMAIN wish.project.servers
          /\ s \in DOMAIN data.servers => data.servers[s] = wish.project.servers[s]
    /\ \A s \in Packaged, f \in Switches : Sets(wish.project, s, f) =>
          Sets(data, s, f) /\ data.servers[s][f] = wish.project.servers[s][f]

(* ... and start what the user's choices start, until the user changes the *)
(* file below them; before they are patched, in the same words.            *)
Says(data, stage) ==
    /\ Rephrases(data)
    /\ stage # "overtaken" =>
          \A s \in Packaged, f \in Switches :
             Loaded(wish.user, data).servers[s][f] = Chosen.servers[s][f]
    /\ stage = "no" => data = wish.project

AfterPatch(stage) == IF stage = "no" THEN "yes" ELSE stage

SaysPlugins(data) ==
    data = wish.plugins \/ (~HasTeam(wish.plugins) /\ data = WithTeam(wish.plugins))

Faithful(path, data) ==
    /\ path = "user" => Base(data) = Base(wish.user)
    /\ path = "project" => Says(data, patched)
    /\ path = "opencode" => SaysPlugins(data)

(* What a call is about to write.                                          *)
Brings(c, data) ==
    IF Patching(c) THEN Says(data, AfterPatch(patched)) ELSE Faithful(c.path, data)

CallFaithful(c) ==
    /\ Position(c) = "read project" => Faithful("user", c.user)
    /\ Position(c) \in Goals \cup {"patch"} => Respects(c.config)
    /\ Pending(c) => Brings(c, c.content.data)

FilesFaithful ==
    /\ \A level \in {"user", "project"} : file[level] # Torn => Faithful(level, Raw(level))
    /\ file["opencode"] # Torn => Faithful("opencode", Plugins)

ChoicesKept ==
    ~damaged => /\ FilesFaithful
                /\ \A p \in Processes : \A c \in {call[p]} :
                      Active(p) /\ ~c.doubt => CallFaithful(c)

-----------------------------------------------------------------------------
(* A call that is alone.                                                   *)
Alone(p) == call[p].pc # "idle" /\ call[p].alone

Installing(c) == c.pc = "done" \/ (c.pc \in Steps /\ c.goal # "use")

(* The project's file is what a patch of it would make it.                 *)
PatchMade(data) ==
    /\ Started(Loaded(Raw("user"), data)) \subseteq packages
    /\ data = Patched(data, Loaded(Raw("user"), data))

UserFileThere(c) ==
    c.pc # "user file" /\ ~(c.pc = "truncate" /\ c.then = "opencode") => file["user"] # Absent

Registered(c) ==
    /\ Pending(c) /\ c.path = "opencode" => HasTeam(c.content.data)
    /\ Position(c) \notin {"user file", "opencode"} /\ ~(Pending(c) /\ c.path = "opencode") =>
          (Readable("opencode") => HasTeam(file["opencode"].data))

LoadedNow(c) ==
    /\ Position(c) = "read project" => c.user = Raw("user")
    /\ Position(c) \in Goals \cup {"patch", "done"} => c.config = Current
    /\ Pending(c) /\ Migrating(c) => ~Readable(c.path) /\ c.content.data = Raw(c.path)

PatchedNow(c) ==
    /\ Position(c) = "patch" => Started(c.config) \subseteq packages
    /\ Pending(c) /\ c.path = "project" /\ c.goal = "manifest" =>
          c.then = "read user" /\ (~c.doubt => PatchMade(c.content.data))
    /\ c.pc = "done" \/ (c.goal = "manifest" /\ ~(Pending(c) /\ c.path = "project")) =>
          /\ file["project"] = Json(file["project"].data)
          /\ ~c.doubt => PatchMade(file["project"].data)

Settled(c) ==
    /\ UserFileThere(c) /\ Registered(c) /\ PatchedNow(c)
    /\ c.pc \in Steps => LoadedNow(c)
    /\ c.pc = "done" => file["manifest"] = Json(Current.servers)

Settling(p) ==
    Alone(p) => /\ \A q \in Processes \ {p} : ~Active(q)
                /\ \A c \in {call[p]} : Installing(c) => Settled(c)

(* What the theorems below follow from.                                    *)
Inv == Typed /\ ChoicesKept /\ \A p \in Processes : Settling(p)

-----------------------------------------------------------------------------
(* Arguments.                                                              *)

LEMMA LeastOf ==
    ASSUME NEW S \in SUBSET Nat, S # {}
    PROVE  Min(S) \in S /\ \A x \in S : Min(S) <= x
  <1> DEFINE R == {ss \in Nat \X Nat : ss[1] < ss[2]}
  <1>1. PICK n \in S : \A m \in S : ~(<<m, n>> \in R)
    <2>1. IsWellFoundedOn(R, Nat)
      BY NatLessThanWellFounded DEF OpToRel
    <2> HIDE DEF R
    <2> QED
      BY <2>1, WFMin
  <1>2. ASSUME NEW m \in S
        PROVE  n <= m
    <2>1. m \in Nat /\ n \in Nat /\ <<m, n>> \in Nat \X Nat
      OBVIOUS
    <2>2. ~(m < n)
      BY <1>1, <2>1
    <2> QED
      BY <2>1, <2>2
  <1> QED
    BY <1>2 DEF Min

(* The loop over the pairs ends, where there is none, within the arguments.*)
LEMMA PairsEnd ==
    ASSUME NEW s, NEW args \in Seq(Texts)
    PROVE  /\ Pairs(s, args) \in Nat /\ 2 * Pairs(s, args) <= Len(args)
           /\ ~PairAt(s, args, Pairs(s, args))
           /\ \A n \in Nat : n < Pairs(s, args) => PairAt(s, args, n)
  <1> DEFINE S == {n \in 0 .. Len(args) : ~PairAt(s, args, n)}
  <1>1. Len(args) \in Nat
    BY LenProperties
  <1>2. S \in SUBSET Nat /\ Len(args) \in S
    BY <1>1 DEF PairAt
  <1>3. Min(S) \in S /\ \A x \in S : Min(S) <= x
    <2> HIDE DEF S
    <2> QED
      BY <1>2, LeastOf
  <1>4. Pairs(s, args) = Min(S)
    BY DEF Pairs
  <1>5. Pairs(s, args) \in 0 .. Len(args) /\ ~PairAt(s, args, Pairs(s, args))
    BY <1>3, <1>4
  <1>6. \A n \in Nat : n < Pairs(s, args) => PairAt(s, args, n)
    BY <1>1, <1>3, <1>4, <1>5
  <1>7. 2 * Pairs(s, args) <= Len(args)
    <2>1. CASE Pairs(s, args) = 0
      BY <2>1, <1>1
    <2>2. CASE Pairs(s, args) # 0
      <3>1. Pairs(s, args) - 1 \in Nat /\ Pairs(s, args) - 1 < Pairs(s, args)
        BY <2>2, <1>1, <1>5
      <3>2. PairAt(s, args, Pairs(s, args) - 1)
        BY <1>6, <3>1
      <3>3. 2 * (Pairs(s, args) - 1) + 2 <= Len(args)
        BY <3>2 DEF PairAt
      <3> QED
        BY <3>3, <1>1, <1>5
    <2> QED
      BY <2>1, <2>2
  <1> QED
    BY <1>1, <1>5, <1>6, <1>7

(* What stands behind the pairs does not begin with one, so that the next  *)
(* install finds the one pair that it would write itself.                  *)
LEMMA NormalizedOnce ==
    ASSUME NEW s \in Texts, NEW tail \in Seq(Texts), ~PairAt(s, tail, 0),
           tail = <<>> => FallbackTail(s) = <<>>
    PROVE  NormalizeArgs(s, <<"-y", s>> \o tail) = <<"-y", s>> \o tail
  <1> DEFINE args == <<"-y", s>> \o tail
  <1>0. "-y" \in Texts
    BY InstallationAssumption
  <1>1. /\ args \in Seq(Texts) /\ Len(args) = Len(tail) + 2 /\ Len(tail) \in Nat
        /\ args[1] = "-y" /\ args[2] = s
        /\ \A i \in 1 .. Len(tail) : args[i + 2] = tail[i]
    BY <1>0
  <1> HIDE DEF args
  <1>2. PairAt(s, args, 0) /\ ~PairAt(s, args, 1)
    BY <1>1 DEF PairAt
  <1>3. Pairs(s, args) = 1
    <2>1. ~(1 < Pairs(s, args))
      BY <1>1, <1>2, PairsEnd
    <2>2. Pairs(s, args) # 0
      BY <1>1, <1>2, PairsEnd
    <2> QED
      BY <1>1, <2>1, <2>2, PairsEnd
  <1>4. SubSeq(args, 3, Len(args)) = tail
    BY <1>1
  <1>5. NormalizeArgs(s, args) = <<"-y", s>> \o (IF tail = <<>> THEN FallbackTail(s) ELSE tail)
    <2>1. 2 * Pairs(s, args) + 1 = 3
      BY <1>3
    <2> QED
      BY <2>1, <1>4 DEF NormalizeArgs
  <1> QED
    BY <1>5 DEF args

(* normalizeNpxServerArgs of what it has made changes nothing.             *)
LEMMA NormalizeTwice ==
    ASSUME NEW s \in Packaged, NEW args \in Seq(Texts)
    PROVE  /\ NormalizeArgs(s, args) \in Seq(Texts)
           /\ NormalizeArgs(s, NormalizeArgs(s, args)) = NormalizeArgs(s, args)
  <1> DEFINE k == 2 * Pairs(s, args)
             rest == SubSeq(args, k + 1, Len(args))
             tail == IF rest = <<>> THEN FallbackTail(s) ELSE rest
  <1>1. s \in Texts
    BY InstallationAssumption
  <1>2. k \in Nat /\ k <= Len(args) /\ Len(args) \in Nat
    BY <1>1, PairsEnd
  <1>3. /\ rest \in Seq(Texts) /\ Len(rest) = Len(args) - k
        /\ \A i \in 1 .. Len(rest) : rest[i] = args[k + i]
    BY <1>2
  <1>4. NormalizeArgs(s, args) = <<"-y", s>> \o tail
    BY DEF NormalizeArgs
  <1>5. ~PairAt(s, args, Pairs(s, args))
    BY <1>1, PairsEnd
  <1>6. FallbackTail(s) \in Seq(Texts) /\ Len(FallbackTail(s)) < 2
    BY InstallationAssumption DEF FallbackTail
  <1>7. tail \in Seq(Texts) /\ ~PairAt(s, tail, 0)
    <2>1. CASE rest = <<>>
      BY <2>1, <1>6 DEF PairAt
    <2>2. CASE rest # <<>>
      <3>1. ~PairAt(s, rest, 0)
        BY <1>2, <1>3, <1>5 DEF PairAt
      <3> QED
        BY <2>2, <3>1, <1>3
    <2> QED
      BY <2>1, <2>2
  <1>8. tail = <<>> => FallbackTail(s) = <<>>
    OBVIOUS
  <1> HIDE DEF tail
  <1>9. <<"-y", s>> \o tail \in Seq(Texts)
    BY <1>1, <1>7, InstallationAssumption
  <1> QED
    BY <1>1, <1>4, <1>7, <1>8, <1>9, NormalizedOnce

-----------------------------------------------------------------------------
(* Settings.                                                               *)

(* A normalized server has the fields that are set, as they are set.       *)
LEMMA NormalizedField ==
    ASSUME NEW raw, NEW s, NEW f
    PROVE  /\ "servers" \in DOMAIN Normalized(raw)
           /\ (s \in DOMAIN Normalized(raw).servers /\ f \in DOMAIN Normalized(raw).servers[s])
                <=> Sets(raw, s, f)
           /\ Sets(raw, s, f) => Normalized(raw).servers[s][f] = raw.servers[s][f]
  <1> DEFINE kept == {t \in DOMAIN raw.servers :
                         raw.servers[t] # Bad /\ DOMAIN Fields(raw.servers[t]) # {}}
             servers == [t \in kept |-> Fields(raw.servers[t])]
  <1>1. "servers" \in DOMAIN Normalized(raw) /\ Normalized(raw).servers = servers
    BY DEF Normalized, Spread
  <1>2. DOMAIN servers = kept /\ \A t \in kept : servers[t] = Fields(raw.servers[t])
    OBVIOUS
  <1>3. \A g : (g \in DOMAIN Fields(raw.servers[s])
                  <=> g \in DOMAIN raw.servers[s] /\ raw.servers[s][g] # Bad)
    BY DEF Fields
  <1>4. f \in DOMAIN Fields(raw.servers[s]) => Fields(raw.servers[s])[f] = raw.servers[s][f]
    BY DEF Fields
  <1> QED
    BY <1>1, <1>2, <1>3, <1>4 DEF Sets

LEMMA NormalizedApproval ==
    ASSUME NEW raw
    PROVE  /\ "approval" \in DOMAIN Normalized(raw)
                <=> "approval" \in DOMAIN raw /\ raw.approval # Bad
           /\ "approval" \in DOMAIN Normalized(raw) => Normalized(raw).approval = raw.approval
  BY DEF Normalized, Spread, Fields

(* A packaged server has each field of the last that sets it.              *)
LEMMA MergedField ==
    ASSUME NEW base, NEW raw, NEW s, NEW f,
           s \in DOMAIN base.servers, f \in DOMAIN base.servers[s]
    PROVE  LET merged == Merge(base, Normalized(raw))
           IN  /\ s \in DOMAIN merged.servers /\ f \in DOMAIN merged.servers[s]
               /\ merged.servers[s][f] =
                     IF Sets(raw, s, f) THEN raw.servers[s][f] ELSE base.servers[s][f]
  <1> DEFINE patch == Normalized(raw)
             new == IF s \in DOMAIN patch.servers THEN patch.servers[s] ELSE <<>>
             old == base.servers[s]
  <1>1. /\ s \in DOMAIN Merge(base, patch).servers
        /\ Merge(base, patch).servers[s] = Spread(new, old)
    BY DEF Merge
  <1>2. f \in DOMAIN new <=> Sets(raw, s, f)
    BY NormalizedField
  <1>3. f \in DOMAIN new => new[f] = raw.servers[s][f]
    BY NormalizedField
  <1>4. /\ f \in DOMAIN Spread(new, old)
        /\ Spread(new, old)[f] = IF f \in DOMAIN new THEN new[f] ELSE old[f]
    BY DEF Spread
  <1> QED
    BY <1>1, <1>2, <1>3, <1>4

LEMMA DefaultServers ==
    /\ DOMAIN Defaults.servers = Servers /\ Defaults.approval = TRUE
    /\ \A s \in Servers : /\ DOMAIN Defaults.servers[s] = DOMAIN FieldTypes
                          /\ Defaults.servers[s].enabled \in BOOLEAN
                          /\ Defaults.servers[s].remote \in BOOLEAN
                          /\ Defaults.servers[s].command \in Texts
                          /\ Defaults.servers[s].args \in Seq(Texts)
  <1>1. DOMAIN Defaults.servers = Servers /\ Defaults.approval = TRUE
    BY DEF Defaults
  <1>2. Defaults.servers["filesystem"] =
           [enabled |-> TRUE, remote |-> FALSE, command |-> "mcp-server-filesystem", args |-> <<>>]
    BY DEF Defaults, Servers, Packaged, Npx
  <1>3. Defaults.servers["github"] =
           [enabled |-> TRUE, remote |-> FALSE, command |-> "npx", args |-> <<"-y", "github">>]
    BY DEF Defaults, Servers, Packaged, Npx
  <1>4. \A s \in Fixed : Defaults.servers[s] =
           [enabled |-> TRUE, remote |-> TRUE, command |-> "url", args |-> <<>>]
    BY DEF Defaults, Servers, Fixed, Remote
  <1>5. <<>> \in Seq(Texts) /\ <<"-y", "github">> \in Seq(Texts)
    BY InstallationAssumption DEF Packaged
  <1>6. {"npx", "url", "mcp-server-filesystem"} \subseteq Texts
    BY InstallationAssumption
  <1>7. ASSUME NEW s \in Servers
        PROVE  /\ DOMAIN Defaults.servers[s] = DOMAIN FieldTypes
               /\ Defaults.servers[s].enabled \in BOOLEAN
               /\ Defaults.servers[s].remote \in BOOLEAN
               /\ Defaults.servers[s].command \in Texts
               /\ Defaults.servers[s].args \in Seq(Texts)
    <2>1. DOMAIN FieldTypes = {"enabled", "remote", "command", "args"}
      BY DEF FieldTypes
    <2>2. \E enabled, remote \in BOOLEAN, command \in Texts, args \in Seq(Texts) :
             Defaults.servers[s] = [enabled |-> enabled, remote |-> remote,
                                    command |-> command, args |-> args]
      <3>1. CASE s = "filesystem"
        BY <1>2, <1>5, <1>6, <3>1, Zenon
      <3>2. CASE s = "github"
        BY <1>3, <1>5, <1>6, <3>2, Zenon
      <3>3. CASE s \in Fixed
        BY <1>4, <1>5, <1>6, <3>3, Zenon
      <3> QED
        BY <3>1, <3>2, <3>3 DEF Servers, Packaged
    <2>3. PICK enabled \in BOOLEAN, remote \in BOOLEAN, command \in Texts, args \in Seq(Texts) :
             Defaults.servers[s] = [enabled |-> enabled, remote |-> remote,
                                    command |-> command, args |-> args]
      BY <2>2
    <2> QED
      BY <2>1, <2>3
  <1> QED
    BY <1>1, <1>7

LEMMA LoadedField ==
    ASSUME NEW u, NEW r, NEW s \in Servers, NEW f \in DOMAIN FieldTypes
    PROVE  /\ s \in DOMAIN Loaded(u, r).servers
           /\ Loaded(u, r).servers[s][f] =
                 IF Sets(r, s, f) THEN r.servers[s][f]
                 ELSE IF Sets(u, s, f) THEN u.servers[s][f] ELSE Defaults.servers[s][f]
  <1> DEFINE base == Merge(Defaults, Normalized(u))
  <1>1. s \in DOMAIN Defaults.servers /\ f \in DOMAIN Defaults.servers[s]
    BY DefaultServers
  <1>2. /\ s \in DOMAIN base.servers /\ f \in DOMAIN base.servers[s]
        /\ base.servers[s][f] =
              IF Sets(u, s, f) THEN u.servers[s][f] ELSE Defaults.servers[s][f]
    BY <1>1, MergedField
  <1>3. Loaded(u, r) = Merge(base, Normalized(r))
    BY DEF Loaded
  <1> HIDE DEF base
  <1> QED
    BY <1>2, <1>3, MergedField

LEMMA LoadedApproval ==
    ASSUME NEW u, NEW r
    PROVE  Loaded(u, r).approval = Approval(r, Approval(u, TRUE))
  <1> DEFINE base == Merge(Defaults, Normalized(u))
  <1>1. Defaults.approval = TRUE
    BY DefaultServers
  <1>2. base.approval = Approval(u, TRUE)
    BY <1>1, NormalizedApproval DEF Merge, Approval
  <1>3. Loaded(u, r).approval = Approval(r, base.approval)
    BY NormalizedApproval DEF Loaded, Merge, Approval
  <1> QED
    BY <1>2, <1>3

(* What is loaded is a configuration.                                      *)
LEMMA LoadedConfig ==
    ASSUME NEW u, NEW r, IsSettings(u), IsSettings(r)
    PROVE  IsConfig(Loaded(u, r))
  <1>1. \A raw \in {u, r} : \A s, f : Sets(raw, s, f) =>
           f \in DOMAIN FieldTypes /\ raw.servers[s][f] \in FieldTypes[f]
    BY DEF Sets, IsSettings, IsServer
  <1>2. \A s \in Servers : \A f \in DOMAIN FieldTypes :
           Defaults.servers[s][f] \in FieldTypes[f]
    BY DefaultServers DEF FieldTypes
  <1>3. \A s \in Servers : \A f \in DOMAIN FieldTypes :
           Loaded(u, r).servers[s][f] \in FieldTypes[f]
    BY <1>1, <1>2, LoadedField
  <1>4. Servers \subseteq DOMAIN Loaded(u, r).servers
    BY LoadedField DEF FieldTypes
  <1>5. \A raw \in {u, r} : \A d \in BOOLEAN : Approval(raw, d) \in BOOLEAN
    BY Zenon DEF Approval, IsSettings
  <1>6. Loaded(u, r).approval \in BOOLEAN
    BY <1>5, LoadedApproval
  <1>7. \A s \in Packaged : /\ Loaded(u, r).servers[s].enabled \in BOOLEAN
                            /\ Loaded(u, r).servers[s].remote \in BOOLEAN
                            /\ Loaded(u, r).servers[s].args \in Seq(Texts)
    <2>1. /\ {"enabled", "remote", "args"} \subseteq DOMAIN FieldTypes
          /\ FieldTypes["enabled"] = BOOLEAN /\ FieldTypes["remote"] = BOOLEAN
          /\ FieldTypes["args"] = Seq(Texts)
      BY DEF FieldTypes
    <2>2. Packaged \subseteq Servers
      BY DEF Servers
    <2> QED
      BY <1>3, <2>1, <2>2
  <1> QED
    BY <1>4, <1>6, <1>7 DEF IsConfig

LEMMA DefaultsAreSettings == IsSettings(Defaults) /\ IsSettings(Nothing)
  <1>1. IsSettings(Nothing)
    BY DEF IsSettings, Nothing
  <1>2. DOMAIN Defaults = {"approval", "servers"}
    BY DEF Defaults
  <1>3. \A s \in Servers : IsServer(Defaults.servers[s])
    BY DefaultServers DEF IsServer, FieldTypes
  <1> QED
    BY <1>1, <1>2, <1>3, DefaultServers DEF IsSettings

LEMMA LoadedOn == ASSUME NEW u, NEW r PROVE Loaded(u, r) = Merge(Base(u), Normalized(r))
  BY DEF Loaded, Base

(* A user's file that install has made says what none says.                *)
LEMMA DefaultsAsNothing == Base(Defaults) = Base(Nothing)
  <1> DEFINE Same(s) == [x \in DOMAIN Defaults.servers[s] |-> Defaults.servers[s][x]]
             New(raw, s) == IF s \in DOMAIN Normalized(raw).servers
                            THEN Normalized(raw).servers[s] ELSE <<>>
  <1>1. ASSUME NEW raw \in {Defaults, Nothing}
        PROVE  Base(raw) = [approval |-> TRUE, servers |-> [s \in Servers |-> Same(s)]]
    <2>1. /\ Defaults.approval = TRUE /\ DOMAIN Defaults.servers = Servers
          /\ raw = Defaults => raw.approval = TRUE /\ DOMAIN raw.servers = Servers
          /\ raw = Nothing => "approval" \notin DOMAIN raw /\ DOMAIN raw.servers = {}
      BY DefaultServers DEF Nothing
    <2>2. (IF "approval" \in DOMAIN Normalized(raw) THEN Normalized(raw).approval
           ELSE Defaults.approval) = TRUE
      BY <2>1, NormalizedApproval
    <2>3. \A s : s \in DOMAIN Normalized(raw).servers =>
             s \in Servers /\ raw = Defaults /\ Normalized(raw).servers[s] = Fields(raw.servers[s])
      <3>1. Normalized(raw).servers =
               [s \in {t \in DOMAIN raw.servers :
                         raw.servers[t] # Bad /\ DOMAIN Fields(raw.servers[t]) # {}}
                  |-> Fields(raw.servers[s])]
        BY DEF Normalized, Spread
      <3> QED
        BY <2>1, <3>1
    <2>4. ASSUME NEW s \in Servers
          PROVE  Spread(New(raw, s), Defaults.servers[s]) = Same(s)
      <3>1. CASE s \in DOMAIN Normalized(raw).servers
        <4>1. New(raw, s) = Fields(Defaults.servers[s])
          BY <2>3, <3>1
        <4> HIDE DEF New
        <4> QED
          BY <4>1 DEF Spread, Fields
      <3>2. CASE s \notin DOMAIN Normalized(raw).servers
        <4>1. New(raw, s) = <<>> /\ DOMAIN New(raw, s) = {}
          BY <3>2
        <4> HIDE DEF New
        <4> QED
          BY <4>1 DEF Spread
      <3> QED
        BY <3>1, <3>2
    <2>5. Base(raw) =
             [approval |-> TRUE,
              servers |-> [s \in Servers \cup DOMAIN Normalized(raw).servers |->
                  Spread(New(raw, s), IF s \in Servers THEN Defaults.servers[s] ELSE NewServer(s))]]
      BY <2>1, <2>2, Zenon DEF Base, Merge
    <2>6. Servers \cup DOMAIN Normalized(raw).servers = Servers
      BY <2>3
    <2> HIDE DEF New, Same
    <2> QED
      BY <2>4, <2>5, <2>6
  <1> QED
    BY <1>1

(* A server that has no default is what the project's settings make of it. *)
LEMMA OtherServer ==
    ASSUME NEW u, NEW r, NEW w, NEW s,
           s \in DOMAIN r.servers <=> s \in DOMAIN w.servers,
           s \in DOMAIN r.servers => r.servers[s] = w.servers[s]
    PROVE  /\ s \in DOMAIN Loaded(u, r).servers <=> s \in DOMAIN Loaded(u, w).servers
           /\ s \in DOMAIN Loaded(u, w).servers =>
                 Loaded(u, r).servers[s] = Loaded(u, w).servers[s]
  <1>1. ASSUME NEW raw
        PROVE  /\ s \in DOMAIN Normalized(raw).servers <=>
                     /\ s \in DOMAIN raw.servers /\ raw.servers[s] # Bad
                     /\ DOMAIN Fields(raw.servers[s]) # {}
               /\ s \in DOMAIN Normalized(raw).servers =>
                     Normalized(raw).servers[s] = Fields(raw.servers[s])
    BY DEF Normalized, Spread
  <1>2. /\ s \in DOMAIN Normalized(r).servers <=> s \in DOMAIN Normalized(w).servers
        /\ s \in DOMAIN Normalized(r).servers =>
              Normalized(r).servers[s] = Normalized(w).servers[s]
    BY <1>1
  <1>3. ASSUME NEW base, NEW patch
        PROVE  /\ DOMAIN Merge(base, patch).servers
                     = DOMAIN base.servers \cup DOMAIN patch.servers
               /\ s \in DOMAIN Merge(base, patch).servers =>
                     Merge(base, patch).servers[s] =
                        Spread(IF s \in DOMAIN patch.servers THEN patch.servers[s] ELSE <<>>,
                               IF s \in DOMAIN base.servers THEN base.servers[s] ELSE NewServer(s))
    BY DEF Merge
  <1> QED
    BY <1>2, <1>3, LoadedOn

(* What says what the user has set is loaded as what the user has chosen.  *)
LEMMA SaidIsRespected ==
    ASSUME NEW u, Base(u) = Base(wish.user), NEW r, Says(r, patched), IsSettings(wish.user)
    PROVE  Respects(Loaded(u, r))
  <1> DEFINE config == Loaded(wish.user, r)
  <1>1. Loaded(u, r) = config
    BY LoadedOn
  <1>2. patched = "no" => config = Chosen
    BY DEF Says, Chosen
  <1>3. config.approval = Chosen.approval
    <2>1. Approval(wish.user, TRUE) \in BOOLEAN
      BY Zenon DEF Approval, IsSettings
    <2>2. Approval(r, Approval(wish.user, TRUE)) = Approval(wish.project, Approval(wish.user, TRUE))
      BY <2>1 DEF Says, Rephrases
    <2> QED
      BY <2>2, LoadedApproval DEF Chosen
  <1>4. \A s \in Servers : s \in DOMAIN config.servers /\ s \in DOMAIN Chosen.servers
    BY LoadedField DEF Chosen, FieldTypes
  <1>5. \A s : s \notin Servers =>
           /\ s \in DOMAIN config.servers <=> s \in DOMAIN Chosen.servers
           /\ s \in DOMAIN Chosen.servers => config.servers[s] = Chosen.servers[s]
    BY OtherServer DEF Says, Rephrases, Chosen
  <1>6. DOMAIN config.servers = DOMAIN Chosen.servers
    BY <1>4, <1>5
  <1>7. ASSUME NEW s \in Packaged, NEW f \in Switches,
               patched = "yes" \/ Sets(wish.project, s, f)
        PROVE  config.servers[s][f] = Chosen.servers[s][f]
    <2>1. CASE patched = "yes"
      BY <2>1 DEF Says
    <2>2. CASE Sets(wish.project, s, f)
      <3>1. Sets(r, s, f) /\ r.servers[s][f] = wish.project.servers[s][f]
        BY <2>2 DEF Says, Rephrases
      <3>2. s \in Servers /\ f \in DOMAIN FieldTypes
        BY DEF Servers, FieldTypes, Switches
      <3> QED
        BY <2>2, <3>1, <3>2, LoadedField DEF Chosen
    <2> QED
      BY <1>7, <2>1, <2>2
  <1> HIDE DEF config
  <1> QED
    BY <1>1, <1>2, <1>3, <1>5, <1>6, <1>7 DEF Respects, Chosen, Switches

-----------------------------------------------------------------------------
(* The patch.                                                              *)

LEMMA PatchedFixed ==
    ASSUME NEW existing, NEW config, "servers" \in DOMAIN existing, NEW s \in Fixed
    PROVE  /\ s \in DOMAIN Patched(existing, config).servers
           /\ Patched(existing, config).servers[s] = Remote(s)
  BY DEF Patched, Spread, ServerPatch

LEMMA PatchedStarted ==
    ASSUME NEW existing, NEW config, "servers" \in DOMAIN existing, NEW s \in Started(config)
    PROVE  /\ s \in DOMAIN Patched(existing, config).servers
           /\ Patched(existing, config).servers[s] =
                 Npx(TRUE, NormalizeArgs(s, config.servers[s].args))
  <1>1. s \notin Fixed
    BY DEF Fixed, Started, Packaged
  <1> QED
    BY <1>1 DEF Patched, Spread, ServerPatch

LEMMA PatchedOther ==
    ASSUME NEW existing, NEW config, "servers" \in DOMAIN existing,
           NEW s, s \notin Fixed \cup Started(config)
    PROVE  /\ s \in DOMAIN Patched(existing, config).servers <=> s \in DOMAIN existing.servers
           /\ s \in DOMAIN existing.servers =>
                 Patched(existing, config).servers[s] = existing.servers[s]
  BY DEF Patched, Spread, ServerPatch

LEMMA PatchedRest ==
    ASSUME NEW existing, NEW config
    PROVE  /\ DOMAIN Patched(existing, config) = DOMAIN existing
           /\ "approval" \in DOMAIN existing =>
                 Patched(existing, config).approval = existing.approval
  BY DEF Patched

(* A server as install writes it has every field, of the right type.       *)
LEMMA WholeServer ==
    ASSUME NEW raw, NEW s, s \in DOMAIN raw.servers, NEW enabled \in BOOLEAN,
           NEW remote \in BOOLEAN, NEW command \in Texts, NEW args \in Seq(Texts),
           raw.servers[s] = [enabled |-> enabled, remote |-> remote,
                             command |-> command, args |-> args]
    PROVE  /\ IsServer(raw.servers[s])
           /\ \A f \in DOMAIN FieldTypes : Sets(raw, s, f)
  <1>1. /\ raw.servers[s] \in
              [enabled : BOOLEAN, remote : BOOLEAN, command : Texts, args : Seq(Texts)]
        /\ raw.servers[s] # Bad
    BY InstallationAssumption
  <1>2. enabled # Bad /\ remote # Bad /\ command # Bad /\ args # Bad
    BY InstallationAssumption
  <1>3. IsServer(raw.servers[s])
    BY DEF IsServer, FieldTypes
  <1> QED
    <2>1. DOMAIN FieldTypes = {"enabled", "remote", "command", "args"}
      BY DEF FieldTypes
    <2> QED
      BY <1>1, <1>2, <1>3, <2>1 DEF Sets

LEMMA PatchedIsSettings ==
    ASSUME NEW existing, NEW config, IsSettings(existing), IsConfig(config)
    PROVE  IsSettings(Patched(existing, config))
  <1> DEFINE data == Patched(existing, config)
  <1>1. "servers" \in DOMAIN existing
    BY DEF IsSettings
  <1>2. ASSUME NEW s \in DOMAIN data.servers
        PROVE  IsServer(data.servers[s])
    <2>1. CASE s \in Fixed
      <3>1. data.servers[s] = [enabled |-> TRUE, remote |-> TRUE, command |-> "url", args |-> <<>>]
        <4>1. data.servers[s] = Remote(s)
          BY <1>1, <2>1, PatchedFixed
        <4> QED
          BY <4>1 DEF Remote
      <3>2. TRUE \in BOOLEAN /\ "url" \in Texts /\ <<>> \in Seq(Texts)
        BY InstallationAssumption
      <3> HIDE DEF data
      <3> QED
        BY <3>1, <3>2, WholeServer
    <2>2. CASE s \in Started(config)
      <3> DEFINE args == NormalizeArgs(s, config.servers[s].args)
      <3>1. data.servers[s] = [enabled |-> TRUE, remote |-> FALSE, command |-> "npx", args |-> args]
        BY <1>1, <2>2, PatchedStarted DEF Npx
      <3>2. s \in Packaged /\ config.servers[s].args \in Seq(Texts)
        BY <2>2 DEF Started, IsConfig
      <3>3. TRUE \in BOOLEAN /\ FALSE \in BOOLEAN /\ "npx" \in Texts /\ args \in Seq(Texts)
        BY <3>2, NormalizeTwice, InstallationAssumption
      <3> HIDE DEF data, args
      <3> QED
        BY <3>1, <3>3, WholeServer
    <2>3. CASE s \notin Fixed \cup Started(config)
      <3>1. s \in DOMAIN existing.servers /\ data.servers[s] = existing.servers[s]
        BY <1>1, <2>3, PatchedOther
      <3> HIDE DEF data
      <3> QED
        BY <3>1 DEF IsSettings
    <2> QED
      BY <2>1, <2>2, <2>3
  <1>3. /\ DOMAIN data = DOMAIN existing
        /\ "approval" \in DOMAIN existing => data.approval = existing.approval
    BY PatchedRest
  <1> HIDE DEF data
  <1> QED
    BY <1>2, <1>3 DEF IsSettings, data

(* A package that is started is patched so that it is started again, with  *)
(* the same arguments, and one that is not keeps what was set of it: what  *)
(* install would write after its own patch is what is there.               *)
LEMMA PatchTwice ==
    ASSUME NEW u, NEW existing, IsSettings(u), IsSettings(existing)
    PROVE  LET data == Patched(existing, Loaded(u, existing))
           IN  /\ Started(Loaded(u, data)) = Started(Loaded(u, existing))
               /\ Patched(data, Loaded(u, data)) = data
  <1> DEFINE c == Loaded(u, existing)
             data == Patched(existing, c)
             d == Loaded(u, data)
             args(s) == NormalizeArgs(s, c.servers[s].args)
  <1>1. IsConfig(c) /\ "servers" \in DOMAIN existing
    BY LoadedConfig DEF IsSettings
  <1>2. "servers" \in DOMAIN data
    BY <1>1, PatchedRest
  <1>3. ASSUME NEW s \in Started(c)
        PROVE  /\ d.servers[s].enabled = TRUE /\ d.servers[s].remote = FALSE
               /\ d.servers[s].args = args(s)
               /\ NormalizeArgs(s, d.servers[s].args) = args(s)
               /\ s \in Packaged
    <2>1. s \in Packaged /\ s \in Servers /\ c.servers[s].args \in Seq(Texts)
      BY <1>1 DEF Started, IsConfig, Servers
    <2>2. args(s) \in Seq(Texts) /\ NormalizeArgs(s, args(s)) = args(s)
      BY <2>1, NormalizeTwice
    <2>3. /\ s \in DOMAIN data.servers
          /\ data.servers[s] = [enabled |-> TRUE, remote |-> FALSE,
                                command |-> "npx", args |-> args(s)]
      <3>1. s \in DOMAIN data.servers /\ data.servers[s] = Npx(TRUE, args(s))
        BY <1>1, PatchedStarted
      <3> QED
        BY <3>1 DEF Npx
    <2>4. TRUE \in BOOLEAN /\ FALSE \in BOOLEAN /\ "npx" \in Texts
      BY InstallationAssumption
    <2> HIDE DEF data, args, c
    <2>5. \A f \in DOMAIN FieldTypes : Sets(data, s, f)
      BY <2>2, <2>3, <2>4, WholeServer
    <2>6. \A f \in DOMAIN FieldTypes : d.servers[s][f] = data.servers[s][f]
      BY <2>1, <2>5, LoadedField
    <2>7. {"enabled", "remote", "args"} \subseteq DOMAIN FieldTypes
      BY DEF FieldTypes
    <2> HIDE DEF d
    <2> QED
      BY <2>1, <2>2, <2>3, <2>6, <2>7
  <1>4. ASSUME NEW s \in Packaged, s \notin Started(c)
        PROVE  s \notin Started(d)
    <2>1. s \notin Fixed /\ s \in Servers
      BY DEF Fixed, Packaged, Servers
    <2>2. /\ s \in DOMAIN data.servers <=> s \in DOMAIN existing.servers
          /\ s \in DOMAIN existing.servers => data.servers[s] = existing.servers[s]
      BY <1>1, <1>4, <2>1, PatchedOther
    <2> HIDE DEF data
    <2>3. \A f : Sets(data, s, f) <=> Sets(existing, s, f)
      BY <2>2 DEF Sets
    <2>4. \A f \in DOMAIN FieldTypes : d.servers[s][f] = c.servers[s][f]
      BY <2>1, <2>2, <2>3, LoadedField DEF Sets
    <2>5. {"enabled", "remote"} \subseteq DOMAIN FieldTypes
      BY DEF FieldTypes
    <2> HIDE DEF c, d
    <2> QED
      BY <1>4, <2>4, <2>5, Zenon DEF Started
  <1>5. Started(d) = Started(c)
    <2>1. Started(c) \subseteq Started(d)
      BY <1>3 DEF Started
    <2>2. Started(d) \subseteq Packaged
      BY DEF Started
    <2> HIDE DEF c, d
    <2> QED
      BY <1>4, <2>1, <2>2
  <1>6. Patched(data, d) = data
    <2> DEFINE servers == Spread(ServerPatch(d), data.servers)
    <2>1. /\ data.servers = [s \in DOMAIN data.servers |-> data.servers[s]]
          /\ data = [x \in DOMAIN data |-> data[x]]
      BY <1>1 DEF Patched, Spread
    <2>2. \A s \in Fixed \cup Started(c) : s \in DOMAIN data.servers
      BY <1>1, PatchedFixed, PatchedStarted
    <2>3. DOMAIN ServerPatch(d) = Fixed \cup Started(c)
      BY <1>5 DEF ServerPatch
    <2>4. \A s \in Fixed : data.servers[s] = Remote(s) /\ ServerPatch(d)[s] = Remote(s)
      <3>1. \A s \in Fixed : data.servers[s] = Remote(s)
        BY <1>1, PatchedFixed
      <3>2. \A s \in Fixed : ServerPatch(d)[s] = Remote(s)
        BY DEF ServerPatch
      <3> QED
        BY <3>1, <3>2
    <2>5. ASSUME NEW s \in Started(c)
          PROVE  ServerPatch(d)[s] = data.servers[s]
      <3>1. s \notin Fixed /\ s \in Started(d)
        BY <1>3, <1>5 DEF Fixed, Packaged
      <3>2. ServerPatch(d)[s] = Npx(TRUE, NormalizeArgs(s, d.servers[s].args))
        BY <3>1 DEF ServerPatch
      <3>3. data.servers[s] = Npx(TRUE, args(s))
        BY <1>1, PatchedStarted
      <3> HIDE DEF data, d, args
      <3> QED
        BY <1>3, <3>2, <3>3
    <2> HIDE DEF data, d, c
    <2>6. servers = data.servers
      BY <2>1, <2>2, <2>3, <2>4, <2>5 DEF Spread
    <2>7. Patched(data, d) = [data EXCEPT !.servers = servers]
      BY DEF Patched
    <2> QED
      BY <1>2, <2>1, <2>6, <2>7
  <1> QED
    BY <1>5, <1>6

(* The patch keeps what the user has set, since a package is started only  *)
(* where the user's choices start it.                                      *)
LEMMA PatchedSays ==
    ASSUME NEW existing, NEW config, IsSettings(existing), IsConfig(config),
           Says(existing, patched), Respects(config),
           patched \in {"no", "yes", "overtaken"}
    PROVE  Says(Patched(existing, config), AfterPatch(patched))
  <1> DEFINE data == Patched(existing, config)
  <1>1. "servers" \in DOMAIN existing
    BY DEF IsSettings
  <1>2. /\ DOMAIN data = DOMAIN existing
        /\ "approval" \in DOMAIN existing => data.approval = existing.approval
    BY PatchedRest
  <1>3. \A default \in BOOLEAN : Approval(data, default) = Approval(wish.project, default)
    <2> HIDE DEF data
    <2> QED
      BY <1>2 DEF Approval, Says, Rephrases
  <1>4. Started(config) \subseteq Packaged /\ Packaged \subseteq Servers /\ Fixed \subseteq Servers
    BY DEF Started, Servers
  <1>5. ASSUME NEW s, s \notin Servers
        PROVE  /\ s \in DOMAIN data.servers <=> s \in DOMAIN wish.project.servers
               /\ s \in DOMAIN data.servers => data.servers[s] = wish.project.servers[s]
    <2>1. s \notin Fixed \cup Started(config)
      BY <1>4, <1>5
    <2>2. /\ s \in DOMAIN data.servers <=> s \in DOMAIN existing.servers
          /\ s \in DOMAIN existing.servers => data.servers[s] = existing.servers[s]
      BY <1>1, <2>1, PatchedOther
    <2> HIDE DEF data
    <2> QED
      BY <1>5, <2>2 DEF Says, Rephrases
  <1>6. ASSUME NEW s \in Started(config), NEW f \in Switches
        PROVE  Sets(data, s, f) /\ data.servers[s][f] = config.servers[s][f]
    <2> DEFINE args == NormalizeArgs(s, config.servers[s].args)
    <2>1. s \in DOMAIN data.servers /\ data.servers[s] = Npx(TRUE, args)
      BY <1>1, PatchedStarted
    <2>2. /\ s \in Packaged /\ config.servers[s].args \in Seq(Texts)
          /\ config.servers[s].enabled = TRUE /\ config.servers[s].remote = FALSE
      <3>1. s \in Packaged
        BY <1>4
      <3>2. /\ config.servers[s].args \in Seq(Texts)
            /\ config.servers[s].enabled \in BOOLEAN /\ config.servers[s].remote \in BOOLEAN
        BY <3>1, Zenon DEF IsConfig
      <3>3. config.servers[s].enabled /\ ~config.servers[s].remote
        BY DEF Started
      <3> QED
        BY <3>1, <3>2, <3>3, Zenon
    <2>3. args \in Seq(Texts) /\ TRUE \in BOOLEAN /\ FALSE \in BOOLEAN /\ "npx" \in Texts
      BY <2>2, NormalizeTwice, InstallationAssumption
    <2>4. data.servers[s] = [enabled |-> TRUE, remote |-> FALSE, command |-> "npx", args |-> args]
      BY <2>1 DEF Npx
    <2>5. f \in DOMAIN FieldTypes
      BY DEF FieldTypes, Switches
    <2> HIDE DEF data, args
    <2>6. Sets(data, s, f)
      BY <2>1, <2>3, <2>4, <2>5, WholeServer
    <2>7. data.servers[s].enabled = TRUE /\ data.servers[s].remote = FALSE
      BY <2>4
    <2> QED
      BY <2>2, <2>6, <2>7, Zenon DEF Switches
  <1>7. ASSUME NEW s \in Packaged, s \notin Started(config), NEW f
        PROVE  /\ Sets(data, s, f) <=> Sets(existing, s, f)
               /\ Sets(data, s, f) => data.servers[s][f] = existing.servers[s][f]
    <2>1. s \notin Fixed
      BY DEF Fixed, Packaged
    <2>2. /\ s \in DOMAIN data.servers <=> s \in DOMAIN existing.servers
          /\ s \in DOMAIN existing.servers => data.servers[s] = existing.servers[s]
      BY <1>1, <1>7, <2>1, PatchedOther
    <2> HIDE DEF data
    <2> QED
      BY <2>2 DEF Sets
  <1>8. \A s \in Packaged, f \in Switches : s \in Servers /\ f \in DOMAIN FieldTypes
    BY DEF Servers, FieldTypes, Switches
  <1> HIDE DEF data
  <1>9. ASSUME NEW s \in Packaged, NEW f \in Switches, Sets(wish.project, s, f)
        PROVE  Sets(data, s, f) /\ data.servers[s][f] = wish.project.servers[s][f]
    <2>1. Sets(existing, s, f) /\ existing.servers[s][f] = wish.project.servers[s][f]
      BY <1>9 DEF Says, Rephrases
    <2>2. config.servers[s][f] = wish.project.servers[s][f]
      <3>1. config.servers[s][f] = Chosen.servers[s][f]
        BY <1>9 DEF Respects, Chosen, Switches
      <3> QED
        BY <1>8, <1>9, <3>1, LoadedField DEF Chosen
    <2>3. CASE s \in Started(config)
      BY <1>6, <2>2, <2>3
    <2>4. CASE s \notin Started(config)
      BY <1>7, <2>1, <2>4
    <2> QED
      BY <2>3, <2>4
  <1>10. ASSUME patched # "overtaken",
                NEW s \in Packaged, NEW f \in Switches
         PROVE  Loaded(wish.user, data).servers[s][f] = Chosen.servers[s][f]
    <2>1. CASE s \in Started(config)
      <3>1. Loaded(wish.user, data).servers[s][f] = config.servers[s][f]
        BY <1>6, <1>8, <2>1, LoadedField
      <3>2. config.servers[s][f] = Chosen.servers[s][f]
        BY <1>10 DEF Respects, Chosen, Switches
      <3> QED
        BY <3>1, <3>2
    <2>2. CASE s \notin Started(config)
      <3>1. Loaded(wish.user, data).servers[s][f] = Loaded(wish.user, existing).servers[s][f]
        BY <1>7, <1>8, <2>2, LoadedField
      <3> QED
        BY <1>10, <3>1 DEF Says
    <2> QED
      BY <2>1, <2>2
  <1>11. Rephrases(data)
    BY <1>3, <1>5, <1>9 DEF Rephrases
  <1> QED
    BY <1>10, <1>11 DEF Says, AfterPatch, data

-----------------------------------------------------------------------------
(* Files.                                                                  *)
Legacy == {"userLegacy", "userOlder", "projectLegacy"}
Levels == {"user", "project"}

LEMMA LocationsOf ==
    ASSUME NEW level \in Levels
    PROVE  /\ DOMAIN Locations[level] \subseteq Nat /\ 1 \in DOMAIN Locations[level]
           /\ Locations[level][1] = level
           /\ \A i \in DOMAIN Locations[level] :
                 /\ i >= 1 /\ Locations[level][i] \in UserPaths \ {"opencode"}
                 /\ i # 1 => Locations[level][i] \in Legacy
  BY DEF Levels, Locations, Legacy, UserPaths

LEMMA SourceOf ==
    ASSUME NEW level \in Levels
    PROVE  /\ Sources(level) \in SUBSET Nat
           /\ Sources(level) # {} => /\ Min(Sources(level)) \in Sources(level)
                                     /\ \A i \in Sources(level) : Min(Sources(level)) <= i
  <1>1. Sources(level) \in SUBSET Nat
    BY LocationsOf DEF Sources
  <1> QED
    BY <1>1, LeastOf

(* A file that can be read is what its level comes from.                   *)
LEMMA RawReadable ==
    ASSUME NEW level \in Levels, Readable(level)
    PROVE  Source(level) = level /\ Raw(level) = file[level].data
  <1>1. 1 \in Sources(level) /\ \A i \in Sources(level) : i >= 1
    BY LocationsOf DEF Sources
  <1>2. Min(Sources(level)) = 1
    BY <1>1, SourceOf
  <1> QED
    BY <1>1, <1>2, LocationsOf DEF Source, Raw

LEMMA RawUnreadable ==
    ASSUME NEW level \in Levels, ~Readable(level), Source(level) = level
    PROVE  Sources(level) = {} /\ Raw(level) = Nothing
  <1>1. ASSUME Sources(level) # {}
        PROVE  FALSE
    <2> DEFINE i == Min(Sources(level))
    <2>1. i \in DOMAIN Locations[level] /\ Readable(Locations[level][i])
      BY <1>1, SourceOf DEF Sources
    <2>2. Locations[level][i] = level
      BY <1>1 DEF Source
    <2> QED
      BY <2>1, <2>2
  <1> QED
    BY <1>1 DEF Raw

FilesTyped ==
    /\ DOMAIN file = Paths
    /\ \A path \in Paths : file[path] \in {Absent, Torn} \/ IsWritten(path, file[path])

LEMMA RawSettings ==
    ASSUME FilesTyped, NEW level \in Levels
    PROVE  IsSettings(Raw(level))
  <1>1. CASE Sources(level) = {}
    BY <1>1, DefaultsAreSettings DEF Raw
  <1>2. CASE Sources(level) # {}
    <2> DEFINE path == Locations[level][Min(Sources(level))]
    <2>1. path \in UserPaths \ {"opencode"} /\ Readable(path)
      BY <1>2, SourceOf, LocationsOf DEF Sources
    <2>2. Raw(level) = file[path].data
      BY <1>2 DEF Raw, Source
    <2> HIDE DEF path
    <2>3. file[path] \notin {Absent, Torn}
      BY <2>1 DEF Readable, Absent, Torn
    <2>4. IsWritten(path, file[path])
      BY <2>1, <2>3 DEF FilesTyped, Paths
    <2> QED
      BY <2>1, <2>2, <2>4 DEF IsWritten, IsData, UserPaths
  <1> QED
    BY <1>1, <1>2

LEMMA RawTyped ==
    ASSUME Typed, NEW level \in Levels
    PROVE  IsSettings(Raw(level))
  <1>1. FilesTyped
    BY DEF FilesTyped, Typed
  <1> QED
    BY <1>1, RawSettings

LEMMA AddedTeam ==
    ASSUME NEW plugins, IsPlugins(plugins)
    PROVE  IsPlugins(WithTeam(plugins)) /\ HasTeam(WithTeam(plugins))
  <1> DEFINE data == WithTeam(plugins)
  <1>1. plugins.names \in Seq(Texts) /\ Team \in Texts /\ Len(plugins.names) \in Nat
    BY InstallationAssumption DEF IsPlugins
  <1>2. data = [names |-> Append(plugins.names, Team), others |-> FALSE]
    BY DEF WithTeam
  <1> HIDE DEF data
  <1>3. /\ data.names[Len(plugins.names) + 1] = Team
        /\ Len(plugins.names) + 1 \in DOMAIN data.names
    BY <1>1, <1>2
  <1>4. HasTeam(data)
    BY <1>3 DEF HasTeam
  <1>5. IsPlugins(data)
    BY <1>1, <1>2 DEF IsPlugins
  <1> QED
    BY <1>4, <1>5 DEF data

LEMMA PluginsTyped ==
    ASSUME FilesTyped
    PROVE  IsPlugins(Plugins)
  <1>1. CASE Readable("opencode")
    <2>1. file["opencode"] \notin {Absent, Torn}
      BY <1>1 DEF Readable, Absent, Torn
    <2> QED
      BY <1>1, <2>1 DEF FilesTyped, Paths, UserPaths, IsWritten, IsData, Plugins
  <1>2. CASE ~Readable("opencode")
    BY <1>2 DEF Plugins, NoPlugins, IsPlugins
  <1> QED
    BY <1>1, <1>2

(* A level stays what it is while its own file is as it was, or cannot be  *)
(* read before and after: legacy files are never written.                  *)
LEMMA RawStays ==
    ASSUME NEW level \in Levels,
           \A path \in Legacy : file'[path] = file[path],
           file'[level] = file[level] \/ ~(Readable(level) \/ Readable(level)')
    PROVE  Raw(level)' = Raw(level)
  <1>1. ASSUME NEW i \in DOMAIN Locations[level]
        PROVE  Readable(Locations[level][i])' <=> Readable(Locations[level][i])
    <2>1. CASE i = 1
      <3>1. Locations[level][i] = level
        BY <2>1, LocationsOf
      <3> QED
        BY <3>1 DEF Readable
    <2>2. CASE i # 1
      <3>1. Locations[level][i] \in Legacy
        BY <2>2, LocationsOf
      <3> QED
        BY <3>1 DEF Readable
    <2> QED
      BY <2>1, <2>2
  <1>2. Sources(level)' = Sources(level)
    BY <1>1 DEF Sources
  <1>3. CASE Sources(level) = {}
    BY <1>2, <1>3 DEF Raw
  <1>4. CASE Sources(level) # {}
    <2> DEFINE i == Min(Sources(level))
    <2>1. i \in DOMAIN Locations[level] /\ Readable(Locations[level][i])
      BY <1>4, SourceOf DEF Sources
    <2>2. file'[Locations[level][i]] = file[Locations[level][i]]
      BY <2>1, LocationsOf
    <2>3. Source(level) = Locations[level][i] /\ Source(level)' = Locations[level][i]
      BY <1>2, <1>4 DEF Source
    <2> QED
      BY <1>2, <1>4, <2>2, <2>3 DEF Raw
  <1> QED
    BY <1>3, <1>4

LEMMA RawWritten ==
    ASSUME NEW level \in Levels, Readable(level)'
    PROVE  Raw(level)' = file'[level].data
  <1>1. 1 \in Sources(level)' /\ \A i \in Sources(level)' : i >= 1
    BY LocationsOf DEF Sources
  <1>2. Sources(level)' \in SUBSET Nat
    BY LocationsOf DEF Sources
  <1>3. Min(Sources(level)') = 1
    <2> DEFINE S == Sources(level)'
    <2>1. S \in SUBSET Nat /\ S # {} /\ 1 \in S /\ \A i \in S : i >= 1
      BY <1>1, <1>2
    <2> HIDE DEF S
    <2>2. Min(S) \in S /\ Min(S) <= 1
      BY <2>1, LeastOf
    <2>3. Min(S) \in Nat /\ Min(S) >= 1
      BY <2>1, <2>2
    <2>4. Min(S) = 1
      BY <2>2, <2>3
    <2> QED
      BY <2>4 DEF S
  <1>4. Source(level)' = level
    BY <1>1, <1>3, LocationsOf DEF Source
  <1> QED
    BY <1>1, <1>4 DEF Raw

-----------------------------------------------------------------------------
(* Steps of a call.                                                        *)

LEMMA CallFacts ==
    ASSUME Typed, NEW p \in Processes, Active(p)
    PROVE  IsUnderWay(call[p])
  BY DEF Typed, Active, IsCall, Idle

(* What is faithful stays so while the user sets nothing, patched or not.  *)
LEMMA FaithfulStays ==
    ASSUME wish' = wish, patched' = patched \/ (patched = "no" /\ patched' = "yes")
    PROVE  /\ \A path, data : Faithful(path, data) => Faithful(path, data)'
           /\ \A c : CallFaithful(c) => CallFaithful(c)'
  <1>1. ASSUME NEW data
        PROVE  /\ Says(data, patched) => Says(data, patched)'
               /\ Says(data, AfterPatch(patched)) => Says(data, AfterPatch(patched))'
    <2>1. \A stage : Says(data, stage)' <=> Says(data, stage)
      BY DEF Says, Rephrases, Chosen
    <2> QED
      BY <2>1 DEF Says, AfterPatch
  <1>2. ASSUME NEW path, NEW data, Faithful(path, data)
        PROVE  Faithful(path, data)'
    BY <1>1, <1>2 DEF Faithful, SaysPlugins
  <1>3. ASSUME NEW config, Respects(config)
        PROVE  Respects(config)'
    BY <1>3 DEF Respects
  <1>4. ASSUME NEW c, CallFaithful(c)
        PROVE  CallFaithful(c)'
    BY <1>1, <1>2, <1>3, <1>4 DEF CallFaithful, Brings
  <1> QED
    BY <1>2, <1>4

LEMMA FilesStay ==
    ASSUME UNCHANGED <<file, wish, patched>>, FilesFaithful
    PROVE  FilesFaithful'
  <1>1. Plugins' = Plugins /\ \A level \in {"user", "project"} : Raw(level)' = Raw(level)
    BY DEF Plugins, Raw, Source, Sources, Readable
  <1>2. \A path, data : Faithful(path, data) => Faithful(path, data)'
    BY FaithfulStays
  <1> QED
    BY <1>1, <1>2 DEF FilesFaithful

(* What remains to be shown of a step of one call, which becomes c.        *)
LEMMA StepKeeps ==
    ASSUME Inv, NEW p \in Processes, Active(p), NEW c, IsCall(c),
           call' = [call EXCEPT ![p] = c], wish' = wish,
           patched' = patched \/ (patched = "no" /\ patched' = "yes"),
           FilesTyped', packages' \subseteq Packaged, count' \in Counts,
           damaged' \in BOOLEAN, damaged => damaged',
           c.pc # "idle" /\ c.alone => call[p].alone,
           ~damaged' => FilesFaithful',
           ~damaged' /\ c.pc \in Steps /\ ~c.doubt => CallFaithful(c)',
           call[p].alone /\ c.alone /\ Installing(c) => Settled(c)'
    PROVE  Inv'
  <1>1. /\ DOMAIN call' = Processes /\ call'[p] = c
        /\ \A q \in Processes \ {p} : call'[q] = call[q]
    BY DEF Inv, Typed
  <1>2. Typed'
    <2>1. \A q \in Processes : IsCall(call'[q])
      BY <1>1 DEF Inv, Typed
    <2>2. \A q \in Processes : IsCall(call[q])'
      BY <2>1
    <2> QED
      BY <1>1, <2>2 DEF Inv, Typed, FilesTyped
  <1>3. ChoicesKept'
    <2> SUFFICES ASSUME ~damaged', NEW q \in Processes, NEW k, k = call'[q],
                        Active(q)', ~k.doubt
                 PROVE  CallFaithful(k)'
      BY DEF ChoicesKept
    <2>1. CASE q = p
      <3>1. k = c
        BY <1>1, <2>1
      <3>2. c.pc \in Steps
        <4>1. c.pc \notin {"idle", "done", "failed"}
          BY <1>1, <2>1, <3>1 DEF Active
        <4>2. c # Idle
          BY <4>1 DEF Idle
        <4> QED
          BY <4>1, <4>2 DEF IsCall, IsUnderWay
      <3> QED
        BY <3>1, <3>2
    <2>2. CASE q # p
      <3>1. k = call[q] /\ Active(q)
        BY <1>1, <2>2 DEF Active
      <3>2. CallFaithful(k)
        BY <3>1 DEF Inv, ChoicesKept
      <3> QED
        BY <3>2, FaithfulStays
    <2> QED
      BY <2>1, <2>2
  <1>4. ASSUME NEW q \in Processes
        PROVE  Settling(q)'
    <2>1. CASE q # p
      <3>1. ~Alone(q)
        BY <2>1 DEF Inv, Settling
      <3>2. ~Alone(q)'
        BY <1>1, <2>1, <3>1 DEF Alone
      <3> QED
        BY <3>2 DEF Settling
    <2>2. CASE q = p
      <3> SUFFICES ASSUME Alone(p)'
                   PROVE  /\ \A r \in Processes \ {p} : ~Active(r)'
                          /\ \A k : k = call'[p] /\ Installing(k) => Settled(k)'
        BY <2>2 DEF Settling
      <3>1. c.pc # "idle" /\ c.alone /\ call[p].alone
        BY <1>1 DEF Alone
      <3>2. \A r \in Processes \ {p} : ~Active(r)
        BY <3>1 DEF Inv, Settling, Alone, Active
      <3>3. \A r \in Processes \ {p} : ~Active(r)'
        BY <1>1, <3>2 DEF Active
      <3>4. Installing(c) => Settled(c)'
        BY <3>1
      <3> QED
        BY <1>1, <3>3, <3>4
    <2> QED
      BY <2>1, <2>2
  <1> QED
    BY <1>2, <1>3, <1>4 DEF Inv

LEMMA SettledStays ==
    ASSUME file' = file, packages' = packages, NEW c
    PROVE  Settled(c)' <=> Settled(c)
  BY DEF Settled, UserFileThere, Registered, PatchedNow, LoadedNow, PatchMade, Current, Raw,
         Source, Sources, Readable

(* A step that writes no file.                                             *)
LEMMA QuietKeeps ==
    ASSUME Inv, NEW p \in Processes, Active(p), NEW c, IsCall(c),
           call' = [call EXCEPT ![p] = c], UNCHANGED <<file, wish, damaged, patched>>,
           packages' \subseteq Packaged, count' \in Counts,
           c.pc # "idle" /\ c.alone => call[p].alone,
           ~damaged /\ c.pc \in Steps /\ ~c.doubt => CallFaithful(c),
           call[p].alone /\ c.alone /\ Installing(c) => Settled(c)'
    PROVE  Inv'
  <1>1. FilesTyped'
    BY DEF Inv, Typed, FilesTyped
  <1>2. damaged' \in BOOLEAN /\ (damaged => damaged')
    BY DEF Inv, Typed
  <1>3. ~damaged' => FilesFaithful'
    <2> SUFFICES ASSUME ~damaged
                 PROVE  FilesFaithful'
      OBVIOUS
    <2>1. FilesFaithful
      BY DEF Inv, ChoicesKept
    <2> QED
      BY <2>1, FilesStay
  <1>4. CallFaithful(c) => CallFaithful(c)'
    BY FaithfulStays
  <1> QED
    BY <1>1, <1>2, <1>3, <1>4, StepKeeps

(* The fields of a call after a step.                                      *)
Same(c, b, fields) == DOMAIN c = DOMAIN b /\ \A f \in fields : c[f] = b[f]

Rest == {"goal", "user", "config", "path", "content", "then", "doubt", "alone"}

LEMMA GoesOn ==
    ASSUME NEW b, IsUnderWay(b), NEW step \in Steps \ {"truncate", "write"}, NEW c,
           c = Goto(b, step),
           step \in {"user file", "opencode", "patch"} => b.goal = "packages",
           step \in Goals => b.goal = step
    PROVE  /\ IsCall(c) /\ Same(c, b, Rest) /\ c.pc = step
           /\ Position(c) = step /\ ~Pending(c)
  <1>1. c.pc = step /\ Same(c, b, Rest)
    BY DEF Goto, Same, Rest, IsUnderWay
  <1>2. ~Pending(c) /\ Position(c) = step
    BY <1>1 DEF Pending, Position
  <1>3. IsUnderWay(c)
    BY <1>1, <1>2, Zenon DEF IsUnderWay, Same, Rest
  <1> QED
    BY <1>1, <1>2, <1>3 DEF IsCall

(* c is the call b after it has prepared to write.                          *)
Prepared(c, b, data) ==
    /\ c.user = b.user /\ c.config = b.config /\ c.alone = b.alone /\ DOMAIN c = DOMAIN b
    /\ c.pc = "truncate" /\ c.path \in {"user", "project", "opencode", "manifest"}
    /\ c.goal \in Goals /\ c.content = Json(data) /\ IsData(c.path, data)
    /\ \/ c.path = "user" /\ c.then = "opencode" /\ c.goal = "packages"
       \/ c.path = "user" /\ c.then = "read project"
       \/ c.path = "opencode" /\ c.then = "read user" /\ c.goal = "packages"
       \/ c.path = "project" /\ c.then = c.goal
       \/ c.path = "project" /\ c.then = "read user" /\ c.goal = "manifest"
       \/ c.path = "manifest" /\ c.then = "done" /\ c.goal = "manifest"
          /\ data = c.config.servers

LEMMA JsonData == ASSUME NEW x PROVE Json(x).data = x /\ Json(x) = Json(Json(x).data)
  BY DEF Json

LEMMA PreparedTo ==
    ASSUME NEW b, NEW data, NEW c, Prepared(c, b, data)
    PROVE  Position(c) = c.then /\ Pending(c) /\ c.content.data = data
  BY JsonData DEF Pending, Position, Prepared

LEMMA Puts ==
    ASSUME NEW b, IsUnderWay(b), NEW data, NEW c, Prepared(c, b, data), c.doubt \in BOOLEAN
    PROVE  IsCall(c)
  <1>1. Written(c)
    <2>1. c.content.data = data
      BY PreparedTo
    <2> QED
      BY <2>1 DEF Written, Prepared
  <1>2. IsUnderWay(c)
    <2>1. c.pc \in Steps /\ c.pc \notin {"user file", "opencode", "patch"} \cup Goals
      BY DEF Steps, Goals, Prepared
    <2> QED
      BY <1>1, <2>1, Zenon DEF IsUnderWay, Prepared
  <1> QED
    BY <1>2 DEF IsCall

(* A call that gives up, or dies.                                          *)
LEMMA StopKeeps ==
    ASSUME Inv, NEW p \in Processes, Active(p), NEW c,
           c = Idle \/ c = Ended(call[p], "failed"),
           call' = [call EXCEPT ![p] = c], UNCHANGED <<file, wish, damaged, patched>>,
           packages' \subseteq Packaged, count' \in Counts
    PROVE  Inv'
  <1>1. IsUnderWay(call[p])
    BY CallFacts DEF Inv
  <1>2. IsCall(c) /\ (c.pc # "idle" /\ c.alone => call[p].alone)
    <2>1. CASE c = Idle
      BY <2>1 DEF IsCall, Idle
    <2>2. CASE c = Ended(call[p], "failed")
      <3>1. c = [pc |-> "failed", alone |-> call[p].alone, doubt |-> call[p].doubt]
        BY <2>2 DEF Ended
      <3>2. DOMAIN c = {"pc", "alone", "doubt"} /\ c.pc = "failed"
        BY <3>1
      <3>3. c.doubt \in BOOLEAN /\ c.alone \in BOOLEAN
        BY <1>1, <3>1, Zenon DEF IsUnderWay
      <3> QED
        BY <3>1, <3>2, <3>3 DEF IsCall
    <2> QED
      BY <2>1, <2>2
  <1>3. c.pc \notin Steps /\ ~Installing(c)
    <2>1. c.pc \in {"idle", "failed"}
      BY DEF Idle, Ended
    <2> QED
      BY <2>1 DEF Steps, Installing
  <1> QED
    BY <1>2, <1>3, QuietKeeps

(* A call that has been misled owes nothing.                               *)
LEMMA MisledKeeps ==
    ASSUME Inv, NEW p \in Processes, Active(p), NEW c, IsCall(c),
           call' = [call EXCEPT ![p] = c], UNCHANGED <<file, packages, wish, damaged, patched>>,
           count' \in Counts, c.doubt = TRUE, c.alone = FALSE
    PROVE  Inv'
  <1>1. packages' \subseteq Packaged
    BY DEF Inv, Typed
  <1> QED
    BY <1>1, QuietKeeps

(* What holds of a call before its step.                                   *)
LEMMA StepFacts ==
    ASSUME Inv, NEW p \in Processes, Active(p), NEW b, b = call[p]
    PROVE  /\ Typed /\ IsUnderWay(b) /\ b.pc \in Steps
           /\ ~damaged => FilesFaithful
           /\ ~damaged /\ ~b.doubt => CallFaithful(b)
           /\ b.alone /\ b.goal # "use" => Settled(b) /\ LoadedNow(b)
  <1>1. Typed /\ IsUnderWay(b) /\ b.pc \in Steps
    BY CallFacts DEF Inv, IsUnderWay
  <1>2. ~damaged => FilesFaithful /\ (~b.doubt => CallFaithful(b))
    BY DEF Inv, ChoicesKept
  <1>3. ASSUME b.alone, b.goal # "use"
        PROVE  Settled(b) /\ LoadedNow(b)
    <2>1. Alone(p) /\ Installing(b)
      BY <1>1, <1>3 DEF Alone, Active, Installing
    <2>2. Settled(b)
      BY <2>1 DEF Inv, Settling
    <2> QED
      BY <1>1, <2>2 DEF Settled
  <1> QED
    BY <1>1, <1>2, <1>3

(* A step that changes nothing but the call.                               *)
LEMMA MoveKeeps ==
    ASSUME Inv, NEW p \in Processes, Active(p), NEW b, b = call[p], NEW c, IsCall(c),
           Becomes(p, c), UNCHANGED <<file, packages, count, wish, damaged, patched>>,
           c.alone = b.alone,
           ~damaged /\ ~c.doubt /\ c.pc \in Steps => CallFaithful(c),
           b.alone /\ Installing(c) => Settled(c)
    PROVE  Inv'
  <1>1. call' = [call EXCEPT ![p] = c]
    BY DEF Becomes
  <1>2. packages' \subseteq Packaged /\ count' \in Counts
    BY DEF Inv, Typed
  <1>3. Settled(c)' <=> Settled(c)
    BY SettledStays
  <1> QED
    BY <1>1, <1>2, <1>3, QuietKeeps

LEMMA EnsureUserFileKeeps ==
    ASSUME Inv, NEW p \in Processes, EnsureUserFile(p)
    PROVE  Inv'
  <1>1. PICK b : b = call[p]
    OBVIOUS
  <1>2. Active(p) /\ b.pc = "user file"
    BY <1>1 DEF EnsureUserFile, At
  <1>3. Typed /\ IsUnderWay(b) /\ (~damaged => FilesFaithful)
    BY <1>1, <1>2, StepFacts
  <1>4. b.goal = "packages"
    BY <1>2, <1>3 DEF IsUnderWay
  <1>5. CASE file["user"] # Absent
    <2>1. PICK c : c = Goto(b, "opencode")
      OBVIOUS
    <2>2. Becomes(p, c)
      BY <1>1, <1>5, <2>1 DEF EnsureUserFile
    <2>3. /\ IsCall(c) /\ Same(c, b, Rest) /\ c.pc = "opencode"
          /\ Position(c) = "opencode" /\ ~Pending(c)
      BY <1>3, <1>4, <2>1, GoesOn DEF Steps, Goals
    <2>4. c.alone = b.alone /\ c.goal = "packages"
      BY <1>4, <2>3 DEF Same, Rest
    <2>5. CallFaithful(c)
      BY <2>3 DEF CallFaithful, Goals
    <2>6. Settled(c)
      BY <1>5, <2>3, <2>4 DEF Settled, UserFileThere, Registered, PatchedNow, LoadedNow, Goals
    <2> QED
      BY <1>1, <1>2, <2>2, <2>3, <2>4, <2>5, <2>6, MoveKeeps DEF EnsureUserFile
  <1>6. CASE file["user"] = Absent
    <2>1. PICK c : c = [Put(b, "user", Defaults, "opencode")
                           EXCEPT !.doubt = @ \/ Sources("user") # {}]
      OBVIOUS
    <2>2. Becomes(p, c)
      BY <1>1, <1>6, <2>1 DEF EnsureUserFile
    <2>3. /\ Same(c, b, {"user", "config", "alone"}) /\ c.goal = b.goal
          /\ c.pc = "truncate" /\ c.path = "user" /\ c.content = Json(Defaults)
          /\ c.then = "opencode"
          /\ c.doubt = (b.doubt \/ Sources("user") # {})
      BY <1>3, <2>1 DEF Put, Same, IsUnderWay
    <2>4. IsData("user", Defaults)
      BY DefaultsAreSettings DEF IsData
    <2>5. c.goal \in Goals /\ c.doubt \in BOOLEAN
      BY <1>4, <2>3 DEF Goals
    <2>6. IsCall(c) /\ Position(c) = "opencode" /\ Pending(c) /\ c.content.data = Defaults
      <3>1. Prepared(c, b, Defaults)
        BY <1>4, <2>3, <2>4, <2>5 DEF Prepared, Same
      <3>2. IsCall(c)
        BY <1>3, <2>5, <3>1, Puts, Zenon
      <3>3. Position(c) = c.then /\ Pending(c) /\ c.content.data = Defaults
        BY <3>1, PreparedTo
      <3> QED
        BY <2>3, <3>2, <3>3
    <2>7. ASSUME ~damaged, ~c.doubt
          PROVE  CallFaithful(c)
      <3>1. Sources("user") = {}
        BY <2>3, <2>7
      <3>2. Raw("user") = Nothing
        BY <3>1 DEF Raw
      <3>3. Absent # Torn
        BY DEF Absent, Torn
      <3>4. Faithful("user", Nothing)
        BY <1>3, <1>6, <2>7, <3>2, <3>3 DEF FilesFaithful
      <3>5. Faithful("user", Defaults)
        BY <3>4, DefaultsAsNothing DEF Faithful
      <3> QED
        BY <2>3, <2>6, <3>5 DEF CallFaithful, Goals, Brings, Patching
    <2>8. Settled(c)
      BY <1>4, <2>3, <2>6 DEF Settled, UserFileThere, Registered, PatchedNow, LoadedNow,
                              Goals, Migrating
    <2>9. c.alone = b.alone
      BY <2>3 DEF Same
    <2> QED
      BY <1>1, <1>2, <2>2, <2>6, <2>7, <2>8, <2>9, MoveKeeps DEF EnsureUserFile
  <1> QED
    BY <1>5, <1>6

LEMMA RegisterKeeps ==
    ASSUME Inv, NEW p \in Processes, Register(p)
    PROVE  Inv'
  <1>1. PICK b : b = call[p]
    OBVIOUS
  <1>2. Active(p) /\ b.pc = "opencode"
    BY <1>1 DEF Register, At
  <1>3. /\ Typed /\ IsUnderWay(b) /\ (~damaged => FilesFaithful)
        /\ b.alone /\ b.goal # "use" => Settled(b)
    BY <1>1, <1>2, StepFacts
  <1>4. b.goal = "packages"
    BY <1>2, <1>3 DEF IsUnderWay
  <1>5. b.alone => UserFileThere(b)
    BY <1>3, <1>4 DEF Settled
  <1>6. b.alone => file["user"] # Absent
    BY <1>2, <1>5 DEF UserFileThere
  <1>7. CASE file["opencode"] = Torn \/ HasTeam(Plugins)
    <2>1. PICK c : c = Goto(b, "read user")
      OBVIOUS
    <2>2. Becomes(p, c)
      BY <1>1, <1>7, <2>1 DEF Register, Plugins
    <2>3. /\ IsCall(c) /\ Same(c, b, Rest) /\ c.pc = "read user"
          /\ Position(c) = "read user" /\ ~Pending(c)
      BY <1>3, <1>4, <2>1, GoesOn DEF Steps, Goals
    <2>4. c.alone = b.alone /\ c.goal = "packages"
      BY <1>4, <2>3 DEF Same, Rest
    <2>5. CallFaithful(c)
      BY <2>3 DEF CallFaithful, Goals
    <2>6. Readable("opencode") => HasTeam(file["opencode"].data)
      BY <1>7 DEF Plugins, Readable, Torn
    <2>7. b.alone => Settled(c)
      BY <1>6, <2>3, <2>4, <2>6 DEF Settled, UserFileThere, Registered, PatchedNow, LoadedNow,
                                   Goals
    <2> QED
      BY <1>1, <1>2, <2>2, <2>3, <2>4, <2>5, <2>7, MoveKeeps DEF Register
  <1>8. CASE ~(file["opencode"] = Torn \/ HasTeam(Plugins))
    <2> DEFINE data == WithTeam(Plugins)
    <2>1. PICK c : c = Put(b, "opencode", data, "read user")
      OBVIOUS
    <2>2. Becomes(p, c)
      BY <1>1, <1>8, <2>1 DEF Register, Plugins
    <2>3. IsPlugins(Plugins)
      BY <1>3, PluginsTyped DEF Typed, FilesTyped
    <2>6. IsPlugins(data) /\ HasTeam(data)
      BY <2>3, AddedTeam
    <2> HIDE DEF data
    <2>8. /\ Same(c, b, {"user", "config", "alone", "doubt"}) /\ c.goal = b.goal
          /\ c.pc = "truncate" /\ c.path = "opencode" /\ c.content = Json(data)
          /\ c.then = "read user"
      BY <1>3, <2>1 DEF Put, Same, IsUnderWay
    <2>9. IsData("opencode", data)
      BY <2>6 DEF IsData
    <2>10. c.goal \in Goals /\ c.doubt \in BOOLEAN /\ Same(c, b, {"user", "config", "alone"})
      BY <1>3, <2>8, Zenon DEF IsUnderWay, Same
    <2>11. IsCall(c) /\ Position(c) = "read user" /\ Pending(c) /\ c.content.data = data
      <3>1. Prepared(c, b, data)
        BY <1>4, <2>8, <2>9, <2>10 DEF Prepared, Same
      <3>2. IsCall(c)
        BY <1>3, <2>10, <3>1, Puts, Zenon
      <3>3. Position(c) = c.then /\ Pending(c) /\ c.content.data = data
        BY <3>1, PreparedTo
      <3> QED
        BY <2>8, <3>2, <3>3
    <2>12. ASSUME ~damaged, ~c.doubt
           PROVE  CallFaithful(c)
      <3>1. Faithful("opencode", Plugins)
        BY <1>3, <1>8, <2>12 DEF FilesFaithful
      <3>2. Plugins = wish.plugins
        <4>1. IsPlugins(wish.plugins)
          BY <1>3 DEF Typed
        <4>2. HasTeam(WithTeam(wish.plugins))
          BY <4>1, AddedTeam
        <4> QED
          BY <1>8, <3>1, <4>2 DEF Faithful, SaysPlugins
      <3>3. Faithful("opencode", data)
        BY <1>8, <3>2 DEF Faithful, SaysPlugins, data
      <3> QED
        BY <2>8, <2>11, <3>3 DEF CallFaithful, Goals, Brings, Patching
    <2>13. b.alone => Settled(c)
      BY <1>4, <1>6, <2>6, <2>8, <2>11 DEF Settled, UserFileThere, Registered, PatchedNow,
                                           LoadedNow, Goals, Migrating
    <2>14. c.alone = b.alone
      BY <2>8 DEF Same
    <2> QED
      BY <1>1, <1>2, <2>2, <2>11, <2>12, <2>13, <2>14, MoveKeeps DEF Register
  <1> QED
    BY <1>7, <1>8

(* Loading a level leads on, or to moving its settings to its own file,     *)
(* which cannot be read.                                                   *)
Moved(c, b, level, next) ==
    /\ IsCall(c) /\ Same(c, b, {"goal", "user", "config", "doubt", "alone"})
    /\ Position(c) = next /\ c.pc \in Steps
    /\ ~Pending(c) => c.pc = next
    /\ Pending(c) => /\ c.pc = "truncate" /\ c.path = level /\ c.then = next
                     /\ c.content.data = Raw(level) /\ ~Readable(level)

LEMMA Migrates ==
    ASSUME Typed, NEW b, IsUnderWay(b), NEW level \in Levels, NEW next,
           level = "user" => next = "read project",
           level = "project" => next = b.goal
    PROVE  Moved(Migrate(b, level, next), b, level, next)
  <1>1. b.goal \in Goals
    BY DEF IsUnderWay
  <1>2. ASSUME Source(level) = level, NEW c, c = Goto(b, next)
        PROVE  Moved(c, b, level, next)
    <2>1. next \in Steps \ {"truncate", "write"} /\ (next \in Goals => b.goal = next)
          /\ next \notin {"user file", "opencode", "patch"}
      BY <1>1 DEF Steps, Goals, Levels
    <2>2. IsCall(c) /\ Same(c, b, Rest) /\ c.pc = next /\ Position(c) = next /\ ~Pending(c)
      BY <1>2, <2>1, GoesOn, Zenon
    <2> QED
      BY <2>1, <2>2 DEF Moved, Same, Rest
  <1>3. ASSUME Source(level) # level, NEW c, c = Put(b, level, Raw(level), next)
        PROVE  Moved(c, b, level, next)
    <2>1. /\ DOMAIN c = DOMAIN b /\ c.goal = b.goal /\ c.user = b.user
          /\ c.config = b.config /\ c.alone = b.alone /\ c.doubt = b.doubt
          /\ c.pc = "truncate" /\ c.path = level /\ c.content = Json(Raw(level))
          /\ c.then = next
      BY <1>3 DEF Put, IsUnderWay
    <2>2. IsData(level, Raw(level)) /\ level \in {"user", "project"}
      BY RawTyped DEF IsData, Levels
    <2>3. Prepared(c, b, Raw(level))
      BY <1>1, <2>1, <2>2 DEF Prepared
    <2>4. c.doubt \in BOOLEAN
      BY <2>1, Zenon DEF IsUnderWay
    <2>5. IsCall(c) /\ Position(c) = c.then /\ Pending(c) /\ c.content.data = Raw(level)
      <3>1. Position(c) = c.then /\ Pending(c) /\ c.content.data = Raw(level)
        BY <2>3, PreparedTo
      <3> QED
        BY <2>3, <2>4, <3>1, Puts, Zenon
    <2>6. ~Readable(level)
      BY <1>3, RawReadable
    <2> QED
      BY <2>1, <2>5, <2>6 DEF Moved, Same, Steps
  <1> QED
    BY <1>2, <1>3 DEF Migrate

LEMMA ReadUserKeeps ==
    ASSUME Inv, NEW p \in Processes, ReadUser(p)
    PROVE  Inv'
  <1>1. PICK b : b = call[p]
    OBVIOUS
  <1>2. Active(p) /\ b.pc = "read user"
    BY <1>1 DEF ReadUser, At
  <1>3. /\ Typed /\ IsUnderWay(b) /\ (~damaged => FilesFaithful)
        /\ b.alone /\ b.goal # "use" => Settled(b)
    BY <1>1, <1>2, StepFacts
  <1>4. PICK a : a = [b EXCEPT !.user = Raw("user"), !.doubt = @ \/ Misread("user")]
    OBVIOUS
  <1>5. PICK c : c = Migrate(a, "user", "read project")
    OBVIOUS
  <1>6. Becomes(p, c)
    BY <1>1, <1>4, <1>5 DEF ReadUser
  <1>7. /\ Same(a, b, {"pc", "goal", "config", "path", "content", "then", "alone"})
        /\ a.user = Raw("user")
    BY <1>3, <1>4 DEF Same, IsUnderWay
  <1>8. a.doubt = (b.doubt \/ Misread("user"))
    BY <1>3, <1>4 DEF IsUnderWay
  <1>9. a.doubt \in BOOLEAN
    BY <1>8, Zenon
  <1>10. IsUnderWay(a)
    <2>1. ~Pending(a) /\ IsSettings(a.user)
      BY <1>2, <1>3, <1>7, RawTyped DEF Pending, Same, Levels
    <2> QED
      BY <1>3, <1>7, <1>9, <2>1, Zenon DEF IsUnderWay, Same
  <1>11. /\ IsCall(c) /\ Same(c, a, {"goal", "user", "config", "doubt", "alone"})
         /\ Position(c) = "read project" /\ c.pc \in Steps
         /\ ~Pending(c) => c.pc = "read project"
         /\ Pending(c) => /\ c.pc = "truncate" /\ c.path = "user" /\ c.then = "read project"
                          /\ c.content.data = Raw("user") /\ ~Readable("user")
    <2>1. Moved(c, a, "user", "read project")
      BY <1>3, <1>5, <1>10, Migrates DEF Levels
    <2> QED
      BY <2>1 DEF Moved
  <1>12. c.goal = b.goal /\ c.user = Raw("user") /\ c.alone = b.alone
    BY <1>7, <1>11 DEF Same
  <1>13. ~c.doubt => ~b.doubt /\ ~Misread("user")
    BY <1>8, <1>11 DEF Same
  <1>14. ASSUME ~damaged, ~c.doubt
         PROVE  CallFaithful(c)
    <2>1. Faithful("user", Raw("user"))
      BY <1>3, <1>13, <1>14 DEF FilesFaithful, Misread
    <2> QED
      BY <1>11, <1>12, <2>1 DEF CallFaithful, Goals, Brings, Patching
  <1>15. ASSUME b.alone, Installing(c)
         PROVE  Settled(c)
    <2>1. c.goal # "use" /\ c.pc # "done"
      BY <1>11, <1>15 DEF Installing, Steps
    <2>2. UserFileThere(b) /\ Registered(b) /\ PatchedNow(b)
      BY <1>3, <1>12, <1>15, <2>1 DEF Settled
    <2>3. ~Pending(b) /\ Position(b) = "read user"
      BY <1>2 DEF Pending, Position
    <2>4. UserFileThere(c)
      BY <1>2, <1>11, <2>2 DEF UserFileThere
    <2>5. Registered(c)
      BY <1>11, <2>2, <2>3 DEF Registered
    <2>6. PatchedNow(c)
      BY <1>2, <1>11, <1>12, <1>13, <2>1, <2>2, <2>3 DEF PatchedNow
    <2>7. LoadedNow(c)
      BY <1>11, <1>12 DEF LoadedNow, Goals
    <2> QED
      BY <2>1, <2>4, <2>5, <2>6, <2>7 DEF Settled
  <1> QED
    BY <1>1, <1>2, <1>6, <1>11, <1>12, <1>14, <1>15, MoveKeeps DEF ReadUser

LEMMA ReadProjectKeeps ==
    ASSUME Inv, NEW p \in Processes, ReadProject(p)
    PROVE  Inv'
  <1>1. PICK b : b = call[p]
    OBVIOUS
  <1>2. Active(p) /\ b.pc = "read project"
    BY <1>1 DEF ReadProject, At
  <1>3. /\ Typed /\ IsUnderWay(b) /\ (~damaged => FilesFaithful)
        /\ ~damaged /\ ~b.doubt => CallFaithful(b)
        /\ b.alone /\ b.goal # "use" => Settled(b) /\ LoadedNow(b)
    BY <1>1, <1>2, StepFacts
  <1> DEFINE config == Loaded(b.user, Raw("project"))
  <1>4. PICK a : a = [b EXCEPT !.config = config, !.doubt = @ \/ Misread("project")]
    OBVIOUS
  <1>5. PICK c : c = Migrate(a, "project", b.goal)
    OBVIOUS
  <1>6. Becomes(p, c)
    BY <1>1, <1>4, <1>5 DEF ReadProject
  <1>7. /\ Same(a, b, {"pc", "goal", "user", "path", "content", "then", "alone"})
        /\ a.config = config
    BY <1>3, <1>4 DEF Same, IsUnderWay
  <1>8. a.doubt = (b.doubt \/ Misread("project"))
    BY <1>3, <1>4 DEF IsUnderWay
  <1>9. a.doubt \in BOOLEAN
    BY <1>8, Zenon
  <1>10. IsUnderWay(a)
    <2>1. IsSettings(b.user) /\ IsSettings(Raw("project"))
      BY <1>3, RawTyped DEF IsUnderWay, Levels
    <2>2. IsConfig(a.config)
      BY <1>7, <2>1, LoadedConfig
    <2>3. ~Pending(a)
      BY <1>2, <1>7 DEF Pending, Same
    <2> HIDE DEF config
    <2> QED
      BY <1>3, <1>7, <1>9, <2>2, <2>3, Zenon DEF IsUnderWay, Same
  <1>11. b.goal \in Goals /\ a.goal = b.goal
    BY <1>3, <1>7 DEF IsUnderWay, Same
  <1>12. /\ IsCall(c) /\ Same(c, a, {"goal", "user", "config", "doubt", "alone"})
         /\ Position(c) = b.goal /\ c.pc \in Steps
         /\ ~Pending(c) => c.pc = b.goal
         /\ Pending(c) => /\ c.pc = "truncate" /\ c.path = "project" /\ c.then = b.goal
                          /\ c.content.data = Raw("project") /\ ~Readable("project")
    <2>1. Moved(c, a, "project", b.goal)
      BY <1>3, <1>5, <1>10, <1>11, Migrates DEF Levels
    <2> QED
      BY <2>1 DEF Moved
  <1>13. c.goal = b.goal /\ c.config = config /\ c.alone = b.alone
    BY <1>7, <1>12 DEF Same
  <1>14. ~c.doubt => ~b.doubt /\ ~Misread("project")
    BY <1>8, <1>12 DEF Same
  <1>15. ASSUME ~damaged, ~c.doubt
         PROVE  CallFaithful(c)
    <2>1. Faithful("project", Raw("project"))
      BY <1>3, <1>14, <1>15 DEF FilesFaithful, Misread
    <2>2. Faithful("user", b.user)
      BY <1>2, <1>3, <1>14, <1>15 DEF CallFaithful, Position, Pending
    <2>3. IsSettings(wish.user)
      BY <1>3 DEF Typed
    <2>4. Respects(c.config)
      BY <1>13, <2>1, <2>2, <2>3, SaidIsRespected DEF Faithful
    <2> QED
      BY <1>11, <1>12, <2>1, <2>4 DEF CallFaithful, Goals, Brings, Patching
  <1>16. ASSUME b.alone, Installing(c)
         PROVE  Settled(c)
    <2>1. c.goal # "use" /\ c.pc # "done"
      BY <1>12, <1>16 DEF Installing, Steps
    <2>2. UserFileThere(b) /\ Registered(b) /\ PatchedNow(b) /\ LoadedNow(b)
      BY <1>3, <1>13, <1>16, <2>1 DEF Settled
    <2>3. ~Pending(b) /\ Position(b) = "read project"
      BY <1>2 DEF Pending, Position
    <2>4. c.config = Current
      BY <1>13, <2>2, <2>3 DEF LoadedNow, Current
    <2>5. UserFileThere(c)
      BY <1>2, <1>11, <1>12, <2>2 DEF UserFileThere, Goals
    <2>6. Registered(c)
      BY <1>12, <2>2, <2>3 DEF Registered
    <2>7. b.goal = "manifest" => Readable("project")
      <3>1. b.goal = "manifest" => file["project"] = Json(file["project"].data)
        BY <2>2, <2>3 DEF PatchedNow
      <3>2. \A data : Json(data).form = "json"
        BY DEF Json
      <3> QED
        BY <3>1, <3>2 DEF Readable
    <2>8. PatchedNow(c)
      BY <1>2, <1>11, <1>12, <1>13, <1>14, <2>1, <2>2, <2>3, <2>7 DEF PatchedNow, Goals
    <2>9. LoadedNow(c)
      BY <1>11, <1>12, <2>4 DEF LoadedNow, Goals
    <2> QED
      BY <2>1, <2>5, <2>6, <2>8, <2>9 DEF Settled
  <1> QED
    BY <1>1, <1>2, <1>6, <1>12, <1>13, <1>15, <1>16, MoveKeeps DEF ReadProject

LEMMA InstallPackagesKeeps ==
    ASSUME Inv, NEW p \in Processes, InstallPackages(p)
    PROVE  Inv'
  <1>1. PICK b : b = call[p]
    OBVIOUS
  <1>2. Active(p) /\ b.pc = "packages"
    BY <1>1 DEF InstallPackages, At
  <1>3. /\ Typed /\ IsUnderWay(b) /\ (~damaged /\ ~b.doubt => CallFaithful(b))
        /\ b.alone /\ b.goal # "use" => Settled(b) /\ LoadedNow(b)
    BY <1>1, <1>2, StepFacts
  <1>4. b.goal = "packages"
    BY <1>2, <1>3 DEF IsUnderWay, Goals
  <1>5. PICK c : c = Goto(b, "patch")
    OBVIOUS
  <1>6. /\ call' = [call EXCEPT ![p] = c] /\ UNCHANGED <<file, wish, damaged, patched>>
        /\ packages' = packages \cup (Started(b.config) \ packages) /\ count' = count
    BY <1>1, <1>5 DEF InstallPackages, Becomes, Missing
  <1>7. /\ IsCall(c) /\ Same(c, b, Rest) /\ c.pc = "patch"
        /\ Position(c) = "patch" /\ ~Pending(c)
    BY <1>3, <1>4, <1>5, GoesOn DEF Steps, Goals
  <1>8. c.config = b.config /\ c.goal = "packages" /\ c.alone = b.alone /\ c.doubt = b.doubt
    BY <1>4, <1>7 DEF Same, Rest
  <1>9. Position(b) = "packages" /\ ~Pending(b)
    BY <1>2 DEF Position, Pending
  <1>10. packages' \subseteq Packaged /\ count' \in Counts
    BY <1>3, <1>6 DEF Typed, Started
  <1>11. ASSUME ~damaged, ~c.doubt
         PROVE  CallFaithful(c)
    BY <1>3, <1>7, <1>8, <1>9, <1>11 DEF CallFaithful, Goals
  <1>12. ASSUME b.alone
         PROVE  Settled(c)'
    <2>1. UserFileThere(b) /\ Registered(b) /\ LoadedNow(b)
      BY <1>3, <1>4, <1>12 DEF Settled
    <2>2. file["user"] # Absent
      BY <1>2, <2>1 DEF UserFileThere
    <2>3. UserFileThere(c)'
      BY <1>6, <2>2 DEF UserFileThere
    <2>4. Registered(c)'
      BY <1>6, <1>7, <1>9, <2>1 DEF Registered, Readable
    <2>5. Started(c.config) \subseteq packages'
      BY <1>6, <1>8
    <2>6. PatchedNow(c)'
      BY <1>7, <1>8, <2>5 DEF PatchedNow
    <2>7. Current' = Current
      BY <1>6 DEF Current, Raw, Source, Sources, Readable
    <2>8. c.config = Current
      BY <1>8, <1>9, <2>1 DEF LoadedNow, Goals
    <2>9. LoadedNow(c)'
      BY <1>7, <2>7, <2>8 DEF LoadedNow
    <2> QED
      BY <1>7, <2>3, <2>4, <2>6, <2>9 DEF Settled
  <1> QED
    BY <1>1, <1>2, <1>6, <1>7, <1>8, <1>10, <1>11, <1>12, QuietKeeps

LEMMA FaultCounts ==
    ASSUME Typed, Fault
    PROVE  count' \in Counts
  BY InstallationAssumption DEF Fault, Typed, Counts

LEMMA PackagesFailKeeps ==
    ASSUME Inv, NEW p \in Processes, PackagesFail(p)
    PROVE  Inv'
  <1>1. Active(p) /\ count' \in Counts /\ UNCHANGED <<file, wish, damaged, patched>>
    BY FaultCounts DEF PackagesFail, At, Inv
  <1>2. PICK c : c = Ended(call[p], "failed")
    OBVIOUS
  <1>3. call' = [call EXCEPT ![p] = c]
    BY <1>2 DEF PackagesFail, Fail, Becomes
  <1>4. packages' \subseteq Packaged
    BY DEF PackagesFail, Missing, Started, Inv, Typed
  <1> QED
    BY <1>1, <1>2, <1>3, <1>4, StopKeeps

LEMMA DieKeeps ==
    ASSUME Inv, NEW p \in Processes, Die(p) \/ Use(p)
    PROVE  Inv'
  <1>1. Active(p) /\ UNCHANGED <<file, packages, wish, damaged, patched>>
    BY DEF Die, Use, At
  <1>2. count' \in Counts
    BY FaultCounts DEF Die, Use, Inv, Typed
  <1>3. PICK c : c = Idle
    OBVIOUS
  <1>4. call' = [call EXCEPT ![p] = c]
    BY <1>3 DEF Die, Use, Becomes
  <1>5. packages' \subseteq Packaged
    BY <1>1 DEF Inv, Typed
  <1> QED
    BY <1>1, <1>2, <1>3, <1>4, <1>5, StopKeeps

(* The patch is made of the project's file: what is there is what was      *)
(* loaded of it, unless there is doubt.                                    *)
LEMMA PatchProjectKeeps ==
    ASSUME Inv, NEW p \in Processes, PatchProject(p)
    PROVE  Inv'
  <1>1. PICK b : b = call[p]
    OBVIOUS
  <1>2. Active(p) /\ b.pc = "patch"
    BY <1>1 DEF PatchProject, At
  <1>3. /\ Typed /\ IsUnderWay(b) /\ (~damaged => FilesFaithful)
        /\ ~damaged /\ ~b.doubt => CallFaithful(b)
        /\ b.alone /\ b.goal # "use" => Settled(b) /\ LoadedNow(b)
    BY <1>1, <1>2, StepFacts
  <1>4. b.goal = "packages" /\ Position(b) = "patch" /\ ~Pending(b)
    BY <1>2, <1>3 DEF IsUnderWay, Position, Pending
  <1>5. PICK existing :
           existing = IF file["project"].form = "json" THEN file["project"].data ELSE Nothing
    OBVIOUS
  <1>6. PICK data : data = Patched(existing, b.config)
    OBVIOUS
  <1>7. PICK c : c = [Put(b, "project", data, "read user")
                         EXCEPT !.goal = "manifest",
                                !.doubt = @ \/ file["project"].form \in {"torn", "commented"}
                                            \/ Source("project") # "project"]
    OBVIOUS
  <1>8. Becomes(p, c)
    BY <1>1, <1>5, <1>6, <1>7 DEF PatchProject
  <1>9. /\ DOMAIN c = DOMAIN b /\ c.user = b.user /\ c.config = b.config /\ c.alone = b.alone
        /\ c.pc = "truncate" /\ c.path = "project" /\ c.content = Json(data)
        /\ c.then = "read user" /\ c.goal = "manifest"
    BY <1>3, <1>7 DEF Put, IsUnderWay
  <1>10. c.doubt = (b.doubt \/ file["project"].form \in {"torn", "commented"}
                            \/ Source("project") # "project")
    BY <1>3, <1>7 DEF Put, IsUnderWay
  <1>11. c.doubt \in BOOLEAN
    BY <1>10, Zenon
  <1>12. ~c.doubt => ~b.doubt /\ file["project"].form \notin {"torn", "commented"}
                     /\ Source("project") = "project"
    BY <1>10
  <1>13. IsSettings(existing) /\ IsConfig(b.config)
    <2>1. IsConfig(b.config)
      BY <1>3 DEF IsUnderWay
    <2>2. CASE file["project"].form = "json"
      <3>1. file["project"] \notin {Absent, Torn}
        BY <2>2 DEF Absent, Torn
      <3>2. IsData("project", file["project"].data)
        BY <1>3, <3>1 DEF Typed, Paths, UserPaths, IsWritten
      <3> QED
        BY <1>5, <2>1, <2>2, <3>2 DEF IsData
    <2>3. CASE file["project"].form # "json"
      BY <1>5, <2>1, <2>3, DefaultsAreSettings
    <2> QED
      BY <2>2, <2>3
  <1>14. IsSettings(data)
    BY <1>6, <1>13, PatchedIsSettings
  <1>15. Prepared(c, b, data)
    BY <1>9, <1>14 DEF Prepared, Goals, IsData
  <1>16. IsCall(c)
    BY <1>3, <1>11, <1>15, Puts, Zenon
  <1>17. Position(c) = "read user" /\ Pending(c) /\ c.content.data = data
    <2>1. Position(c) = c.then /\ Pending(c) /\ c.content.data = data
      BY <1>15, PreparedTo
    <2> QED
      BY <1>9, <2>1
  <1>18. ASSUME ~c.doubt
         PROVE  existing = Raw("project") /\ file["project"] # Torn
    <2>1. /\ file["project"].form \notin {"torn", "commented"} /\ Source("project") = "project"
      BY <1>12, <1>18
    <2>2. file["project"] # Torn
      BY <2>1 DEF Torn
    <2>3. CASE file["project"].form = "json"
      BY <1>5, <2>2, <2>3, RawReadable DEF Readable, Levels
    <2>4. CASE file["project"].form # "json"
      <3>1. ~Readable("project")
        BY <2>1, <2>4 DEF Readable
      <3> QED
        BY <1>5, <2>1, <2>2, <2>4, <3>1, RawUnreadable DEF Levels
    <2> QED
      BY <2>3, <2>4
  <1>19. ASSUME ~damaged, ~c.doubt
         PROVE  CallFaithful(c)
    <2>1. Faithful("project", existing)
      BY <1>3, <1>18, <1>19 DEF FilesFaithful
    <2>2. Respects(b.config)
      BY <1>3, <1>4, <1>12, <1>19 DEF CallFaithful
    <2>3. Says(existing, patched) /\ patched \in {"no", "yes", "overtaken"}
      BY <1>3, <2>1 DEF Faithful, Typed
    <2>4. Says(data, AfterPatch(patched))
      BY <1>6, <1>13, <2>2, <2>3, PatchedSays
    <2> QED
      BY <1>9, <1>17, <2>4 DEF CallFaithful, Goals, Brings, Patching
  <1>20. ASSUME b.alone
         PROVE  Settled(c)
    <2>1. UserFileThere(b) /\ Registered(b) /\ PatchedNow(b) /\ LoadedNow(b)
      BY <1>3, <1>4, <1>20 DEF Settled
    <2>2. UserFileThere(c)
      BY <1>2, <2>1 DEF UserFileThere
    <2>3. Registered(c)
      BY <1>4, <1>9, <1>17, <2>1 DEF Registered
    <2>4. ASSUME ~c.doubt
          PROVE  PatchMade(data)
      <3>1. b.config = Loaded(Raw("user"), existing) /\ Started(b.config) \subseteq packages
        BY <1>4, <1>18, <2>1, <2>4 DEF LoadedNow, PatchedNow, Current
      <3>2. IsSettings(Raw("user"))
        BY <1>3, RawTyped DEF Levels
      <3>3. data = Patched(existing, Loaded(Raw("user"), existing))
        BY <1>6, <3>1
      <3>4. /\ Started(Loaded(Raw("user"), data)) = Started(Loaded(Raw("user"), existing))
            /\ Patched(data, Loaded(Raw("user"), data)) = data
        BY <1>13, <3>2, <3>3, PatchTwice
      <3> QED
        BY <3>1, <3>4 DEF PatchMade
    <2>5. PatchedNow(c)
      BY <1>9, <1>17, <2>4 DEF PatchedNow
    <2>6. LoadedNow(c)
      BY <1>9, <1>17 DEF LoadedNow, Goals, Migrating
    <2> QED
      BY <1>9, <2>2, <2>3, <2>5, <2>6 DEF Settled
  <1> QED
    BY <1>1, <1>2, <1>8, <1>9, <1>16, <1>19, <1>20, MoveKeeps DEF PatchProject

LEMMA WriteManifestKeeps ==
    ASSUME Inv, NEW p \in Processes, WriteManifest(p)
    PROVE  Inv'
  <1>1. PICK b : b = call[p]
    OBVIOUS
  <1>2. Active(p) /\ b.pc = "manifest"
    BY <1>1 DEF WriteManifest, At
  <1>3. /\ Typed /\ IsUnderWay(b)
        /\ b.alone /\ b.goal # "use" => Settled(b) /\ LoadedNow(b)
    BY <1>1, <1>2, StepFacts
  <1>4. b.goal = "manifest" /\ Position(b) = "manifest" /\ ~Pending(b)
    BY <1>2, <1>3 DEF IsUnderWay, Position, Pending, Goals
  <1>5. UNCHANGED <<file, packages, count, wish, damaged, patched>>
    BY DEF WriteManifest
  <1>6. ASSUME b.alone
        PROVE  /\ file["user"] # Absent /\ Registered(b) /\ b.config = Current
               /\ file["project"] = Json(file["project"].data)
               /\ ~b.doubt => PatchMade(file["project"].data)
    <2>1. UserFileThere(b) /\ Registered(b) /\ PatchedNow(b) /\ LoadedNow(b)
      BY <1>3, <1>4, <1>6 DEF Settled
    <2>2. file["user"] # Absent
      BY <1>2, <2>1 DEF UserFileThere
    <2>3. b.config = Current
      BY <1>4, <2>1 DEF LoadedNow, Goals
    <2> QED
      BY <1>4, <2>1, <2>2, <2>3 DEF PatchedNow
  <1>7. CASE file["manifest"] = Torn
    <2>1. PICK c : c = Ended(call[p], "failed")
      OBVIOUS
    <2>2. call' = [call EXCEPT ![p] = c]
      <3>1. Json(b.config.servers) # Torn
        BY DEF Json, Torn
      <3>2. Becomes(p, c)
        BY <1>1, <1>7, <2>1, <3>1 DEF WriteManifest
      <3> QED
        BY <3>2 DEF Becomes
    <2>3. packages' \subseteq Packaged /\ count' \in Counts
      BY <1>3, <1>5 DEF Typed
    <2> QED
      BY <1>2, <1>5, <2>1, <2>2, <2>3, StopKeeps
  <1>8. CASE file["manifest"] # Torn /\ file["manifest"] = Json(b.config.servers)
    <2>1. PICK c : c = Ended(b, "done")
      OBVIOUS
    <2>2. Becomes(p, c)
      BY <1>1, <1>8, <2>1 DEF WriteManifest
    <2>3. /\ DOMAIN c = {"pc", "alone", "doubt"} /\ c.pc = "done"
          /\ c.alone = b.alone /\ c.doubt = b.doubt
      BY <2>1 DEF Ended
    <2>4. IsCall(c)
      <3>1. c.alone \in BOOLEAN /\ c.doubt \in BOOLEAN
        BY <1>3, <2>3, Zenon DEF IsUnderWay
      <3> QED
        BY <2>3, <3>1 DEF IsCall
    <2>5. ~Pending(c) /\ Position(c) = "done" /\ c.pc \notin Steps
      BY <2>3 DEF Pending, Position, Steps
    <2>6. ASSUME b.alone
          PROVE  Settled(c)
      <3>1. UserFileThere(c)
        BY <1>6, <2>6 DEF UserFileThere
      <3>2. Registered(c)
        BY <1>4, <1>6, <2>5, <2>6 DEF Registered
      <3>3. PatchedNow(c)
        BY <1>6, <2>3, <2>5, <2>6 DEF PatchedNow
      <3>4. file["manifest"] = Json(Current.servers)
        BY <1>6, <1>8, <2>6
      <3> QED
        BY <2>5, <3>1, <3>2, <3>3, <3>4 DEF Settled
    <2> QED
      BY <1>1, <1>2, <1>5, <2>2, <2>3, <2>4, <2>5, <2>6, MoveKeeps
  <1>9. CASE file["manifest"] # Torn /\ file["manifest"] # Json(b.config.servers)
    <2>1. PICK c : c = Put(b, "manifest", b.config.servers, "done")
      OBVIOUS
    <2>2. Becomes(p, c)
      BY <1>1, <1>9, <2>1 DEF WriteManifest
    <2>3. /\ DOMAIN c = DOMAIN b /\ c.user = b.user /\ c.config = b.config
          /\ c.alone = b.alone /\ c.doubt = b.doubt /\ c.goal = "manifest"
          /\ c.pc = "truncate" /\ c.path = "manifest" /\ c.then = "done"
          /\ c.content = Json(b.config.servers)
      BY <1>3, <1>4, <2>1 DEF Put, IsUnderWay
    <2>4. Prepared(c, b, b.config.servers)
      BY <2>3 DEF Prepared, Goals, IsData
    <2>5. IsCall(c)
      <3>1. c.doubt \in BOOLEAN
        BY <1>3, <2>3, Zenon DEF IsUnderWay
      <3> QED
        BY <1>3, <2>4, <3>1, Puts, Zenon
    <2>6. Position(c) = "done" /\ Pending(c)
      <3>1. Position(c) = c.then /\ Pending(c)
        BY <2>4, PreparedTo
      <3> QED
        BY <2>3, <3>1
    <2>7. CallFaithful(c)
      BY <2>3, <2>6 DEF CallFaithful, Goals, Faithful, Brings, Patching
    <2>8. ASSUME b.alone
          PROVE  Settled(c)
      <3>1. UserFileThere(c)
        BY <1>6, <2>8 DEF UserFileThere
      <3>2. Registered(c)
        BY <1>4, <1>6, <2>3, <2>6, <2>8 DEF Registered
      <3>3. PatchedNow(c)
        BY <1>6, <2>3, <2>6, <2>8 DEF PatchedNow
      <3>4. LoadedNow(c)
        BY <1>6, <2>3, <2>6, <2>8 DEF LoadedNow, Migrating
      <3> QED
        BY <2>3, <3>1, <3>2, <3>3, <3>4 DEF Settled
    <2> QED
      BY <1>1, <1>2, <1>5, <2>2, <2>3, <2>5, <2>7, <2>8, MoveKeeps
  <1> QED
    BY <1>7, <1>8, <1>9

-----------------------------------------------------------------------------
(* Failing reads.                                                          *)

LEMMA LaterTyped ==
    ASSUME Typed, NEW level \in Levels, NEW raw \in Later(level)
    PROVE  IsSettings(raw)
  <1>1. PICK i \in Sources(level) : raw = file[Locations[level][i]].data
    BY DEF Later
  <1>2. PICK path : path = Locations[level][i]
    OBVIOUS
  <1>3. path \in UserPaths \ {"opencode"} /\ Readable(path)
    BY <1>2, LocationsOf DEF Sources
  <1>4. file[path] \notin {Absent, Torn}
    BY <1>3 DEF Readable, Absent, Torn
  <1>5. IsWritten(path, file[path])
    BY <1>3, <1>4 DEF Typed, Paths
  <1> QED
    BY <1>1, <1>2, <1>3, <1>5 DEF IsWritten, IsData, UserPaths

(* m is the call b, misled, with what it takes for the settings.           *)
LEMMA MisledUnderWay ==
    ASSUME NEW b, IsUnderWay(b), ~Pending(b), NEW m,
           Same(m, b, {"pc", "goal", "path", "content", "then"}),
           m.doubt = TRUE, m.alone = FALSE, IsSettings(m.user), IsConfig(m.config)
    PROVE  IsUnderWay(m)
  <1>1. ~Pending(m)
    BY DEF Same, Pending
  <1>2. m.doubt \in BOOLEAN /\ m.alone \in BOOLEAN
    BY Zenon
  <1> QED
    BY <1>1, <1>2, Zenon DEF IsUnderWay, Same

LEMMA ReadFailsKeeps ==
    ASSUME Inv, NEW p \in Processes, ReadFails(p)
    PROVE  Inv'
  <1>1. PICK b : b = call[p]
    OBVIOUS
  <1>2. Active(p) /\ UNCHANGED <<file, packages, wish, damaged, patched>>
    BY DEF ReadFails, ReadUserFails, ReadProjectFails, PatchBlindly, At
  <1>3. Typed /\ IsUnderWay(b)
    BY <1>1, <1>2, StepFacts
  <1>4. count' \in Counts /\ packages' \subseteq Packaged
    BY <1>2, <1>3, FaultCounts DEF ReadFails, Typed
  <1>5. ASSUME NEW m, Same(m, b, {"pc", "goal", "path", "content", "then"}), ~Pending(b),
               m.doubt = TRUE, m.alone = FALSE, IsSettings(m.user), IsConfig(m.config)
        PROVE  /\ \A step \in Steps \ {"truncate", "write"} :
                     /\ Becomes(p, Goto(m, step))
                     /\ step \in {"user file", "opencode", "patch"} => m.goal = "packages"
                     /\ step \in Goals => m.goal = step
                     => Inv'
               /\ \A data, c : Becomes(p, c) /\ Prepared(c, m, data) /\ c.doubt = TRUE => Inv'
    <2>1. IsUnderWay(m)
      BY <1>3, <1>5, MisledUnderWay
    <2>2. ASSUME NEW step \in Steps \ {"truncate", "write"}, Becomes(p, Goto(m, step)),
                 step \in {"user file", "opencode", "patch"} => m.goal = "packages",
                 step \in Goals => m.goal = step
          PROVE  Inv'
      <3>1. PICK c : c = Goto(m, step)
        OBVIOUS
      <3>2. IsCall(c) /\ Same(c, m, Rest)
        BY <2>1, <2>2, <3>1, GoesOn, Zenon
      <3>3. c.doubt = TRUE /\ c.alone = FALSE
        BY <1>5, <3>2 DEF Same, Rest
      <3> QED
        BY <1>1, <1>2, <1>4, <2>2, <3>1, <3>2, <3>3, MisledKeeps DEF Becomes
    <2>3. ASSUME NEW data, NEW c, Becomes(p, c), Prepared(c, m, data), c.doubt = TRUE
          PROVE  Inv'
      <3>1. c.alone = FALSE /\ c.doubt \in BOOLEAN
        BY <1>5, <2>3 DEF Prepared
      <3>2. IsCall(c)
        BY <2>1, <2>3, <3>1, Puts, Zenon
      <3> QED
        BY <1>1, <1>2, <1>4, <2>3, <3>1, <3>2, MisledKeeps DEF Becomes
    <2> QED
      BY <2>2, <2>3
  <1>6. CASE ReadUserFails(p)
    <2>1. b.pc = "read user" /\ ~Pending(b) /\ IsConfig(b.config)
      BY <1>1, <1>3, <1>6 DEF ReadUserFails, At, Pending, IsUnderWay
    <2>2. ASSUME NEW raw, IsSettings(raw), NEW m, m = [Misled(b) EXCEPT !.user = raw]
          PROVE  /\ Same(m, b, {"pc", "goal", "path", "content", "then", "config"})
                 /\ m.doubt = TRUE /\ m.alone = FALSE /\ m.user = raw
                 /\ DOMAIN m = DOMAIN b
      BY <1>3, <2>2 DEF Misled, Same, IsUnderWay
    <2>3. CASE Becomes(p, Goto([Misled(b) EXCEPT !.user = Nothing], "read project"))
      <3>1. PICK m : m = [Misled(b) EXCEPT !.user = Nothing]
        OBVIOUS
      <3>2. /\ Same(m, b, {"pc", "goal", "path", "content", "then", "config"})
            /\ m.doubt = TRUE /\ m.alone = FALSE /\ m.user = Nothing
        BY <2>2, <3>1, DefaultsAreSettings
      <3>3. /\ Same(m, b, {"pc", "goal", "path", "content", "then"})
            /\ IsSettings(m.user) /\ IsConfig(m.config)
        BY <2>1, <3>2, DefaultsAreSettings DEF Same
      <3>4. "read project" \in Steps \ {"truncate", "write"} /\ "read project" \notin Goals
        BY DEF Steps, Goals
      <3> QED
        BY <1>5, <2>1, <2>3, <3>1, <3>2, <3>3, <3>4
    <2>4. ASSUME NEW raw \in Later("user"),
                 Becomes(p, Put([Misled(b) EXCEPT !.user = raw], "user", raw, "read project"))
          PROVE  Inv'
      <3>1. PICK m : m = [Misled(b) EXCEPT !.user = raw]
        OBVIOUS
      <3>2. IsSettings(raw)
        BY <1>3, LaterTyped DEF Levels
      <3>3. /\ Same(m, b, {"pc", "goal", "path", "content", "then", "config"})
            /\ m.doubt = TRUE /\ m.alone = FALSE /\ m.user = raw /\ DOMAIN m = DOMAIN b
        BY <2>2, <3>1, <3>2
      <3>4. /\ Same(m, b, {"pc", "goal", "path", "content", "then"})
            /\ IsSettings(m.user) /\ IsConfig(m.config)
        BY <2>1, <3>2, <3>3 DEF Same
      <3>5. PICK c : c = Put(m, "user", raw, "read project")
        OBVIOUS
      <3>6. /\ DOMAIN c = DOMAIN m /\ c.user = m.user /\ c.config = m.config
            /\ c.alone = m.alone /\ c.doubt = m.doubt /\ c.goal = m.goal
            /\ c.pc = "truncate" /\ c.path = "user" /\ c.content = Json(raw)
            /\ c.then = "read project"
        BY <1>3, <3>3, <3>5 DEF Put, IsUnderWay
      <3>7. m.goal \in Goals
        BY <1>3, <3>4 DEF Same, IsUnderWay
      <3>8. Prepared(c, m, raw)
        BY <3>2, <3>6, <3>7 DEF Prepared, IsData
      <3> QED
        BY <1>5, <2>1, <2>4, <3>1, <3>3, <3>4, <3>5, <3>6, <3>8
    <2> QED
      BY <1>1, <1>6, <2>3, <2>4 DEF ReadUserFails
  <1>7. CASE ReadProjectFails(p)
    <2>1. b.pc = "read project" /\ ~Pending(b) /\ IsSettings(b.user) /\ b.goal \in Goals
      BY <1>1, <1>3, <1>7 DEF ReadProjectFails, At, Pending, IsUnderWay
    <2>2. ASSUME NEW raw, IsSettings(raw), NEW m,
                 m = [Misled(b) EXCEPT !.config = Loaded(b.user, raw)]
          PROVE  /\ Same(m, b, {"pc", "goal", "path", "content", "then"})
                 /\ m.doubt = TRUE /\ m.alone = FALSE /\ DOMAIN m = DOMAIN b
                 /\ IsSettings(m.user) /\ IsConfig(m.config) /\ m.goal = b.goal
      <3>1. /\ Same(m, b, {"pc", "goal", "path", "content", "then", "user"})
            /\ m.doubt = TRUE /\ m.alone = FALSE /\ DOMAIN m = DOMAIN b
            /\ m.config = Loaded(b.user, raw)
        BY <1>3, <2>2 DEF Misled, Same, IsUnderWay
      <3>2. IsConfig(Loaded(b.user, raw))
        BY <2>1, <2>2, LoadedConfig
      <3> QED
        BY <2>1, <3>1, <3>2 DEF Same
    <2>3. CASE Becomes(p, Goto([Misled(b) EXCEPT !.config = Loaded(b.user, Nothing)], b.goal))
      <3>1. PICK m : m = [Misled(b) EXCEPT !.config = Loaded(b.user, Nothing)]
        OBVIOUS
      <3>2. /\ Same(m, b, {"pc", "goal", "path", "content", "then"})
            /\ m.doubt = TRUE /\ m.alone = FALSE
            /\ IsSettings(m.user) /\ IsConfig(m.config) /\ m.goal = b.goal
        BY <2>2, <3>1, DefaultsAreSettings
      <3>3. PICK step \in Steps \ {"truncate", "write"} : step = b.goal
        BY <2>1 DEF Steps, Goals
      <3>4. step \in {"user file", "opencode", "patch"} => m.goal = "packages"
        BY <2>1, <3>3 DEF Goals
      <3> QED
        BY <1>5, <2>1, <2>3, <3>1, <3>2, <3>3, <3>4
    <2>4. ASSUME NEW raw \in Later("project"),
                 Becomes(p, Put([Misled(b) EXCEPT !.config = Loaded(b.user, raw)],
                                "project", raw, b.goal))
          PROVE  Inv'
      <3>1. PICK m : m = [Misled(b) EXCEPT !.config = Loaded(b.user, raw)]
        OBVIOUS
      <3>2. IsSettings(raw)
        BY <1>3, LaterTyped DEF Levels
      <3>3. /\ Same(m, b, {"pc", "goal", "path", "content", "then"})
            /\ m.doubt = TRUE /\ m.alone = FALSE /\ DOMAIN m = DOMAIN b
            /\ IsSettings(m.user) /\ IsConfig(m.config) /\ m.goal = b.goal
        BY <2>2, <3>1, <3>2
      <3>4. PICK c : c = Put(m, "project", raw, b.goal)
        OBVIOUS
      <3>5. /\ DOMAIN c = DOMAIN m /\ c.user = m.user /\ c.config = m.config
            /\ c.alone = m.alone /\ c.doubt = m.doubt /\ c.goal = m.goal
            /\ c.pc = "truncate" /\ c.path = "project" /\ c.content = Json(raw)
            /\ c.then = b.goal
        BY <1>3, <3>3, <3>4 DEF Put, IsUnderWay
      <3>6. Prepared(c, m, raw)
        BY <2>1, <3>2, <3>3, <3>5 DEF Prepared, IsData
      <3> QED
        BY <1>5, <2>1, <2>4, <3>1, <3>3, <3>4, <3>5, <3>6
    <2> QED
      BY <1>1, <1>7, <2>3, <2>4 DEF ReadProjectFails
  <1>8. CASE PatchBlindly(p)
    <2>1. b.pc = "patch" /\ ~Pending(b) /\ IsSettings(b.user) /\ IsConfig(b.config)
      BY <1>1, <1>3, <1>8 DEF PatchBlindly, At, Pending, IsUnderWay
    <2>2. PICK m : m = Misled(b)
      OBVIOUS
    <2>3. /\ Same(m, b, {"pc", "goal", "path", "content", "then", "user", "config"})
          /\ m.doubt = TRUE /\ m.alone = FALSE /\ DOMAIN m = DOMAIN b
      BY <1>3, <2>2 DEF Misled, Same, IsUnderWay
    <2>4. /\ Same(m, b, {"pc", "goal", "path", "content", "then"})
          /\ IsSettings(m.user) /\ IsConfig(m.config)
      BY <2>1, <2>3 DEF Same
    <2>5. PICK data : data = Patched(Nothing, b.config)
      OBVIOUS
    <2>6. IsSettings(data)
      BY <2>1, <2>5, PatchedIsSettings, DefaultsAreSettings
    <2>7. PICK c : c = [Put(m, "project", data, "read user") EXCEPT !.goal = "manifest"]
      OBVIOUS
    <2>8. /\ DOMAIN c = DOMAIN m /\ c.user = m.user /\ c.config = m.config
          /\ c.alone = m.alone /\ c.doubt = m.doubt /\ c.goal = "manifest"
          /\ c.pc = "truncate" /\ c.path = "project" /\ c.content = Json(data)
          /\ c.then = "read user"
      BY <1>3, <2>3, <2>7 DEF Put, IsUnderWay
    <2>9. Prepared(c, m, data)
      BY <2>6, <2>8 DEF Prepared, IsData, Goals
    <2> QED
      BY <1>1, <1>5, <1>8, <2>1, <2>2, <2>3, <2>4, <2>5, <2>7, <2>8, <2>9 DEF PatchBlindly
  <1>9. CASE Fail(p)
    <2>1. PICK c : c = Ended(call[p], "failed")
      OBVIOUS
    <2>2. call' = [call EXCEPT ![p] = c]
      BY <1>9, <2>1 DEF Fail, Becomes
    <2> QED
      BY <1>2, <1>4, <2>1, <2>2, StopKeeps
  <1> QED
    BY <1>6, <1>7, <1>8, <1>9 DEF ReadFails

-----------------------------------------------------------------------------
(* Writes.                                                                 *)

(* Where a write leads, by the path.                                       *)
LEMMA WrittenBy ==
    ASSUME NEW b, IsUnderWay(b), Pending(b)
    PROVE  /\ Position(b) = b.then /\ b.content = Json(b.content.data)
           /\ IsData(b.path, b.content.data)
           /\ b.then \in {"opencode", "read user", "read project", "done"} \cup Goals
           /\ b.then = "opencode" => b.path = "user" /\ b.goal = "packages"
           /\ b.then = "read project" => b.path = "user"
           /\ b.then \in Goals => b.path = "project" /\ b.then = b.goal
           /\ b.then = "read user" =>
                 \/ b.path = "opencode" /\ b.goal = "packages"
                 \/ b.path = "project" /\ b.goal = "manifest"
           /\ b.then = "done" => /\ b.path = "manifest" /\ b.goal = "manifest"
                                 /\ b.content = Json(b.config.servers)
           /\ Migrating(b) <=> b.then = "read project" \/ b.then \in Goals
  BY DEF IsUnderWay, Written, Position, Goals, Migrating

LEMMA WriteFailsKeeps ==
    ASSUME Inv, NEW p \in Processes, WriteFails(p)
    PROVE  Inv'
  <1>1. PICK b : b = call[p]
    OBVIOUS
  <1>2. Active(p) /\ Pending(b) /\ UNCHANGED <<file, packages, wish, damaged, patched>>
    BY <1>1 DEF WriteFails, At, Pending
  <1>3. /\ Typed /\ IsUnderWay(b)
        /\ ~damaged /\ ~b.doubt => CallFaithful(b)
        /\ b.alone /\ b.goal # "use" => Settled(b) /\ LoadedNow(b)
    BY <1>1, <1>2, StepFacts
  <1>4. packages' \subseteq Packaged /\ count' \in Counts
    BY <1>2, <1>3, FaultCounts DEF WriteFails, Typed
  <1>5. CASE ~Migrating(b)
    <2>1. PICK c : c = Ended(call[p], "failed")
      OBVIOUS
    <2>2. call' = [call EXCEPT ![p] = c]
      BY <1>1, <1>5, <2>1 DEF WriteFails, Fail, Becomes
    <2> QED
      BY <1>2, <1>4, <2>1, <2>2, StopKeeps
  <1>6. CASE Migrating(b)
    <2>1. PICK c : c = Goto(b, b.then)
      OBVIOUS
    <2>2. call' = [call EXCEPT ![p] = c]
      BY <1>1, <1>6, <2>1 DEF WriteFails, Becomes
    <2>3. /\ Position(b) = b.then /\ b.then \in {"read project"} \cup Goals
          /\ b.then \in Goals => b.path = "project" /\ b.goal = b.then
          /\ b.then = "read project" => b.path = "user"
      BY <1>2, <1>3, <1>6, WrittenBy
    <2>4. b.then \in Steps \ {"truncate", "write"}
          /\ b.then \notin {"user file", "opencode", "patch", "done", "read user"}
      BY <2>3 DEF Steps, Goals
    <2>5. IsCall(c) /\ Same(c, b, Rest) /\ c.pc = b.then /\ Position(c) = b.then /\ ~Pending(c)
      <3>1. PICK step \in Steps \ {"truncate", "write"} : step = b.then
        BY <2>4
      <3>2. /\ step \in {"user file", "opencode", "patch"} => b.goal = "packages"
            /\ step \in Goals => b.goal = step
            /\ c = Goto(b, step)
        BY <2>1, <2>3, <2>4, <3>1
      <3>3. IsCall(c) /\ Same(c, b, Rest) /\ c.pc = step /\ Position(c) = step /\ ~Pending(c)
        BY <1>3, <3>2, GoesOn, Zenon
      <3> QED
        BY <3>1, <3>3
    <2>6. /\ c.goal = b.goal /\ c.user = b.user /\ c.config = b.config
          /\ c.alone = b.alone /\ c.doubt = b.doubt
      BY <2>5 DEF Same, Rest
    <2>7. ASSUME ~damaged, ~c.doubt
          PROVE  CallFaithful(c)
      BY <1>3, <2>3, <2>5, <2>6, <2>7 DEF CallFaithful
    <2>8. ASSUME b.alone, Installing(c)
          PROVE  Settled(c)
      <3>1. c.goal # "use" /\ c.pc # "done"
        BY <2>4, <2>5, <2>8 DEF Installing
      <3>2. UserFileThere(b) /\ Registered(b) /\ PatchedNow(b) /\ LoadedNow(b)
        BY <1>3, <2>6, <2>8, <3>1 DEF Settled
      <3>3. b.pc # "user file" /\ b.path # "opencode"
        BY <1>2, <2>3 DEF Pending
      <3>4. UserFileThere(c)
        BY <2>4, <3>2, <3>3 DEF UserFileThere
      <3>5. Registered(c)
        BY <2>3, <2>4, <2>5, <3>2, <3>3 DEF Registered
      <3>6. PatchedNow(c)
        BY <1>2, <2>3, <2>4, <2>5, <2>6, <3>1, <3>2 DEF PatchedNow
      <3>7. LoadedNow(c)
        BY <2>3, <2>5, <2>6, <3>2 DEF LoadedNow
      <3> QED
        BY <3>1, <3>4, <3>5, <3>6, <3>7 DEF Settled
    <2>9. Settled(c)' <=> Settled(c)
      BY <1>2, SettledStays
    <2> QED
      BY <1>1, <1>2, <1>4, <2>2, <2>5, <2>6, <2>7, <2>8, <2>9, QuietKeeps
  <1> QED
    BY <1>5, <1>6

(* A write changes no level but that of its path.                          *)
LEMMA LevelsStay ==
    ASSUME Typed, NEW b, IsUnderWay(b), NEW f, file' = [file EXCEPT ![b.path] = f],
           NEW level \in Levels, level # b.path
    PROVE  Raw(level)' = Raw(level) /\ file'[level] = file[level]
  <1>1. b.path \notin Legacy
    BY DEF IsUnderWay, Legacy
  <1>2. \A path \in Paths : path # b.path => file'[path] = file[path]
    BY DEF Typed
  <1>3. file'[level] = file[level]
    BY <1>2 DEF Levels, Paths, UserPaths
  <1>4. \A path \in Legacy : file'[path] = file[path]
    BY <1>1, <1>2 DEF Legacy, Paths, UserPaths
  <1> QED
    BY <1>3, <1>4, RawStays

LEMMA TruncateKeeps ==
    ASSUME Inv, NEW p \in Processes, Truncate(p)
    PROVE  Inv'
  <1>1. PICK b : b = call[p]
    OBVIOUS
  <1>2. Active(p) /\ b.pc = "truncate" /\ Pending(b)
    BY <1>1 DEF Truncate, At, Pending
  <1>3. /\ Typed /\ IsUnderWay(b) /\ (~damaged => FilesFaithful)
        /\ ~damaged /\ ~b.doubt => CallFaithful(b)
        /\ b.alone /\ b.goal # "use" => Settled(b) /\ LoadedNow(b)
    BY <1>1, <1>2, StepFacts
  <1>4. PICK c : c = Goto(b, "write")
    OBVIOUS
  <1>5. /\ file' = [file EXCEPT ![b.path] = Torn] /\ call' = [call EXCEPT ![p] = c]
        /\ UNCHANGED <<packages, count, wish, damaged, patched>>
    BY <1>1, <1>4 DEF Truncate, Becomes
  <1>6. Same(c, b, Rest) /\ c.pc = "write"
    BY <1>3, <1>4 DEF Goto, Same, Rest, IsUnderWay
  <1>7. /\ DOMAIN c = DOMAIN b /\ c.goal = b.goal /\ c.user = b.user /\ c.config = b.config
        /\ c.path = b.path /\ c.content = b.content /\ c.then = b.then
        /\ c.alone = b.alone /\ c.doubt = b.doubt
    BY <1>6 DEF Same, Rest
  <1>8. Pending(c) /\ Position(c) = b.then
    BY <1>6, <1>7 DEF Pending, Position
  <1>9. /\ Position(b) = b.then /\ b.content = Json(b.content.data)
        /\ b.then \in {"opencode", "read user", "read project", "done"} \cup Goals
        /\ b.then = "opencode" => b.path = "user" /\ b.goal = "packages"
        /\ b.then = "read project" => b.path = "user"
        /\ b.then \in Goals => b.path = "project" /\ b.then = b.goal
        /\ b.then = "read user" => \/ b.path = "opencode" /\ b.goal = "packages"
                                   \/ b.path = "project" /\ b.goal = "manifest"
        /\ b.then = "done" => b.path = "manifest" /\ b.goal = "manifest"
        /\ Migrating(b) <=> b.then = "read project" \/ b.then \in Goals
    BY <1>2, <1>3, WrittenBy
  <1>10. IsCall(c)
    <2>1. Written(b)
      BY <1>2, <1>3 DEF IsUnderWay
    <2>2. Written(c)
      BY <1>7, <2>1 DEF Written
    <2>3. c.pc \in Steps /\ c.pc \notin {"user file", "opencode", "patch"} \cup Goals
      BY <1>6 DEF Steps, Goals
    <2>4. IsUnderWay(c)
      BY <1>3, <1>7, <2>2, <2>3, Zenon DEF IsUnderWay
    <2> QED
      BY <2>4 DEF IsCall
  <1>11. b.path \in Paths /\ DOMAIN file = Paths
    BY <1>3 DEF IsUnderWay, Typed, Paths, UserPaths
  <1>12. /\ DOMAIN file' = Paths /\ file'[b.path] = Torn
         /\ \A path \in Paths : path # b.path => file'[path] = file[path]
    BY <1>5, <1>11
  <1>13. FilesTyped'
    BY <1>3, <1>12 DEF FilesTyped, Typed
  <1>14. \A level \in Levels : level # b.path => Raw(level)' = Raw(level)
    BY <1>3, <1>5, LevelsStay
  <1>15. ASSUME ~damaged
         PROVE  FilesFaithful'
    <2>1. ASSUME NEW level \in {"user", "project"}, file'[level] # Torn
          PROVE  Faithful(level, Raw(level))'
      <3>1. level # b.path /\ level \in Paths
        BY <1>12, <2>1 DEF Paths, UserPaths
      <3>2. file[level] # Torn /\ Raw(level)' = Raw(level)
        BY <1>12, <1>14, <2>1, <3>1 DEF Levels
      <3>3. Faithful(level, Raw(level))
        BY <1>3, <1>15, <3>2 DEF FilesFaithful
      <3> QED
        BY <1>5, <3>2, <3>3, FaithfulStays
    <2>2. ASSUME file'["opencode"] # Torn
          PROVE  Faithful("opencode", Plugins)'
      <3>1. file'["opencode"] = file["opencode"]
        BY <1>12, <2>2 DEF Paths, UserPaths
      <3>2. Plugins' = Plugins
        BY <3>1 DEF Plugins, Readable
      <3>3. Faithful("opencode", Plugins)
        BY <1>3, <1>15, <2>2, <3>1 DEF FilesFaithful
      <3> QED
        BY <1>5, <3>2, <3>3, FaithfulStays
    <2> QED
      BY <2>1, <2>2 DEF FilesFaithful
  <1>16. ASSUME ~damaged, ~c.doubt
         PROVE  CallFaithful(c)'
    <2>1. CallFaithful(b)
      BY <1>3, <1>7, <1>16
    <2>2. CallFaithful(c)
      BY <1>2, <1>7, <1>8, <1>9, <2>1 DEF CallFaithful, Brings, Patching
    <2> QED
      BY <1>5, <2>2, FaithfulStays
  <1>17. ASSUME b.alone, Installing(c)
         PROVE  Settled(c)'
    <2>1. b.goal # "use" /\ c.pc # "done"
      BY <1>6, <1>7, <1>17 DEF Installing
    <2>2. UserFileThere(b) /\ Registered(b) /\ PatchedNow(b) /\ LoadedNow(b)
      BY <1>3, <1>17, <2>1 DEF Settled
    <2>3. \A path : ~Readable(path)' <=> file'[path].form \notin {"json", "commented"}
      BY DEF Readable
    <2>4. ~Readable(b.path)'
      BY <1>12, <2>3 DEF Torn
    <2>5. ASSUME Migrating(b)
          PROVE  Raw(b.path)' = Raw(b.path) /\ b.content.data = Raw(b.path)
      <3>1. b.path \in Levels /\ b.path \notin Legacy
        BY <1>9, <2>5 DEF Levels, Legacy
      <3>2. ~Readable(b.path) /\ b.content.data = Raw(b.path)
        BY <1>2, <2>2, <2>5 DEF LoadedNow
      <3>3. \A path \in Legacy : file'[path] = file[path]
        BY <1>12, <3>1 DEF Legacy, Paths, UserPaths
      <3> QED
        BY <2>4, <3>1, <3>2, <3>3, RawStays
    <2>6. b.then # "opencode" => Raw("user")' = Raw("user")
      BY <1>9, <1>14, <2>5 DEF Levels
    <2>7. b.then \in Goals \cup {"done"} => Raw("project")' = Raw("project")
      BY <1>9, <1>14, <2>5 DEF Levels
    <2>8. UserFileThere(c)'
      <3>1. CASE b.path = "user"
        <4>1. Torn # Absent
          BY DEF Torn, Absent
        <4> QED
          BY <1>12, <3>1, <4>1 DEF UserFileThere
      <3>2. CASE b.path # "user"
        <4>1. file'["user"] = file["user"]
          BY <1>12, <3>2 DEF Paths, UserPaths
        <4>2. file["user"] # Absent
          BY <1>2, <1>9, <2>2, <3>2 DEF UserFileThere
        <4> QED
          BY <4>1, <4>2 DEF UserFileThere
      <3> QED
        BY <3>1, <3>2
    <2>9. Registered(c)'
      <3>1. CASE b.path = "opencode"
        BY <1>2, <1>7, <1>8, <2>2, <3>1 DEF Registered
      <3>2. CASE b.path # "opencode"
        <4>1. file'["opencode"] = file["opencode"]
          BY <1>12, <3>2 DEF Paths, UserPaths
        <4>2. b.then \notin {"user file", "opencode"} =>
                 (Readable("opencode") => HasTeam(file["opencode"].data))
          BY <1>2, <1>9, <2>2, <3>2 DEF Registered
        <4> QED
          BY <1>7, <1>8, <3>2, <4>1, <4>2 DEF Registered, Readable
      <3> QED
        BY <3>1, <3>2
    <2>10. LoadedNow(c)'
      <3>1. b.then = "read project" => c.user = Raw("user")'
        BY <1>7, <1>9, <2>2, <2>6 DEF LoadedNow
      <3>2. b.then \in Goals \cup {"patch", "done"} => c.config = Current'
        <4>1. b.then \in Goals \cup {"patch", "done"} =>
                 b.then \in Goals \cup {"done"} /\ b.then # "opencode" /\ c.config = Current
          BY <1>7, <1>9, <2>2 DEF LoadedNow, Goals
        <4> QED
          BY <2>6, <2>7, <4>1 DEF Current
      <3>3. Migrating(c) => ~Readable(c.path)' /\ c.content.data = Raw(c.path)'
        <4>1. Migrating(c) <=> Migrating(b)
          BY <1>7 DEF Migrating
        <4> QED
          BY <1>7, <2>4, <2>5, <4>1
      <3> QED
        BY <1>8, <3>1, <3>2, <3>3 DEF LoadedNow
    <2>11. PatchedNow(c)'
      <3>1. b.then # "patch"
        BY <1>9 DEF Goals
      <3>2. ASSUME b.then # "opencode", NEW data, PatchMade(data)
            PROVE  PatchMade(data)'
        BY <1>5, <2>6, <3>2 DEF PatchMade
      <3>3. CASE b.path = "project" /\ b.goal = "manifest"
        <4>1. b.then = "read user" /\ (~b.doubt => PatchMade(b.content.data))
          BY <1>2, <2>2, <3>3 DEF PatchedNow
        <4>2. ~b.doubt => PatchMade(b.content.data)'
          BY <3>2, <4>1
        <4> QED
          BY <1>6, <1>7, <1>8, <3>1, <3>3, <4>1, <4>2 DEF PatchedNow
      <3>4. CASE b.path # "project" /\ b.goal = "manifest"
        <4>1. /\ file["project"] = Json(file["project"].data)
              /\ ~b.doubt => PatchMade(file["project"].data)
          BY <2>2, <3>4 DEF PatchedNow
        <4>2. file'["project"] = file["project"] /\ b.then # "opencode"
          BY <1>9, <1>12, <3>4 DEF Paths, UserPaths
        <4>3. ~b.doubt => PatchMade(file["project"].data)'
          <5>1. PICK data : data = file["project"].data
            OBVIOUS
          <5> QED
            BY <3>2, <4>1, <4>2, <5>1
        <4> QED
          BY <1>7, <1>8, <3>1, <3>4, <4>1, <4>2, <4>3 DEF PatchedNow
      <3>5. CASE b.goal # "manifest"
        BY <1>7, <1>8, <2>1, <3>1, <3>5 DEF PatchedNow
      <3> QED
        BY <3>3, <3>4, <3>5
    <2> QED
      BY <2>1, <2>8, <2>9, <2>10, <2>11 DEF Settled
  <1>18. packages' \subseteq Packaged /\ count' \in Counts /\ damaged' \in BOOLEAN
    BY <1>3, <1>5 DEF Typed
  <1> QED
    BY <1>1, <1>2, <1>5, <1>7, <1>10, <1>13, <1>15, <1>16, <1>17, <1>18, StepKeeps

LEMMA WriteKeeps ==
    ASSUME Inv, NEW p \in Processes, Write(p)
    PROVE  Inv'
  <1>1. PICK b : b = call[p]
    OBVIOUS
  <1>2. Active(p) /\ b.pc = "write" /\ Pending(b)
    BY <1>1 DEF Write, At, Pending
  <1>3. /\ Typed /\ IsUnderWay(b) /\ (~damaged => FilesFaithful)
        /\ ~damaged /\ ~b.doubt => CallFaithful(b)
        /\ b.alone /\ b.goal # "use" => Settled(b) /\ LoadedNow(b)
    BY <1>1, <1>2, StepFacts
  <1>4. PICK c : c = IF b.then = "done" THEN Ended(b, "done") ELSE Goto(b, b.then)
    OBVIOUS
  <1>5. /\ file' = [file EXCEPT ![b.path] = b.content] /\ call' = [call EXCEPT ![p] = c]
        /\ damaged' = (damaged \/ (b.doubt /\ b.path # "manifest"))
        /\ patched' = IF Patching(b) /\ patched = "no" THEN "yes" ELSE patched
        /\ UNCHANGED <<packages, count, wish>>
    BY <1>1, <1>4 DEF Write, Becomes
  <1>6. /\ Position(b) = b.then /\ b.content = Json(b.content.data)
        /\ IsData(b.path, b.content.data)
        /\ b.then \in {"opencode", "read user", "read project", "done"} \cup Goals
        /\ b.then = "opencode" => b.path = "user" /\ b.goal = "packages"
        /\ b.then = "read project" => b.path = "user"
        /\ b.then \in Goals => b.path = "project" /\ b.then = b.goal
        /\ b.then = "read user" => \/ b.path = "opencode" /\ b.goal = "packages"
                                   \/ b.path = "project" /\ b.goal = "manifest"
        /\ b.then = "done" => /\ b.path = "manifest" /\ b.goal = "manifest"
                              /\ b.content = Json(b.config.servers)
        /\ Migrating(b) <=> b.then = "read project" \/ b.then \in Goals
    BY <1>2, <1>3, WrittenBy
  <1>7. /\ c.pc = b.then /\ c.alone = b.alone /\ c.doubt = b.doubt
        /\ Position(c) = b.then /\ ~Pending(c) /\ IsCall(c)
        /\ b.then # "done" => /\ c.goal = b.goal /\ c.user = b.user /\ c.config = b.config
                              /\ c.pc \in Steps
        /\ b.then = "done" => c.pc \notin Steps
    <2>1. CASE b.then = "done"
      <3>1. /\ DOMAIN c = {"pc", "alone", "doubt"} /\ c.pc = "done"
            /\ c.alone = b.alone /\ c.doubt = b.doubt
        BY <1>4, <2>1 DEF Ended
      <3>2. c.alone \in BOOLEAN /\ c.doubt \in BOOLEAN
        BY <1>3, <3>1, Zenon DEF IsUnderWay
      <3>3. IsCall(c)
        BY <3>1, <3>2 DEF IsCall
      <3> QED
        BY <2>1, <3>1, <3>3 DEF Position, Pending, Steps
    <2>2. CASE b.then # "done"
      <3>1. PICK step \in Steps \ {"truncate", "write"} : step = b.then
        BY <1>6, <2>2 DEF Steps, Goals
      <3>2. /\ step \in {"user file", "opencode", "patch"} => b.goal = "packages"
            /\ step \in Goals => b.goal = step
            /\ c = Goto(b, step)
        BY <1>4, <1>6, <2>2, <3>1 DEF Goals
      <3>3. IsCall(c) /\ Same(c, b, Rest) /\ c.pc = step /\ Position(c) = step /\ ~Pending(c)
        BY <1>3, <3>2, GoesOn, Zenon
      <3> QED
        BY <2>2, <3>1, <3>3 DEF Same, Rest
    <2> QED
      BY <2>1, <2>2
  <1>8. b.path \in Paths /\ DOMAIN file = Paths
    BY <1>3 DEF IsUnderWay, Typed, Paths, UserPaths
  <1>9. /\ DOMAIN file' = Paths /\ file'[b.path] = b.content
        /\ \A path \in Paths : path # b.path => file'[path] = file[path]
    BY <1>5, <1>8
  <1>10. FilesTyped'
    <2>1. IsWritten(b.path, file'[b.path])
      BY <1>6, <1>9 DEF IsWritten
    <2> QED
      BY <1>3, <1>9, <2>1 DEF FilesTyped, Typed
  <1>11. \A level \in Levels : level # b.path => Raw(level)' = Raw(level)
    BY <1>3, <1>5, LevelsStay
  <1>12. Readable(b.path)' /\ b.content # Torn /\ b.content # Absent
    <2>1. \A data : Json(data).form = "json"
      BY DEF Json
    <2>2. b.content.form = "json"
      BY <1>6, <2>1
    <2> QED
      BY <1>9, <2>2 DEF Readable, Torn, Absent
  <1>13. b.path \in Levels => Raw(b.path)' = b.content.data
    BY <1>9, <1>12, RawWritten
  <1>14. ~damaged' => ~damaged /\ (b.doubt => b.path = "manifest")
    BY <1>5
  <1>20. wish' = wish /\ (patched' = patched \/ (patched = "no" /\ patched' = "yes"))
    BY <1>5
  <1>15. ASSUME ~damaged'
         PROVE  FilesFaithful'
    <2>1. FilesFaithful /\ (b.path # "manifest" => Faithful(b.path, b.content.data)')
      <3>1. b.path # "manifest" => Brings(b, b.content.data)
        BY <1>2, <1>3, <1>14, <1>15 DEF CallFaithful
      <3>2. CASE ~Patching(b)
        BY <1>3, <1>14, <1>15, <1>20, <3>1, <3>2, FaithfulStays DEF Brings
      <3>3. CASE Patching(b)
        <4>1. patched' = AfterPatch(patched) /\ b.path = "project"
          BY <1>5, <3>3 DEF AfterPatch, Patching
        <4>2. Says(b.content.data, AfterPatch(patched))
          BY <3>1, <3>3, <4>1 DEF Brings
        <4>3. Says(b.content.data, patched')
          BY <4>1, <4>2
        <4>4. Says(b.content.data, patched)'
          BY <1>5, <4>3 DEF Says, Rephrases, Chosen
        <4> QED
          BY <1>3, <1>14, <1>15, <4>1, <4>4 DEF Faithful
      <3> QED
        BY <3>2, <3>3
    <2>2. ASSUME NEW level \in {"user", "project"}, file'[level] # Torn
          PROVE  Faithful(level, Raw(level))'
      <3>1. CASE level = b.path
        <4>1. Faithful(level, b.content.data)' /\ Raw(level)' = b.content.data
          BY <1>13, <2>1, <3>1 DEF Levels
        <4> QED
          BY <4>1 DEF Faithful
      <3>2. CASE level # b.path
        <4>1. file[level] # Torn /\ Raw(level)' = Raw(level)
          BY <1>9, <1>11, <2>2, <3>2 DEF Levels, Paths, UserPaths
        <4>2. Faithful(level, Raw(level))
          BY <2>1, <4>1 DEF FilesFaithful
        <4> QED
          BY <1>20, <4>1, <4>2, FaithfulStays
      <3> QED
        BY <3>1, <3>2
    <2>3. ASSUME file'["opencode"] # Torn
          PROVE  Faithful("opencode", Plugins)'
      <3>1. CASE b.path = "opencode"
        <4>1. Plugins' = b.content.data
          BY <1>9, <1>12, <3>1 DEF Plugins
        <4> QED
          BY <2>1, <3>1, <4>1 DEF Faithful
      <3>2. CASE b.path # "opencode"
        <4>1. file'["opencode"] = file["opencode"]
          BY <1>9, <3>2 DEF Paths, UserPaths
        <4>2. Plugins' = Plugins
          BY <4>1 DEF Plugins, Readable
        <4>3. Faithful("opencode", Plugins)
          BY <2>1, <2>3, <4>1 DEF FilesFaithful
        <4> QED
          BY <1>20, <4>2, <4>3, FaithfulStays
      <3> QED
        BY <3>1, <3>2
    <2> QED
      BY <2>2, <2>3 DEF FilesFaithful
  <1>16. ASSUME ~damaged', c.pc \in Steps, ~c.doubt
         PROVE  CallFaithful(c)'
    <2>1. CallFaithful(b) /\ b.then # "done"
      BY <1>3, <1>7, <1>14, <1>16
    <2>2. CallFaithful(c)
      BY <1>6, <1>7, <2>1 DEF CallFaithful
    <2> QED
      BY <1>20, <2>2, FaithfulStays
  <1>17. ASSUME b.alone, Installing(c)
         PROVE  Settled(c)'
    <2>1. b.goal # "use"
      BY <1>6, <1>7, <1>17 DEF Installing
    <2>2. UserFileThere(b) /\ Registered(b) /\ PatchedNow(b) /\ LoadedNow(b)
      BY <1>3, <1>17, <2>1 DEF Settled
    <2>3. ASSUME Migrating(b)
          PROVE  Raw(b.path)' = Raw(b.path)
      <3>1. b.path \in Levels
        BY <1>6, <2>3 DEF Levels
      <3>2. b.content.data = Raw(b.path)
        BY <1>2, <2>2, <2>3 DEF LoadedNow
      <3> QED
        BY <1>13, <3>1, <3>2
    <2>4. b.then # "opencode" => Raw("user")' = Raw("user")
      BY <1>6, <1>11, <2>3 DEF Levels
    <2>5. b.then \in Goals \cup {"done"} => Raw("project")' = Raw("project")
      BY <1>6, <1>11, <2>3 DEF Levels
    <2>6. b.then \in Goals \cup {"done"} => b.config = Current /\ Current' = Current
      <3>1. b.then \in Goals \cup {"done"} => b.config = Current /\ b.then # "opencode"
        BY <1>6, <2>2 DEF LoadedNow, Goals
      <3> QED
        BY <2>4, <2>5, <3>1 DEF Current
    <2>7. UserFileThere(c)'
      <3>1. CASE b.path = "user"
        BY <1>9, <1>12, <3>1 DEF UserFileThere
      <3>2. CASE b.path # "user"
        <4>1. file'["user"] = file["user"]
          BY <1>9, <3>2 DEF Paths, UserPaths
        <4>2. file["user"] # Absent
          BY <1>2, <2>2 DEF UserFileThere
        <4> QED
          BY <4>1, <4>2 DEF UserFileThere
      <3> QED
        BY <3>1, <3>2
    <2>8. Registered(c)'
      <3>1. CASE b.path = "opencode"
        <4>1. HasTeam(b.content.data)
          BY <1>2, <2>2, <3>1 DEF Registered
        <4>2. file'["opencode"].data = b.content.data
          BY <1>9, <3>1
        <4>3. Readable("opencode")' => HasTeam(file["opencode"].data)'
          BY <4>1, <4>2 DEF HasTeam
        <4> QED
          BY <1>7, <4>3 DEF Registered
      <3>2. CASE b.path # "opencode"
        <4>1. file'["opencode"] = file["opencode"]
          BY <1>9, <3>2 DEF Paths, UserPaths
        <4>2. b.then \notin {"user file", "opencode"} =>
                 (Readable("opencode") => HasTeam(file["opencode"].data))
          BY <1>2, <1>6, <2>2, <3>2 DEF Registered
        <4> QED
          BY <1>7, <3>2, <4>1, <4>2 DEF Registered, Readable
      <3> QED
        BY <3>1, <3>2
    <2>9. c.pc \in Steps => LoadedNow(c)'
      <3> SUFFICES ASSUME c.pc \in Steps
                   PROVE  LoadedNow(c)'
        OBVIOUS
      <3>1. b.then # "done" /\ b.then # "patch"
        BY <1>6, <1>7 DEF Goals
      <3>2. b.then = "read project" => c.user = Raw("user")'
        BY <1>6, <1>7, <2>2, <2>4, <3>1 DEF LoadedNow
      <3>3. b.then \in Goals => c.config = Current'
        BY <1>7, <2>6, <3>1
      <3> QED
        BY <1>7, <3>1, <3>2, <3>3 DEF LoadedNow
    <2>10. c.pc = "done" => file'["manifest"] = Json(Current.servers)'
      <3> SUFFICES ASSUME b.then = "done"
                   PROVE  file'["manifest"] = Json(Current.servers)'
        BY <1>7
      <3>1. b.config = Current' /\ b.path = "manifest" /\ b.content = Json(b.config.servers)
        BY <1>6, <2>6
      <3>2. file'["manifest"] = Json(b.config.servers)
        BY <1>9, <3>1
      <3> QED
        BY <3>1, <3>2
    <2>11. PatchedNow(c)'
      <3>1. b.then # "patch"
        BY <1>6 DEF Goals
      <3>2. ASSUME b.then # "opencode", NEW data, PatchMade(data)
            PROVE  PatchMade(data)'
        BY <1>5, <2>4, <3>2 DEF PatchMade
      <3>3. CASE b.path = "project" /\ b.goal = "manifest"
        <4>1. b.then = "read user" /\ (~b.doubt => PatchMade(b.content.data))
          BY <1>2, <2>2, <3>3 DEF PatchedNow
        <4>2. PICK data : data = b.content.data
          OBVIOUS
        <4>3. ~b.doubt => PatchMade(data)'
          BY <3>2, <4>1, <4>2
        <4>4. file'["project"] = Json(data) /\ file'["project"].data = data
          BY <1>6, <1>9, <3>3, <4>2
        <4>5. file'["project"] = Json(file'["project"].data)
          BY <4>4
        <4>6. ~b.doubt => PatchMade(file["project"].data)'
          BY <4>3, <4>4 DEF PatchMade
        <4> QED
          BY <1>7, <3>1, <4>5, <4>6 DEF PatchedNow
      <3>4. CASE b.path # "project" /\ b.goal = "manifest"
        <4>1. /\ file["project"] = Json(file["project"].data)
              /\ ~b.doubt => PatchMade(file["project"].data)
          BY <2>2, <3>4 DEF PatchedNow
        <4>2. file'["project"] = file["project"] /\ b.then # "opencode"
          BY <1>6, <1>9, <3>4 DEF Paths, UserPaths
        <4>3. ~b.doubt => PatchMade(file["project"].data)'
          <5>1. PICK data : data = file["project"].data
            OBVIOUS
          <5> QED
            BY <3>2, <4>1, <4>2, <5>1
        <4> QED
          BY <1>7, <3>1, <4>1, <4>2, <4>3 DEF PatchedNow
      <3>5. CASE b.goal # "manifest"
        <4>1. b.then # "done"
          BY <1>6, <3>5
        <4> QED
          BY <1>7, <3>1, <3>5, <4>1 DEF PatchedNow
      <3> QED
        BY <3>3, <3>4, <3>5
    <2> QED
      BY <2>7, <2>8, <2>9, <2>10, <2>11 DEF Settled
  <1>18. packages' \subseteq Packaged /\ count' \in Counts
    BY <1>3, <1>5 DEF Typed
  <1>19. damaged' \in BOOLEAN /\ (damaged => damaged')
    BY <1>5, Zenon
  <1> QED
    BY <1>1, <1>2, <1>5, <1>7, <1>10, <1>15, <1>16, <1>17, <1>18, <1>19, <1>20, StepKeeps

-----------------------------------------------------------------------------
(* Beginnings and edits: nothing else is alone any more.                   *)

(* A call that is not under way any more, or has not begun.                *)
LEMMA EndedOrUnderWay ==
    ASSUME NEW c, IsCall(c)
    PROVE  /\ c.pc = "idle" => c = Idle
           /\ c.pc \in {"done", "failed"} => /\ DOMAIN c = {"pc", "alone", "doubt"}
                                             /\ c.doubt \in BOOLEAN /\ c.alone \in BOOLEAN
           /\ c.pc \notin {"idle", "done", "failed"} => IsUnderWay(c)
           /\ c.pc \in Steps \cup {"idle", "done", "failed"}
  <1>1. CASE c = Idle
    <2>1. c.pc = "idle"
      BY <1>1 DEF Idle
    <2> QED
      BY <1>1, <2>1
  <1>2. CASE /\ c.pc \in {"done", "failed"} /\ DOMAIN c = {"pc", "alone", "doubt"}
             /\ c.doubt \in BOOLEAN /\ c.alone \in BOOLEAN
    BY <1>2, Zenon
  <1>3. CASE IsUnderWay(c)
    <2>1. c.pc \in Steps
      BY <1>3 DEF IsUnderWay
    <2>2. c.pc \notin {"idle", "done", "failed"}
      BY <2>1 DEF Steps
    <2> QED
      BY <1>3, <2>1, <2>2
  <1> QED
    BY <1>1, <1>2, <1>3, Zenon DEF IsCall

(* A call that another's beginning finds.                                  *)
LEMMA Accompanied ==
    ASSUME NEW b, IsCall(b), b.pc # "idle", NEW c, c = [b EXCEPT !.alone = FALSE]
    PROVE  /\ IsCall(c) /\ c.pc = b.pc /\ ~c.alone /\ c.doubt = b.doubt
           /\ c.pc \in Steps => (CallFaithful(b) => CallFaithful(c))
  <1>1. CASE b.pc \in {"done", "failed"}
    <2>1. DOMAIN b = {"pc", "alone", "doubt"} /\ b.doubt \in BOOLEAN
      BY <1>1, EndedOrUnderWay, Zenon
    <2>2. /\ DOMAIN c = {"pc", "alone", "doubt"} /\ c.pc = b.pc /\ c.alone = FALSE
          /\ c.doubt = b.doubt
      BY <2>1
    <2>3. c.doubt \in BOOLEAN /\ c.alone \in BOOLEAN
      BY <2>1, <2>2, Zenon
    <2>4. c.pc \notin Steps
      BY <1>1, <2>2 DEF Steps
    <2> QED
      BY <1>1, <2>2, <2>3, <2>4 DEF IsCall
  <1>2. CASE b.pc \notin {"done", "failed"}
    <2>1. IsUnderWay(b)
      BY <1>2, EndedOrUnderWay
    <2>2. /\ DOMAIN c = DOMAIN b /\ c.pc = b.pc /\ c.goal = b.goal /\ c.user = b.user
          /\ c.config = b.config /\ c.path = b.path /\ c.content = b.content
          /\ c.then = b.then /\ c.doubt = b.doubt /\ c.alone = FALSE
      BY <2>1 DEF IsUnderWay
    <2>3. Pending(c) => Written(c)
      BY <2>1, <2>2 DEF IsUnderWay, Pending, Written
    <2>4. c.alone \in BOOLEAN
      BY <2>2, Zenon
    <2>5. IsUnderWay(c)
      BY <2>1, <2>2, <2>3, <2>4, Zenon DEF IsUnderWay
    <2>6. CallFaithful(b) => CallFaithful(c)
      BY <2>2 DEF CallFaithful, Position, Pending, Brings, Patching
    <2> QED
      BY <2>2, <2>5, <2>6 DEF IsCall
  <1> QED
    BY <1>1, <1>2

LEMMA BeginKeeps ==
    ASSUME Inv, NEW p \in Processes, NEW install \in BOOLEAN, Begin(p, install)
    PROVE  Inv'
  <1>1. PICK n : n = [pc |-> IF install THEN "user file" ELSE "read user",
                      goal |-> IF install THEN "packages" ELSE "use",
                      user |-> Nothing, config |-> Defaults,
                      path |-> "manifest", content |-> Absent, then |-> "done",
                      doubt |-> FALSE, alone |-> \A r \in Processes : ~Active(r)]
    OBVIOUS
  <1>2. /\ call' = [q \in Processes |->
              IF q = p THEN n
              ELSE IF call[q].pc = "idle" THEN Idle ELSE [call[q] EXCEPT !.alone = FALSE]]
        /\ UNCHANGED <<file, packages, wish, damaged, patched>>
    BY <1>1 DEF Begin
  <1>3. /\ DOMAIN call' = Processes /\ call'[p] = n
        /\ \A q \in Processes \ {p} :
              call'[q] = IF call[q].pc = "idle" THEN Idle ELSE [call[q] EXCEPT !.alone = FALSE]
    BY <1>2
  <1>4. count' \in Counts
    <2>1. count.calls < MaxCalls /\ count' = [count EXCEPT !.calls = @ + 1]
      BY DEF Begin
    <2>2. count \in Counts /\ MaxCalls \in Nat
      BY InstallationAssumption DEF Inv, Typed
    <2> QED
      BY <2>1, <2>2 DEF Counts
  <1>5. /\ n.pc \in {"user file", "read user"} /\ n.goal \in Goals
        /\ n.pc = "user file" => n.goal = "packages"
        /\ n.pc = "read user" => n.goal = "use"
        /\ n.user = Nothing /\ n.config = Defaults /\ n.path = "manifest"
        /\ DOMAIN n = {"pc", "goal", "user", "config", "path", "content", "then", "doubt", "alone"}
    BY <1>1 DEF Goals
  <1>6. n.alone = (\A r \in Processes : ~Active(r)) /\ n.doubt = FALSE
    BY <1>1
  <1>7. n.alone \in BOOLEAN /\ n.doubt \in BOOLEAN
    BY <1>6, Zenon
  <1>8. ~Pending(n) /\ Position(n) = n.pc
    BY <1>5 DEF Pending, Position
  <1>9. IsCall(n)
    <2>1. IsSettings(n.user)
      BY <1>5, DefaultsAreSettings
    <2>2. IsConfig(n.config)
      <3>1. IsConfig(Defaults)
        <4>1. Packaged \subseteq Servers /\ TRUE \in BOOLEAN
          BY DEF Servers
        <4> QED
          BY <4>1, DefaultServers, Zenon DEF IsConfig
      <3> QED
        BY <1>5, <3>1
    <2>3. n.pc \in Steps /\ n.pc \notin Goals /\ n.pc \notin {"opencode", "patch"}
          /\ n.path \in {"user", "project", "opencode", "manifest"}
      BY <1>5 DEF Steps, Goals
    <2>4. n.pc \in {"user file", "opencode", "patch"} => n.goal = "packages"
      BY <1>5
    <2>5. IsUnderWay(n)
      BY <1>5, <1>7, <1>8, <2>1, <2>2, <2>3, <2>4, Zenon DEF IsUnderWay
    <2> QED
      BY <2>5 DEF IsCall
  <1>10. \A q \in Processes : IsCall(call[q])
    BY DEF Inv, Typed
  <1>11. IsCall(Idle) /\ Idle.pc = "idle"
    BY DEF IsCall, Idle
  <1>12. ASSUME NEW q \in Processes, q # p
         PROVE  /\ IsCall(call'[q]) /\ call'[q].pc = call[q].pc
                /\ call'[q].pc # "idle" => ~call'[q].alone /\ call'[q].doubt = call[q].doubt
                /\ call'[q].pc \in Steps => (CallFaithful(call[q]) => CallFaithful(call'[q]))
    <2>1. PICK b : b = call[q]
      OBVIOUS
    <2>2. PICK c : c = call'[q]
      OBVIOUS
    <2>3. CASE b.pc = "idle"
      <3>1. c = Idle
        BY <1>3, <1>12, <2>1, <2>2, <2>3
      <3>2. c.pc = "idle" /\ IsCall(c) /\ c.pc \notin Steps
        BY <1>11, <3>1 DEF Steps
      <3> QED
        BY <2>1, <2>2, <2>3, <3>2
    <2>4. CASE b.pc # "idle"
      <3>1. c = [b EXCEPT !.alone = FALSE] /\ IsCall(b)
        BY <1>3, <1>10, <1>12, <2>1, <2>2, <2>4
      <3>2. /\ IsCall(c) /\ c.pc = b.pc /\ ~c.alone /\ c.doubt = b.doubt
            /\ c.pc \in Steps => (CallFaithful(b) => CallFaithful(c))
        BY <2>4, <3>1, Accompanied
      <3> QED
        BY <2>1, <2>2, <3>2
    <2> QED
      BY <2>3, <2>4
  <1>13. Typed'
    <2>1. \A q \in Processes : IsCall(call'[q])
      BY <1>3, <1>9, <1>12
    <2>2. \A q \in Processes : IsCall(call[q])'
      BY <2>1
    <2> QED
      BY <1>2, <1>3, <1>4, <2>2 DEF Inv, Typed
  <1>14. ChoicesKept'
    <2> SUFFICES ASSUME ~damaged
                 PROVE  /\ FilesFaithful'
                        /\ \A q \in Processes : \A c \in {call'[q]} :
                              Active(q)' /\ ~c.doubt => CallFaithful(c)'
      BY <1>2 DEF ChoicesKept
    <2>1. FilesFaithful'
      <3>1. FilesFaithful
        BY DEF Inv, ChoicesKept
      <3> QED
        BY <1>2, <3>1, FilesStay
    <2>2. ASSUME NEW q \in Processes, NEW c, c = call'[q], Active(q)', ~c.doubt
          PROVE  CallFaithful(c)
      <3>1. CASE q = p
        <4>1. c = n
          BY <1>3, <2>2, <3>1
        <4> QED
          BY <1>5, <1>8, <4>1 DEF CallFaithful, Goals
      <3>2. CASE q # p
        <4>1. PICK b : b = call[q]
          OBVIOUS
        <4>2. c.pc = b.pc /\ c.doubt = b.doubt /\ c.pc \notin {"idle", "done", "failed"}
          BY <1>12, <2>2, <3>2, <4>1 DEF Active
        <4>3. c.pc \in Steps /\ Active(q)
          BY <1>12, <2>2, <3>2, <4>1, <4>2, EndedOrUnderWay DEF Active
        <4>4. CallFaithful(b)
          BY <2>2, <4>1, <4>2, <4>3 DEF Inv, ChoicesKept
        <4> QED
          BY <1>12, <2>2, <3>2, <4>1, <4>3, <4>4
      <3> QED
        BY <3>1, <3>2
    <2>3. \A c : CallFaithful(c) => CallFaithful(c)'
      BY <1>2, FaithfulStays
    <2> QED
      BY <2>1, <2>2, <2>3
  <1>15. ASSUME NEW q \in Processes
         PROVE  Settling(q)'
    <2>1. CASE q # p
      <3>1. ~Alone(q)'
        BY <1>12, <2>1 DEF Alone
      <3> QED
        BY <3>1 DEF Settling
    <2>2. CASE q = p
      <3> SUFFICES ASSUME n.alone
                   PROVE  /\ \A r \in Processes \ {p} : ~Active(r)'
                          /\ Installing(n) => Settled(n)'
        BY <1>3, <2>2 DEF Settling, Alone
      <3>1. \A r \in Processes : ~Active(r)
        BY <1>6
      <3>2. \A r \in Processes \ {p} : ~Active(r)'
        BY <1>12, <3>1 DEF Active
      <3>3. ASSUME Installing(n)
            PROVE  Settled(n)'
        <4>1. n.pc = "user file" /\ n.goal = "packages"
          BY <1>5, <3>3 DEF Installing
        <4> QED
          BY <1>8, <4>1 DEF Settled, UserFileThere, Registered, PatchedNow, LoadedNow, Goals
      <3> QED
        BY <3>2, <3>3
    <2> QED
      BY <2>1, <2>2
  <1> QED
    BY <1>13, <1>14, <1>15 DEF Inv

(* Whatever is under way when a file is edited is in doubt.                *)
LEMMA EditKeeps ==
    ASSUME Inv, NEW path \in DOMAIN Edits, NEW content \in Edits[path], Edit(path, content)
    PROVE  Inv'
  <1>1. /\ path \in {"user", "project", "opencode"} /\ IsWritten(path, content)
        /\ path \in Paths
    BY InstallationAssumption DEF Paths, UserPaths
  <1>2. /\ file' = [file EXCEPT ![path] = content]
        /\ UNCHANGED <<packages, damaged>>
        /\ patched' = CASE path = "project" -> "no"
                        [] path = "user" /\ patched = "yes" -> "overtaken"
                        [] OTHER -> patched
        /\ call' = [q \in Processes |->
              CASE call[q].pc = "idle" -> Idle
                [] Active(q) -> [call[q] EXCEPT !.doubt = TRUE, !.alone = FALSE]
                [] OTHER -> [call[q] EXCEPT !.alone = FALSE]]
    BY DEF Edit
  <1>3. count' \in Counts
    <2>1. count.edits < MaxEdits /\ count' = [count EXCEPT !.edits = @ + 1]
      BY DEF Edit
    <2>2. count \in Counts /\ MaxEdits \in Nat
      BY InstallationAssumption DEF Inv, Typed
    <2> QED
      BY <2>1, <2>2 DEF Counts
  <1>4. /\ DOMAIN file = Paths /\ DOMAIN file' = Paths /\ file'[path] = content
        /\ \A other \in Paths : other # path => file'[other] = file[other]
    BY <1>1, <1>2 DEF Inv, Typed
  <1>5. content.form \in {"json", "commented"} /\ IsData(path, content.data)
    <2>1. \A data : Json(data).form = "json" /\ Commented(data).form = "commented"
      BY DEF Json, Commented
    <2>2. content \in {Json(content.data), Commented(content.data)} /\ IsData(path, content.data)
      BY <1>1 DEF IsWritten
    <2> QED
      BY <2>1, <2>2
  <1>6. /\ DOMAIN wish = {"user", "project", "plugins"}
        /\ wish = [user |-> wish.user, project |-> wish.project, plugins |-> wish.plugins]
    BY DEF Inv, Typed
  <1>7. /\ wish' = [user |-> IF path = "user" THEN content.data ELSE wish.user,
                    project |-> IF path = "project" THEN content.data ELSE wish.project,
                    plugins |-> IF path = "opencode" THEN content.data ELSE wish.plugins]
    <2>1. CASE path = "opencode"
      BY <1>6, <2>1 DEF Edit
    <2>2. CASE path = "user"
      BY <1>6, <2>2 DEF Edit
    <2>3. CASE path = "project"
      BY <1>6, <2>3 DEF Edit
    <2> QED
      BY <1>1, <2>1, <2>2, <2>3
  <1>8. /\ wish'.user = (IF path = "user" THEN content.data ELSE wish.user)
        /\ wish'.project = (IF path = "project" THEN content.data ELSE wish.project)
        /\ wish'.plugins = (IF path = "opencode" THEN content.data ELSE wish.plugins)
        /\ wish' = [user |-> wish'.user, project |-> wish'.project, plugins |-> wish'.plugins]
    BY <1>7
  <1>9. ASSUME NEW q \in Processes
        PROVE  /\ IsCall(call'[q])
               /\ call'[q].pc \notin {"idle", "done", "failed"} => call'[q].doubt = TRUE
               /\ call'[q].pc # "idle" => ~call'[q].alone
    <2>1. PICK b : b = call[q]
      OBVIOUS
    <2>2. PICK c : c = call'[q]
      OBVIOUS
    <2>3. IsCall(b)
      BY <2>1 DEF Inv, Typed
    <2>4. CASE b.pc = "idle"
      <3>1. c = Idle
        BY <1>2, <2>1, <2>2, <2>4 DEF Active
      <3>2. IsCall(c) /\ c.pc = "idle"
        BY <3>1 DEF IsCall, Idle
      <3> QED
        BY <2>2, <3>2
    <2>5. CASE b.pc \in {"done", "failed"}
      <3>1. c = [b EXCEPT !.alone = FALSE] /\ b.pc # "idle"
        BY <1>2, <2>1, <2>2, <2>5 DEF Active
      <3>2. IsCall(c) /\ c.pc = b.pc /\ ~c.alone
        BY <2>3, <3>1, Accompanied
      <3> QED
        BY <2>2, <2>5, <3>2
    <2>6. CASE b.pc \notin {"idle", "done", "failed"}
      <3>1. c = [b EXCEPT !.doubt = TRUE, !.alone = FALSE]
        BY <1>2, <2>1, <2>2, <2>6 DEF Active
      <3>2. IsUnderWay(b)
        BY <2>3, <2>6, EndedOrUnderWay
      <3>3. /\ DOMAIN c = DOMAIN b /\ c.pc = b.pc /\ c.goal = b.goal /\ c.user = b.user
            /\ c.config = b.config /\ c.path = b.path /\ c.content = b.content
            /\ c.then = b.then /\ c.doubt = TRUE /\ c.alone = FALSE
        BY <3>1, <3>2 DEF IsUnderWay
      <3>4. Pending(c) => Written(c)
        BY <3>2, <3>3 DEF IsUnderWay, Pending, Written
      <3>5. c.alone \in BOOLEAN /\ c.doubt \in BOOLEAN
        BY <3>3, Zenon
      <3>6. IsUnderWay(c)
        BY <3>2, <3>3, <3>4, <3>5, Zenon DEF IsUnderWay
      <3> QED
        BY <2>2, <3>3, <3>6 DEF IsCall
    <2> QED
      BY <2>4, <2>5, <2>6
  <1>14. /\ patched' = IF path = "project" THEN "no"
                       ELSE IF path = "user" /\ patched = "yes" THEN "overtaken" ELSE patched
         /\ patched' \in {"no", "yes", "overtaken"}
    <2>1. patched \in {"no", "yes", "overtaken"}
      BY DEF Inv, Typed
    <2> QED
      BY <1>2, <2>1
  <1>10. Typed'
    <2>1. \A q \in Processes : IsCall(call[q])'
      BY <1>9
    <2>2. DOMAIN call' = Processes
      BY <1>2
    <2>3. \A other \in Paths :
             file'[other] \in {Absent, Torn} \/ IsWritten(other, file'[other])
      BY <1>1, <1>4 DEF Inv, Typed
    <2>4. IsSettings(wish.user) /\ IsSettings(wish.project) /\ IsPlugins(wish.plugins)
      BY DEF Inv, Typed
    <2>5. IsSettings(wish'.user) /\ IsSettings(wish'.project) /\ IsPlugins(wish'.plugins)
      BY <1>1, <1>5, <1>8, <2>4 DEF IsData
    <2> QED
      BY <1>2, <1>3, <1>4, <1>8, <1>14, <2>1, <2>2, <2>3, <2>5 DEF Inv, Typed
  <1>11. ASSUME ~damaged
         PROVE  FilesFaithful'
    <2>1. FilesFaithful
      BY <1>11 DEF Inv, ChoicesKept
    <2>2. Readable(path)'
      BY <1>4, <1>5 DEF Readable
    <2>3. ASSUME NEW level \in {"user", "project"}, file'[level] # Torn
          PROVE  Faithful(level, Raw(level))'
      <3>1. CASE level = path
        <4>1. Raw(level)' = content.data
          BY <1>4, <2>2, <3>1, RawWritten DEF Levels
        <4>2. /\ level = "user" => wish'.user = content.data
              /\ level = "project" => wish'.project = content.data
          BY <1>8, <3>1
        <4>3. CASE level = "user"
          BY <4>1, <4>2, <4>3 DEF Faithful
        <4>4. CASE level = "project"
          <5>1. Raw("project")' = wish'.project
            BY <4>1, <4>2, <4>4
          <5>2. Says(wish.project, patched)'
            BY DEF Says, Rephrases, Chosen
          <5> QED
            BY <4>4, <5>1, <5>2 DEF Faithful
        <4> QED
          BY <2>3, <4>3, <4>4
      <3>2. CASE level # path
        <4>1. level \in Paths /\ \A other \in Legacy : other \in Paths /\ other # path
          BY <1>1, <2>3 DEF Legacy, Paths, UserPaths
        <4>2. file'[level] = file[level] /\ \A other \in Legacy : file'[other] = file[other]
          BY <1>4, <3>2, <4>1
        <4>3. Raw(level)' = Raw(level)
          BY <4>2, RawStays DEF Levels
        <4>4. Faithful(level, Raw(level))
          BY <2>1, <2>3, <4>2 DEF FilesFaithful
        <4>5. /\ level = "user" => wish'.user = wish.user
              /\ level = "project" => wish'.project = wish.project
          BY <1>8, <3>2
        <4>6. CASE level = "user"
          BY <4>3, <4>4, <4>5, <4>6 DEF Faithful
        <4>7. CASE level = "project"
          <5>1. PICK data : data = Raw("project")
            OBVIOUS
          <5>2. Says(data, patched)
            BY <4>4, <4>7, <5>1 DEF Faithful
          <5>3. Rephrases(data)' /\ wish'.project = wish.project
            BY <4>5, <4>7, <5>2 DEF Says, Rephrases
          <5>4. CASE path = "user"
            <6>1. patched' = "overtaken" \/ data = wish.project
              <7>1. patched \in {"no", "yes", "overtaken"}
                BY DEF Inv, Typed
              <7> QED
                BY <1>14, <5>2, <5>4, <7>1 DEF Says
            <6>2. patched' = "no" => data = wish.project
              BY <1>14, <5>2, <5>4 DEF Says
            <6> QED
              BY <4>3, <4>7, <5>1, <5>3, <6>1, <6>2 DEF Faithful, Says, Chosen
          <5>5. CASE path = "opencode"
            <6>1. wish'.user = wish.user /\ patched' = patched
              BY <1>8, <1>14, <5>5
            <6> QED
              BY <4>3, <4>7, <5>1, <5>2, <5>3, <6>1 DEF Faithful, Says, Chosen
          <5> QED
            BY <1>1, <3>2, <4>7, <5>4, <5>5
        <4> QED
          BY <2>3, <4>6, <4>7
      <3> QED
        BY <3>1, <3>2
    <2>4. ASSUME file'["opencode"] # Torn
          PROVE  Faithful("opencode", Plugins)'
      <3>1. CASE path = "opencode"
        <4>1. Plugins' = content.data /\ wish'.plugins = content.data
          BY <1>4, <1>8, <2>2, <3>1 DEF Plugins
        <4> QED
          BY <4>1 DEF Faithful, SaysPlugins
      <3>2. CASE path # "opencode"
        <4>1. file'["opencode"] = file["opencode"] /\ wish'.plugins = wish.plugins
          BY <1>4, <1>8, <3>2 DEF Paths, UserPaths
        <4>2. Plugins' = Plugins
          BY <4>1 DEF Plugins, Readable
        <4>3. Faithful("opencode", Plugins)
          BY <2>1, <2>4, <4>1 DEF FilesFaithful
        <4> QED
          BY <4>1, <4>2, <4>3 DEF Faithful, SaysPlugins
      <3> QED
        BY <3>1, <3>2
    <2> QED
      BY <2>3, <2>4 DEF FilesFaithful
  <1>12. ChoicesKept'
    <2>1. \A q \in Processes : \A c \in {call'[q]} : Active(q)' => c.doubt
      BY <1>9 DEF Active
    <2> QED
      BY <1>2, <1>11, <2>1 DEF ChoicesKept
  <1>13. \A q \in Processes : Settling(q)'
    BY <1>9 DEF Settling, Alone
  <1> QED
    BY <1>10, <1>12, <1>13 DEF Inv

LEMMA InitInv == Init => Inv
  <1> SUFFICES ASSUME Init
               PROVE  Inv
    OBVIOUS
  <1>1. file \in Initial
    BY DEF Init
  <1>2. /\ packages = {} /\ call = [q \in Processes |-> Idle] /\ patched = "no"
        /\ count = [calls |-> 0, edits |-> 0, faults |-> 0] /\ damaged = FALSE
        /\ wish = [user |-> Raw("user"), project |-> Raw("project"), plugins |-> Plugins]
    BY DEF Init
  <1>3. DOMAIN file = Paths
    BY <1>1, InstallationAssumption
  <1>5. \A path \in Paths : file[path] \in {Absent, Torn} \/ IsWritten(path, file[path])
    BY <1>1, InstallationAssumption
  <1>6. IsCall(Idle) /\ Idle.pc = "idle"
    BY DEF IsCall, Idle
  <1>7. \A level \in Levels : IsSettings(Raw(level))
    BY <1>3, <1>5, RawSettings DEF FilesTyped
  <1>8. IsPlugins(Plugins)
    BY <1>3, <1>5, PluginsTyped DEF FilesTyped
  <1>9. Typed
    <2>1. count \in Counts /\ packages \subseteq Packaged /\ DOMAIN call = Processes
      BY <1>2, InstallationAssumption DEF Counts
    <2>2. damaged \in BOOLEAN
      BY <1>2, Zenon
    <2>3. \A q \in Processes : IsCall(call[q])
      BY <1>2, <1>6
    <2>4. /\ wish = [user |-> wish.user, project |-> wish.project, plugins |-> wish.plugins]
          /\ IsSettings(wish.user) /\ IsSettings(wish.project) /\ IsPlugins(wish.plugins)
      BY <1>2, <1>7, <1>8 DEF Levels
    <2> QED
      BY <1>2, <1>3, <1>5, <2>1, <2>2, <2>3, <2>4 DEF Typed
  <1>10. FilesFaithful
    <2>1. wish.user = Raw("user") /\ wish.project = Raw("project") /\ wish.plugins = Plugins
      BY <1>2
    <2>2. Faithful("user", Raw("user")) /\ Faithful("project", Raw("project"))
      BY <2>1 DEF Faithful, Says, Rephrases, Chosen
    <2>3. Faithful("opencode", Plugins)
      BY <2>1 DEF Faithful, SaysPlugins
    <2> QED
      BY <2>2, <2>3 DEF FilesFaithful
  <1>11. \A q \in Processes : ~Active(q) /\ ~Alone(q)
    BY <1>2, <1>6 DEF Active, Alone
  <1> QED
    BY <1>9, <1>10, <1>11 DEF Inv, ChoicesKept, Settling

LEMMA StepInv == Inv /\ [Next]_vars => Inv'
  <1> SUFFICES ASSUME Inv, [Next]_vars
               PROVE  Inv'
    OBVIOUS
  <1>1. ASSUME NEW p \in Processes, NEW install \in BOOLEAN, Begin(p, install)
        PROVE  Inv'
    BY <1>1, BeginKeeps
  <1>2. ASSUME NEW p \in Processes, Step(p)
        PROVE  Inv'
    <2>1. CASE EnsureUserFile(p)
      BY <2>1, EnsureUserFileKeeps
    <2>2. CASE Register(p)
      BY <2>2, RegisterKeeps
    <2>3. CASE ReadUser(p)
      BY <2>3, ReadUserKeeps
    <2>4. CASE ReadProject(p)
      BY <2>4, ReadProjectKeeps
    <2>5. CASE InstallPackages(p)
      BY <2>5, InstallPackagesKeeps
    <2>6. CASE PackagesFail(p)
      BY <2>6, PackagesFailKeeps
    <2>7. CASE PatchProject(p)
      BY <2>7, PatchProjectKeeps
    <2>8. CASE WriteManifest(p)
      BY <2>8, WriteManifestKeeps
    <2>9. CASE Truncate(p)
      BY <2>9, TruncateKeeps
    <2>10. CASE Write(p)
      BY <2>10, WriteKeeps
    <2>11. CASE WriteFails(p)
      BY <2>11, WriteFailsKeeps
    <2>12. CASE Die(p) \/ Use(p)
      BY <2>12, DieKeeps
    <2>13. CASE ReadFails(p)
      BY <2>13, ReadFailsKeeps
    <2> QED
      BY <1>2, <2>1, <2>2, <2>3, <2>4, <2>5, <2>6, <2>7, <2>8, <2>9, <2>10, <2>11, <2>12,
         <2>13 DEF Step
  <1>3. ASSUME NEW path \in DOMAIN Edits, NEW content \in Edits[path], Edit(path, content)
        PROVE  Inv'
    BY <1>3, EditKeeps
  <1>4. CASE UNCHANGED vars
    <2>1. UNCHANGED <<file, packages, call, count, wish, damaged, patched>>
      BY <1>4 DEF vars
    <2>2. Typed'
      BY <2>1 DEF Inv, Typed
    <2>3. FilesFaithful => FilesFaithful'
      BY <2>1, FilesStay
    <2>4. \A c : CallFaithful(c) => CallFaithful(c)'
      BY <2>1, FaithfulStays
    <2>5. ChoicesKept'
      BY <2>1, <2>3, <2>4 DEF Inv, ChoicesKept, Active
    <2>6. \A c : Settled(c)' <=> Settled(c)
      BY <2>1, SettledStays
    <2>7. \A p \in Processes : Settling(p)'
      BY <2>1, <2>6 DEF Inv, Settling, Alone, Active
    <2> QED
      BY <2>2, <2>5, <2>7 DEF Inv
  <1> QED
    BY <1>1, <1>2, <1>3, <1>4 DEF Next

(* The inductive invariant: types, the user's choices in files and calls,  *)
(* and what an undisturbed install has achieved at each of its steps.      *)
THEOREM Invariant == Spec => []Inv
  BY InitInv, StepInv, PTL DEF Spec

-----------------------------------------------------------------------------
(* Theorems.                                                               *)

(* The state is well typed, whatever types the files' fields have.         *)
THEOREM InstallationTypeCorrect == Spec => []InstallationTypeOK
  <1>1. Inv => InstallationTypeOK
    <2> SUFFICES ASSUME Typed
                 PROVE  InstallationTypeOK
      BY DEF Inv
    <2>1. ASSUME NEW path \in Paths
          PROVE  file[path] \in {Absent, Torn} \/ Readable(path)
      <3>1. file[path] \in {Absent, Torn} \/ IsWritten(path, file[path])
        BY DEF Typed
      <3>2. \A data : Json(data).form = "json" /\ Commented(data).form = "commented"
        BY DEF Json, Commented
      <3> QED
        BY <3>1, <3>2 DEF IsWritten, Readable
    <2>2. ASSUME Readable("opencode")
          PROVE  IsPlugins(file["opencode"].data)
      <3>1. IsPlugins(Plugins)
        BY PluginsTyped DEF Typed, FilesTyped
      <3> QED
        BY <2>2, <3>1 DEF Plugins
    <2>3. ASSUME NEW p \in Processes, Active(p)
          PROVE  /\ call[p].goal \in {"packages", "manifest", "use"}
                 /\ call[p].path \in {"user", "project", "opencode", "manifest"}
                 /\ call[p].config.approval \in BOOLEAN
                 /\ Servers \subseteq DOMAIN call[p].config.servers
      <3>1. IsUnderWay(call[p])
        BY <2>3, CallFacts
      <3>2. IsConfig(call[p].config)
        BY <3>1 DEF IsUnderWay
      <3>3. call[p].config.approval \in BOOLEAN
        BY <3>2, Zenon DEF IsConfig
      <3> QED
        BY <3>1, <3>2, <3>3 DEF IsUnderWay, IsConfig, Goals
    <2>4. /\ packages \subseteq Packaged /\ damaged \in BOOLEAN
          /\ patched \in {"no", "yes", "overtaken"}
          /\ count \in [calls : 0 .. MaxCalls, edits : 0 .. MaxEdits, faults : 0 .. MaxFaults]
      BY DEF Typed, Counts
    <2> QED
      BY <2>1, <2>2, <2>3, <2>4 DEF InstallationTypeOK
  <1> QED
    BY <1>1, Invariant, PTL

(* What the user has set is what a run acts on, but for what install sets  *)
(* itself, whatever was installed, moved, interrupted or done at the same  *)
(* time before, and opencode.json is what was set there, with the plugin,  *)
(* unless a file was misread: loadMergedConfig and install                 *)
(* (config/index.ts, plugin/create-plugin-interface.ts).                   *)
THEOREM ChoicesAreKept == Spec => []UserChoicesKept
  <1>1. Inv => UserChoicesKept
    <2> SUFFICES ASSUME Inv, ~damaged
                 PROVE  /\ \A p \in Processes :
                              HasLoaded(p) /\ ~call[p].doubt => Respects(call[p].config)
                        /\ Readable("opencode") => SaysPlugins(Plugins)
      BY DEF UserChoicesKept, SaysPlugins
    <2>1. FilesFaithful
      BY DEF Inv, ChoicesKept
    <2>2. ASSUME NEW p \in Processes, HasLoaded(p), ~call[p].doubt
          PROVE  Respects(call[p].config)
      <3>1. PICK c : c = call[p]
        OBVIOUS
      <3>2. Active(p) /\ c.pc \in Goals \cup {"patch"}
        BY <2>2, <3>1 DEF HasLoaded, At, Goals
      <3>3. CallFaithful(c)
        BY <2>2, <3>1, <3>2 DEF Inv, ChoicesKept
      <3>4. Position(c) = c.pc
        BY <3>2 DEF Position, Pending, Goals
      <3> QED
        BY <3>1, <3>2, <3>3, <3>4 DEF CallFaithful
    <2>3. ASSUME Readable("opencode")
          PROVE  SaysPlugins(Plugins)
      <3>1. file["opencode"] # Torn
        BY <2>3 DEF Readable, Torn
      <3> QED
        BY <2>1, <3>1 DEF FilesFaithful, Faithful
    <2> QED
      BY <2>2, <2>3
  <1> QED
    BY <1>1, Invariant, PTL

(* After an install that nothing disturbed, another finds the user's file, *)
(* the plugin and the packages there, would patch the project's file into  *)
(* what it is, and the manifest is that of what is loaded from then on:    *)
(* install (plugin/create-plugin-interface.ts).                            *)
THEOREM InstallingSettles == Spec => []InstallSettles
  <1>1. Inv => InstallSettles
    <2> SUFFICES ASSUME Inv, NEW p \in Processes, DoneAlone(p)
                 PROVE  /\ file["user"] # Absent
                        /\ Readable("opencode") => HasTeam(Plugins)
                        /\ file["manifest"] = Json(Current.servers)
                        /\ ~call[p].doubt =>
                              /\ Started(Current) \subseteq packages
                              /\ Readable("project")
                              /\ file["project"] = Json(Patched(file["project"].data, Current))
      BY DEF InstallSettles
    <2>1. PICK c : c = call[p]
      OBVIOUS
    <2>2. c.pc = "done" /\ c.alone
      BY <2>1 DEF DoneAlone
    <2>3. Settled(c)
      BY <2>1, <2>2 DEF Inv, Settling, Alone, Installing
    <2>4. UserFileThere(c) /\ Registered(c) /\ PatchedNow(c)
          /\ file["manifest"] = Json(Current.servers)
      BY <2>2, <2>3 DEF Settled
    <2>5. ~Pending(c) /\ Position(c) = "done"
      BY <2>2 DEF Pending, Position
    <2>6. file["user"] # Absent
      BY <2>2, <2>4 DEF UserFileThere
    <2>7. Readable("opencode") => HasTeam(Plugins)
      BY <2>4, <2>5 DEF Registered, Plugins
    <2>8. ASSUME ~c.doubt
          PROVE  /\ Started(Current) \subseteq packages /\ Readable("project")
                 /\ file["project"] = Json(Patched(file["project"].data, Current))
      <3>1. PICK data : data = file["project"].data
        OBVIOUS
      <3>2. file["project"] = Json(data) /\ PatchMade(data)
        BY <2>2, <2>4, <2>8, <3>1 DEF PatchedNow
      <3>3. Readable("project")
        <4>1. Json(data).form = "json"
          BY DEF Json
        <4> QED
          BY <3>2, <4>1 DEF Readable
      <3>4. Raw("project") = data
        BY <3>1, <3>3, RawReadable DEF Levels
      <3>5. Current = Loaded(Raw("user"), data)
        BY <3>4 DEF Current
      <3>6. Started(Current) \subseteq packages /\ data = Patched(data, Current)
        BY <3>2, <3>5 DEF PatchMade
      <3> QED
        BY <3>1, <3>2, <3>3, <3>6
    <2> QED
      BY <2>1, <2>4, <2>6, <2>7, <2>8
  <1> QED
    BY <1>1, Invariant, PTL
=============================================================================
