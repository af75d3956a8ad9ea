---------------------------- MODULE Installation ----------------------------
(***************************************************************************)
(* install (plugin/create-plugin-interface.ts) and every other reader of   *)
(* the configuration (loadMergedConfig, config/index.ts), which moves      *)
(* settings from legacy paths as it reads: the files that several          *)
(* processes and the user write, none of them under a lock.                *)
(*                                                                         *)
(* A write is two steps, since writeFile truncates first; a process may    *)
(* die between them, or another may read there.  Legacy files are never    *)
(* written, so that a file and its fallbacks are read in one step.         *)
(*                                                                         *)
(* Of the settings outside of mcp.servers one is kept, the approval that a *)
(* merge needs; the others are read, merged and moved like it.  `required` *)
(* is a field of a server that install passes on.                          *)
(***************************************************************************)
EXTENDS Integers, Sequences, FiniteSetsExt

CONSTANTS
    Processes,  \* callers of install or loadMergedConfig
    Initial,    \* what the files may hold at first: a set of contents of all paths
    Edits,      \* what the user may write: a set of contents per path
    Texts,      \* the strings that commands, arguments and names of plugins are
    Bad,        \* the value of a field that has the wrong type
    MaxCalls,   \* bound: calls in a behaviour
    MaxEdits,   \* bound: edits by the user
    MaxFaults   \* bound: deaths and failed operations

VARIABLES
    file,      \* the content of each path
    packages,  \* directories of installed server packages
    call,      \* the call of each process
    count,     \* what is bounded
    wish,      \* history: what the user has last set
    damaged,   \* history: something was written from a misreading
    patched    \* history: install has patched what the user last set for the project

vars == <<file, packages, call, count, wish, damaged, patched>>

-----------------------------------------------------------------------------
(* Files.  The paths where settings are looked for, in this order.         *)
Locations == [user |-> <<"user", "userLegacy", "userOlder">>,
              project |-> <<"project", "projectLegacy">>]

UserPaths == {"user", "userLegacy", "userOlder", "project", "projectLegacy", "opencode"}
Paths == UserPaths \cup {"manifest"}

Absent == [form |-> "absent"]
Torn == [form |-> "torn"]
Json(data) == [form |-> "json", data |-> data]
Commented(data) == [form |-> "commented", data |-> data]   \* JSON with comments

(* readJsonFile takes comments and trailing commas.                        *)
Readable(path) == file[path].form \in {"json", "commented"}

-----------------------------------------------------------------------------
(* Settings: approval may be missing, servers is a function on the names   *)
(* that are set, a server may lack any field.                              *)
Packaged == {"filesystem", "github"}    \* INSTALL_SPECS
Fixed == {"web_search", "context7"}
Servers == Packaged \cup Fixed

Nothing == [servers |-> <<>>]

Remote(s) == [enabled |-> TRUE, remote |-> TRUE, command |-> "url", args |-> <<>>]
Npx(enabled, args) ==
    [enabled |-> enabled, remote |-> FALSE, command |-> "npx", args |-> args]

Defaults ==
    [approval |-> TRUE,
     servers |-> [s \in Servers |->
         CASE s = "filesystem" -> [Npx(TRUE, <<>>) EXCEPT !.command = "mcp-server-filesystem"]
           [] s = "github" -> Npx(TRUE, <<"-y", "github">>)
           [] OTHER -> Remote(s)]]

(* What scripts/postinstall.mjs writes where there is no user file yet, and*)
(* whose servers it makes a manifest of: its own idea of the defaults.     *)
PostDefaults ==
    [approval |-> TRUE,
     servers |-> [s \in Packaged \cup {"web_search"} |->
                     [enabled |-> TRUE, command |-> s, args |-> <<>>]]]

(* A server that only the user knows.                                      *)
NewServer(s) == [enabled |-> TRUE, remote |-> FALSE, command |-> s, args |-> <<>>]

(* { ...old, ...new }                                                      *)
Spread(new, old) ==
    [x \in DOMAIN new \cup DOMAIN old |-> IF x \in DOMAIN new THEN new[x] ELSE old[x]]

(* Mutant of Fields: the types are not looked at.                          *)
AllFields(raw) == raw

(* normalizeConfig drops what has the wrong type, field by field, and a    *)
(* server of which nothing is left.                                        *)
Fields(raw) == [f \in {g \in DOMAIN raw : raw[g] # Bad} |-> raw[f]]

Normalized(raw) ==
    LET kept == {s \in DOMAIN raw.servers :
                    raw.servers[s] # Bad /\ DOMAIN Fields(raw.servers[s]) # {}}
    IN  Spread([servers |-> [s \in kept |-> Fields(raw.servers[s])]], Fields(raw))

Merge(base, patch) ==
    [approval |-> IF "approval" \in DOMAIN patch THEN patch.approval ELSE base.approval,
     servers |-> [s \in DOMAIN base.servers \cup DOMAIN patch.servers |->
         Spread(IF s \in DOMAIN patch.servers THEN patch.servers[s] ELSE <<>>,
                IF s \in DOMAIN base.servers THEN base.servers[s] ELSE NewServer(s))]]

Loaded(user, project) == Merge(Merge(Defaults, Normalized(user)), Normalized(project))

-----------------------------------------------------------------------------
(* What install writes into the project's file.                            *)
FallbackTail(s) == IF s = "filesystem" THEN <<".">> ELSE <<>>

(* The pairs "-y", package in front of the arguments: the loop stops at the*)
(* first place where there is none.                                        *)
PairAt(s, args, n) ==
    2 * n + 2 <= Len(args) /\ args[2 * n + 1] = "-y" /\ args[2 * n + 2] = s
Pairs(s, args) == Min({n \in 0 .. Len(args) : ~PairAt(s, args, n)})

(* Mutant of NormalizeArgs: the prefix is put before whatever there is.    *)
PrefixArgs(s, args) == <<"-y", s>> \o (IF args = <<>> THEN FallbackTail(s) ELSE args)

(* normalizeNpxServerArgs: the pairs in front become one.                  *)
NormalizeArgs(s, args) ==
    LET tail == SubSeq(args, 2 * Pairs(s, args) + 1, Len(args))
    IN  <<"-y", s>> \o (IF tail = <<>> THEN FallbackTail(s) ELSE tail)

Started(config) ==
    {s \in Packaged : config.servers[s].enabled /\ ~config.servers[s].remote}

ServerPatch(config) ==
    [s \in Fixed \cup Started(config) |->
        IF s \in Fixed THEN Remote(s) ELSE Npx(TRUE, NormalizeArgs(s, config.servers[s].args))]

(* Mutant of Patched: the servers of the project are not spread.           *)
PatchedAlone(existing, config) == [existing EXCEPT !.servers = ServerPatch(config)]

Patched(existing, config) == [existing EXCEPT !.servers = Spread(ServerPatch(config), @)]

(* The plugins of opencode.json: the strings that are listed, and whether  *)
(* there are others, values that are no strings or stand for the list.     *)
NoPlugins == [names |-> <<>>, others |-> FALSE]

(* The plugin counts as registered under its name, or as install writes it;*)
(* pinned to a version it does not.                                        *)
Team == "opencode-team@latest"
HasTeam(plugins) ==
    \E i \in DOMAIN plugins.names : plugins.names[i] \in {Team, "opencode-team"}

(* What is no string is dropped where the plugin is added.                 *)
WithTeam(plugins) == [names |-> Append(plugins.names, Team), others |-> FALSE]

-----------------------------------------------------------------------------
(* What the files may hold that users and OpenCode write: settings whose   *)
(* fields may be missing or of a wrong type, and plugins.                  *)
FieldTypes ==
    [enabled |-> BOOLEAN, remote |-> BOOLEAN, command |-> Texts, args |-> Seq(Texts)]

IsServer(raw) ==
    raw = Bad \/ \A f \in DOMAIN raw : /\ f \in DOMAIN FieldTypes
                                       /\ raw[f] = Bad \/ raw[f] \in FieldTypes[f]

IsSettings(raw) ==
    /\ "servers" \in DOMAIN raw /\ DOMAIN raw \subseteq {"approval", "servers"}
    /\ "approval" \in DOMAIN raw => raw.approval \in BOOLEAN \cup {Bad}
    /\ \A s \in DOMAIN raw.servers : IsServer(raw.servers[s])

IsPlugins(data) == data \in [names : Seq(Texts), others : BOOLEAN]

IsData(path, data) == /\ path = "opencode" => IsPlugins(data)
                      /\ path \notin {"opencode", "manifest"} => IsSettings(data)

IsWritten(path, f) == f \in {Json(f.data), Commented(f.data)} /\ IsData(path, f.data)

ASSUME InstallationAssumption ==
    /\ {"npx", "-y", ".", "url", "mcp-server-filesystem", Team, "opencode-team"} \cup Packaged \subseteq Texts
    /\ Bad \notin BOOLEAN /\ Bad \notin Texts /\ Bad \notin Seq(Texts)
    /\ Bad \notin [enabled : BOOLEAN, remote : BOOLEAN, command : Texts, args : Seq(Texts)]
    /\ \A found \in Initial :
          /\ DOMAIN found = Paths
          /\ \A path \in Paths :
                found[path] \in {Absent, Torn} \/ IsWritten(path, found[path])
    /\ DOMAIN Edits \subseteq {"user", "project", "opencode"}
    /\ \A path \in DOMAIN Edits : \A f \in Edits[path] : IsWritten(path, f)
    /\ {MaxCalls, MaxEdits, MaxFaults} \subseteq Nat

-----------------------------------------------------------------------------
(* The file that the settings of a level come from, and the settings.      *)
Sources(level) == {i \in DOMAIN Locations[level] : Readable(Locations[level][i])}
Source(level) ==
    IF Sources(level) = {} THEN level ELSE Locations[level][Min(Sources(level))]
Raw(level) == IF Sources(level) = {} THEN Nothing ELSE file[Source(level)].data

Plugins == IF Readable("opencode") THEN file["opencode"].data ELSE NoPlugins

(* What loadMergedConfig would return now, nothing else happening.         *)
Current == Loaded(Raw("user"), Raw("project"))

Idle == [pc |-> "idle"]
Ended(c, how) == [pc |-> how, alone |-> c.alone, doubt |-> c.doubt]
Active(p) == call[p].pc \notin {"idle", "done", "failed"}
At(p, step) == Active(p) /\ call[p].pc = step

Init == /\ file \in Initial
        /\ packages = {}
        /\ call = [p \in Processes |-> Idle]
        /\ count = [calls |-> 0, edits |-> 0, faults |-> 0]
        /\ wish = [user |-> Raw("user"), project |-> Raw("project"),
                   plugins |-> Plugins]
        /\ damaged = FALSE
        /\ patched = "no"

-----------------------------------------------------------------------------
(* Steps of a call.  `goal` is where the load leads to: to the packages and*)
(* later to the manifest in an install, to use in a run or a doctor.       *)
(* `doubt`: the call has read what is not, or no longer, what the user     *)
(* set; `alone`: no other call, edit or failing read since it began.       *)
Goto(c, step) == [c EXCEPT !.pc = step]

Put(c, path, data, then) ==
    [c EXCEPT !.pc = "truncate", !.path = path, !.content = Json(data), !.then = then]

Becomes(p, c) == call' = [call EXCEPT ![p] = c]

Fail(p) == Becomes(p, Ended(call[p], "failed"))

Fault == /\ count.faults < MaxFaults
         /\ count' = [count EXCEPT !.faults = @ + 1]

Begin(p, install) ==
    /\ ~Active(p)
    /\ count.calls < MaxCalls
    /\ count' = [count EXCEPT !.calls = @ + 1]
    /\ call' = [q \in Processes |->
           IF q = p
           THEN [pc |-> IF install THEN "user file" ELSE "read user",
                 goal |-> IF install THEN "packages" ELSE "use",
                 user |-> Nothing, config |-> Defaults,
                 path |-> "manifest", content |-> Absent, then |-> "done",
                 doubt |-> FALSE, alone |-> \A r \in Processes : ~Active(r)]
           ELSE IF call[q].pc = "idle" THEN Idle ELSE [call[q] EXCEPT !.alone = FALSE]]
    /\ UNCHANGED <<file, packages, wish, damaged, patched>>

(* ensureUserConfigFile: whatever is at the path counts.  Settings at a    *)
(* legacy path are not looked for, and are hidden from now on.             *)
EnsureUserFile(p) ==
    /\ At(p, "user file")
    /\ Becomes(p, IF file["user"] # Absent
                  THEN Goto(call[p], "opencode")
                  ELSE [Put(call[p], "user", Defaults, "opencode")
                           EXCEPT !.doubt = @ \/ Sources("user") # {}])
    /\ UNCHANGED <<file, packages, count, wish, damaged, patched>>

(* Mutant of Register: the list is not searched first.                     *)
RegisterAgain(p) ==
    /\ At(p, "opencode")
    /\ Becomes(p, IF file["opencode"] = Torn THEN Goto(call[p], "read user")
                  ELSE Put(call[p], "opencode", WithTeam(Plugins), "read user"))
    /\ UNCHANGED <<file, packages, count, wish, damaged, patched>>

(* ensureOpenCodePluginRegistration; it gives up on a file it cannot parse.*)
Register(p) ==
    /\ At(p, "opencode")
    /\ Becomes(p, IF file["opencode"] = Torn \/ HasTeam(Plugins)
                  THEN Goto(call[p], "read user")
                  ELSE Put(call[p], "opencode", WithTeam(Plugins), "read user"))
    /\ UNCHANGED <<file, packages, count, wish, damaged, patched>>

(* readConfigWithFallback and persistMigratedConfig.                       *)
Migrate(c, level, then) ==
    IF Source(level) = level THEN Goto(c, then) ELSE Put(c, level, Raw(level), then)

Misread(level) == file[level] = Torn

ReadUser(p) ==
    /\ At(p, "read user")
    /\ Becomes(p, Migrate([call[p] EXCEPT !.user = Raw("user"), !.doubt = @ \/ Misread("user")],
                          "user", "read project"))
    /\ UNCHANGED <<file, packages, count, wish, damaged, patched>>

ReadProject(p) ==
    /\ At(p, "read project")
    /\ Becomes(p, Migrate([call[p] EXCEPT !.config = Loaded(call[p].user, Raw("project")),
                                          !.doubt = @ \/ Misread("project")],
                          "project", call[p].goal))
    /\ UNCHANGED <<file, packages, count, wish, damaged, patched>>

(* The run or the doctor that has loaded the configuration goes on.        *)
Use(p) == /\ At(p, "use")
          /\ Becomes(p, Idle)
          /\ UNCHANGED <<file, packages, count, wish, damaged, patched>>

-----------------------------------------------------------------------------
(* npm install, one package after the other; a directory that is there     *)
(* counts as installed.                                                    *)
Missing(p) == Started(call[p].config) \ packages

InstallPackages(p) ==
    /\ At(p, "packages")
    /\ packages' = packages \cup Missing(p)
    /\ Becomes(p, Goto(call[p], "patch"))
    /\ UNCHANGED <<file, count, wish, damaged, patched>>

(* It fails, with or without a directory left behind.                      *)
PackagesFail(p) ==
    /\ At(p, "packages")
    /\ Missing(p) # {}
    /\ Fault
    /\ \E left \in SUBSET Missing(p) :
          /\ "github" \in left => Missing(p) = left
          /\ packages' = packages \cup left
    /\ Fail(p)
    /\ UNCHANGED <<file, wish, damaged, patched>>

(* Mutant of PatchProject: the manifest is made of what was loaded before.*)
PatchLast(p) ==
    /\ At(p, "patch")
    /\ LET f == file["project"]
           existing == IF f.form = "json" THEN f.data ELSE Nothing
       IN  Becomes(p, [Put(call[p], "project", Patched(existing, call[p].config), "manifest")
                          EXCEPT !.doubt = @ \/ f.form \in {"torn", "commented"}
                                            \/ Source("project") # "project"])
    /\ UNCHANGED <<file, packages, count, wish, damaged, patched>>

(* writeProjectPatch: the file is read again, but strictly and without its *)
(* fallbacks; what is not plain JSON is taken for empty.                   *)
PatchProject(p) ==
    /\ At(p, "patch")
    /\ LET f == file["project"]
           existing == IF f.form = "json" THEN f.data ELSE Nothing
       IN  Becomes(p, [Put(call[p], "project", Patched(existing, call[p].config), "read user")
                          EXCEPT !.goal = "manifest",
                                 !.doubt = @ \/ f.form \in {"torn", "commented"}
                                             \/ Source("project") # "project"])
    /\ UNCHANGED <<file, packages, count, wish, damaged, patched>>

(* bootstrapMcpManifest; a manifest that cannot be parsed makes it throw.  *)
WriteManifest(p) ==
    /\ At(p, "manifest")
    /\ LET servers == call[p].config.servers
       IN  Becomes(p, CASE file["manifest"] = Torn -> Ended(call[p], "failed")
                        [] file["manifest"] = Json(servers) -> Ended(call[p], "done")
                        [] OTHER -> Put(call[p], "manifest", servers, "done"))
    /\ UNCHANGED <<file, packages, count, wish, damaged, patched>>

-----------------------------------------------------------------------------
(* A read fails although the file is there.  loadMergedConfig warns and    *)
(* takes the next location that it can read, moving that in place of the   *)
(* first, or none; the patch takes the file for empty; the others throw.   *)
Later(level) ==
    {file[Locations[level][i]].data : i \in {j \in Sources(level) : j # Min(Sources(level))}}

Misled(c) == [c EXCEPT !.doubt = TRUE, !.alone = FALSE]

ReadUserFails(p) ==
    /\ At(p, "read user")
    /\ LET took(raw) == [Misled(call[p]) EXCEPT !.user = raw]
       IN  \/ Becomes(p, Goto(took(Nothing), "read project"))
           \/ \E raw \in Later("user") :
                 Becomes(p, Put(took(raw), "user", raw, "read project"))

ReadProjectFails(p) ==
    /\ At(p, "read project")
    /\ LET took(raw) == [Misled(call[p]) EXCEPT !.config = Loaded(call[p].user, raw)]
       IN  \/ Becomes(p, Goto(took(Nothing), call[p].goal))
           \/ \E raw \in Later("project") :
                 Becomes(p, Put(took(raw), "project", raw, call[p].goal))

PatchBlindly(p) ==
    /\ At(p, "patch")
    /\ Becomes(p, [Put(Misled(call[p]), "project", Patched(Nothing, call[p].config),
                       "read user") EXCEPT !.goal = "manifest"])

ReadFails(p) ==
    /\ Fault
    /\ \/ ReadUserFails(p) \/ ReadProjectFails(p) \/ PatchBlindly(p)
       \/ (At(p, "user file") \/ At(p, "opencode") \/ At(p, "manifest")) /\ Fail(p)
    /\ UNCHANGED <<file, packages, wish, damaged, patched>>

-----------------------------------------------------------------------------
Truncate(p) ==
    /\ At(p, "truncate")
    /\ file' = [file EXCEPT ![call[p].path] = Torn]
    /\ Becomes(p, Goto(call[p], "write"))
    /\ UNCHANGED <<packages, count, wish, damaged, patched>>

(* A pending write that is the patch, and no migration.                    *)
Patching(c) == c.path = "project" /\ c.then = "read user"

Write(p) ==
    /\ At(p, "write")
    /\ LET c == call[p]
       IN  /\ file' = [file EXCEPT ![c.path] = c.content]
           /\ damaged' = (damaged \/ (c.doubt /\ c.path # "manifest"))
           /\ patched' = IF Patching(c) /\ patched = "no" THEN "yes" ELSE patched
           /\ Becomes(p, IF c.then = "done" THEN Ended(c, "done") ELSE Goto(c, c.then))
    /\ UNCHANGED <<packages, count, wish>>

(* A write throws.  That of a migration is only warned of.                 *)
Migrating(c) == c.then \in {"read project", "packages", "manifest", "use"}

WriteFails(p) ==
    /\ At(p, "truncate") \/ At(p, "write")
    /\ Fault
    /\ IF Migrating(call[p]) THEN Becomes(p, Goto(call[p], call[p].then)) ELSE Fail(p)
    /\ UNCHANGED <<file, packages, wish, damaged, patched>>

(* The process dies.                                                       *)
Die(p) == /\ Active(p)
          /\ Fault
          /\ Becomes(p, Idle)
          /\ UNCHANGED <<file, packages, wish, damaged, patched>>

(* The user, or OpenCode in its own file, writes a file as a whole.  What  *)
(* the user sets below the project comes too late for a patched project.   *)
Edit(path, content) ==
    /\ count.edits < MaxEdits
    /\ count' = [count EXCEPT !.edits = @ + 1]
    /\ file' = [file EXCEPT ![path] = content]
    /\ wish' = IF path = "opencode" THEN [wish EXCEPT !.plugins = content.data]
               ELSE [wish EXCEPT ![path] = content.data]
    /\ patched' = CASE path = "project" -> "no"
                    [] path = "user" /\ patched = "yes" -> "overtaken"
                    [] OTHER -> patched
    /\ call' = [q \in Processes |->
           CASE call[q].pc = "idle" -> Idle
             [] Active(q) -> [call[q] EXCEPT !.doubt = TRUE, !.alone = FALSE]
             [] OTHER -> [call[q] EXCEPT !.alone = FALSE]]
    /\ UNCHANGED <<packages, damaged>>

-----------------------------------------------------------------------------
Step(p) == \/ EnsureUserFile(p) \/ Register(p) \/ ReadUser(p) \/ ReadProject(p) \/ Use(p)
           \/ InstallPackages(p) \/ PackagesFail(p) \/ PatchProject(p) \/ WriteManifest(p)
           \/ Truncate(p) \/ Write(p) \/ WriteFails(p) \/ ReadFails(p) \/ Die(p)

Next == \/ \E p \in Processes, install \in BOOLEAN : Begin(p, install)
        \/ \E p \in Processes : Step(p)
        \/ \E path \in DOMAIN Edits : \E content \in Edits[path] : Edit(path, content)

Spec == Init /\ [][Next]_vars

-----------------------------------------------------------------------------
(* Properties.                                                             *)

(* Type correctness; a loaded configuration has no field of a wrong type.  *)
InstallationTypeOK ==
    /\ \A path \in Paths : file[path] \in {Absent, Torn} \/ Readable(path)
    /\ Readable("opencode") => IsPlugins(file["opencode"].data)
    /\ packages \subseteq Packaged
    /\ \A p \in Processes : Active(p) =>
          /\ call[p].goal \in {"packages", "manifest", "use"}
          /\ call[p].path \in {"user", "project", "opencode", "manifest"}
          /\ call[p].config.approval \in BOOLEAN
          /\ Servers \subseteq DOMAIN call[p].config.servers
    /\ count \in [calls : 0 .. MaxCalls, edits : 0 .. MaxEdits, faults : 0 .. MaxFaults]
    /\ damaged \in BOOLEAN
    /\ patched \in {"no", "yes", "overtaken"}

HasLoaded(p) == \E step \in {"use", "packages", "patch", "manifest"} : At(p, step)

(* A field of a server is set, with a value of the right type.             *)
Sets(raw, s, f) == /\ s \in DOMAIN raw.servers /\ raw.servers[s] # Bad
                   /\ f \in DOMAIN raw.servers[s] /\ raw.servers[s][f] # Bad

(* A configuration is what the user has set at both levels and the defaults*)
(* for the rest.  Over a project that install has patched that holds of    *)
(* everything but the servers that the patch names: install turns the fixed*)
(* ones on, whatever the user says, and puts the packaged ones that are    *)
(* started into npx's form.  It starts none of these that the user has     *)
(* turned off, nor one that is remote; a user file that is changed later   *)
(* does not reach what the patch has fixed in the project's.               *)
Respects(config) ==
    LET chosen == Loaded(wish.user, wish.project)
    IN  /\ patched = "no" => config = chosen
        /\ config.approval = chosen.approval
        /\ DOMAIN config.servers = DOMAIN chosen.servers
        /\ \A s \in DOMAIN chosen.servers \ Servers : config.servers[s] = chosen.servers[s]
        /\ \A s \in Packaged, f \in {"enabled", "remote"} :
              patched = "yes" \/ Sets(wish.project, s, f) =>
                 config.servers[s][f] = chosen.servers[s][f]

(* What the user has set is what a run acts on, whatever was installed,    *)
(* moved, interrupted or done at the same time before; and opencode.json   *)
(* holds what was set there, with the plugin behind the other ones.        *)
(* Excepted is what follows from a misreading: of a file that was torn or  *)
(* could not be read, of one with comments when it is patched, of one that *)
(* the user changes meanwhile, and of a legacy file that install did not   *)
(* look for, be it the user's or, after a failed migration, the project's. *)
UserChoicesKept ==
    ~damaged =>
        /\ \A p \in Processes : HasLoaded(p) /\ ~call[p].doubt => Respects(call[p].config)
        /\ Readable("opencode") =>
              \/ Plugins = wish.plugins
              \/ ~HasTeam(wish.plugins) /\ Plugins = WithTeam(wish.plugins)

DoneAlone(p) == call[p].pc = "done" /\ call[p].alone

(* Install settles: after one, another finds the user's file there, the    *)
(* plugin registered and the packages present, and would write the project *)
(* as it is, unless what was patched had been misread.  The manifest is    *)
(* that of the configuration which runs and doctors load from then on, the *)
(* install's own patch included.                                           *)
InstallSettles ==
    \A p \in Processes : DoneAlone(p) =>
        /\ file["user"] # Absent
        /\ Readable("opencode") => HasTeam(Plugins)
        /\ file["manifest"] = Json(Current.servers)
        /\ ~call[p].doubt =>
              /\ Started(Current) \subseteq packages
              /\ Readable("project")
              /\ file["project"] = Json(Patched(file["project"].data, Current))
=============================================================================
