--------------------------- MODULE MCInstallation ---------------------------
(* An instance of Installation for TLC.                                    *)
EXTENDS Installation, TLC

CONSTANTS p1, p2

TwoProcesses == {p1, p2}
Strings == STRING
Symmetry == Permutations(TwoProcesses)

NoApproval == [approval |-> FALSE, servers |-> [filesystem |-> [enabled |-> FALSE]]]
Strict == [approval |-> TRUE, servers |-> [web_search |-> [enabled |-> FALSE],
                                           github |-> [enabled |-> FALSE]]]
OwnServers ==
    [approval |-> TRUE,
     servers |-> [filesystem |-> [args |-> <<"-y", "filesystem", "-y", "filesystem", "src">>],
                  github |-> [enabled |-> FALSE],
                  db |-> [args |-> <<"--local">>]]]
WrongTypes == [approval |-> Bad, servers |-> [github |-> [enabled |-> Bad, remote |-> TRUE],
                                              context7 |-> Bad]]

Mixed == [names |-> <<"other", "opencode-team@1">>, others |-> TRUE]
Named == [names |-> <<"opencode-team", "other">>, others |-> TRUE]

Files(user, legacy, project, old, opencode, manifest) ==
    [user |-> user, userLegacy |-> legacy, userOlder |-> Absent, project |-> project,
     projectLegacy |-> old, opencode |-> opencode, manifest |-> manifest]

Projects == {Absent, Json(OwnServers), Commented(Strict), Json(WrongTypes)}

(* Users with and without legacy files, and those of the npm package.      *)
Found ==
    {Files(user, legacy, project, old, Commented(Mixed), Absent) :
        user \in {Absent, Json(NoApproval)}, legacy \in {Absent, Commented(NoApproval)},
        project \in Projects, old \in {Absent, Json(NoApproval)}}
    \cup {Files(Json(PostDefaults), Absent, project, Absent, opencode,
                Json(PostDefaults.servers)) :
             project \in Projects, opencode \in {Absent, Json(Named)}}

Changes == [user |-> {Json(NoApproval)},
            project |-> {Json(Strict)},
            opencode |-> {Json(Named)}]
=============================================================================
