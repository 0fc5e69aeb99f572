---- MODULE Install ----
\* What installs itself: the npm package puts its verified binary in place and
\* starts it (scripts/install.js, scripts/run.js), and the install command copies
\* the bundled Agent Skill to the directories of the agents (skill_install.go).
\* Both build the new thing beside the old one, move the old one away, publish
\* with a rename and take the old one back when that fails. Several processes do
\* so at once, downloads and renames fail, processes are killed.
\*
\* What a place holds: "none", "old" (an earlier version), "part" (half written),
\* "other" (a whole file with another digest), "new".
EXTENDS Naturals, FiniteSets

CONSTANTS Installers,   \* processes of npm install or of the launcher
          Copiers,      \* processes of v-local-cli install
          Dirs,         \* skill directories
          MaxFaults     \* bound on renames that fail

VARIABLES bundle,   \* the skill files the command finds beside itself, "new" or "other"
          place,    \* what the binary's path and each skill directory hold
          had,      \* the places that held something at the start
          proc,     \* the processes
          faults,   \* renames that have failed so far
          aside     \* the places whose earlier version lies beside them in a backup that
                    \* nobody puts back

vars == <<bundle, place, had, proc, faults, aside>>

Places == Dirs \cup {"binary"}

Procs == Installers \cup Copiers

\* A process works on the places in todo, the first of which is its target; own is
\* its temporary file or staging directory, backup what it has moved away.
Init == /\ bundle \in {"new", "other"}
        /\ place \in [Places -> {"none", "old", "new"}]
        /\ had = {t \in Places : place[t] # "none"}
        /\ proc = [p \in Procs |-> [at |-> "start", todo |-> IF p \in Copiers THEN Dirs ELSE {"binary"},
                                    target |-> {}, own |-> "none", backup |-> "none", ok |-> TRUE, ran |-> {}]]
        /\ faults = 0
        /\ aside = {}

To(p, r) == proc' = [proc EXCEPT ![p] = r]

Target(p) == CHOOSE t \in proc[p].target : TRUE
Goto(p, at) == To(p, [proc[p] EXCEPT !.at = at])

Fault == faults < MaxFaults /\ faults' = faults + 1

\* The launcher installs only when there is no binary, npm's install whenever the
\* binary is not the one whose digest the package names.
Begin(p) ==
    /\ p \in Installers /\ proc[p].at = "start"
    /\ \/ place["binary"] # "none" /\ Goto(p, "check")
       \/ place["binary"] # "new" /\ To(p, [proc[p] EXCEPT !.at = "download", !.target = {"binary"}, !.own = "part"])
    /\ UNCHANGED <<bundle, place, had, faults, aside>>

\* Fault: that there is a bundle is taken for its being whole.
VerifyExists(p) ==
    /\ p \in Copiers /\ proc[p].at = "start"
    /\ Goto(p, "next")
    /\ UNCHANGED <<bundle, place, had, faults, aside>>

\* The bundle is verified once: every file it installs is in its manifest, with its
\* digest, and no other.
Verify(p) ==
    /\ p \in Copiers /\ proc[p].at = "start"
    /\ IF bundle = "new" THEN Goto(p, "next") ELSE To(p, [proc[p] EXCEPT !.at = "done", !.ok = FALSE])
    /\ UNCHANGED <<bundle, place, had, faults, aside>>

\* Then each directory in turn gets a copy.
NextDir(p) ==
    /\ proc[p].at = "next"
    /\ \E d \in proc[p].todo :
          To(p, [proc[p] EXCEPT !.at = "copy", !.todo = @ \ {d}, !.target = {d}, !.own = "part"])
    /\ UNCHANGED <<bundle, place, had, faults, aside>>

Finished(p) ==
    /\ proc[p].at = "next" /\ proc[p].todo = {}
    /\ Goto(p, "done")
    /\ UNCHANGED <<bundle, place, had, faults, aside>>

\* The temporary file is whole, whole but not the asset that was promised, or the
\* download failed.
Download(p) ==
    /\ proc[p].at = "download"
    /\ \/ \E whole \in {"new", "other"} : To(p, [proc[p] EXCEPT !.at = "look", !.own = whole])
       \/ To(p, [proc[p] EXCEPT !.at = "clean", !.ok = FALSE])
    /\ UNCHANGED <<bundle, place, had, faults, aside>>

\* The files go into a staging directory one by one; one that cannot be copied ends
\* the command.
Copy(p) ==
    /\ proc[p].at = "copy"
    /\ \/ To(p, [proc[p] EXCEPT !.at = "look", !.own = bundle])
       \/ To(p, [proc[p] EXCEPT !.at = "clean", !.ok = FALSE])
    /\ UNCHANGED <<bundle, place, had, faults, aside>>

\* Fault: the download is published as it came.
LookUnverified(p) ==
    /\ proc[p].at = "look"
    /\ Goto(p, IF place[Target(p)] = "none" THEN "publish" ELSE "move")
    /\ UNCHANGED <<bundle, place, had, faults, aside>>

\* A download must have the promised digest. Then the process looks whether there
\* is something to move away.
Look(p) ==
    /\ proc[p].at = "look"
    /\ IF p \in Installers /\ proc[p].own = "other" THEN To(p, [proc[p] EXCEPT !.at = "clean", !.ok = FALSE])
       ELSE Goto(p, IF place[Target(p)] = "none" THEN "publish" ELSE "move")
    /\ UNCHANGED <<bundle, place, had, faults, aside>>

MoveAway(p) ==
    /\ proc[p].at = "move" /\ place[Target(p)] # "none"
    /\ To(p, [proc[p] EXCEPT !.at = "publish", !.backup = place[Target(p)]])
    /\ place' = [place EXCEPT ![Target(p)] = "none"]
    /\ UNCHANGED <<bundle, had, faults, aside>>

\* The rename fails, or another process was quicker.
MoveFails(p) ==
    /\ proc[p].at = "move"
    /\ (place[Target(p)] = "none" /\ UNCHANGED faults) \/ Fault
    /\ To(p, [proc[p] EXCEPT !.at = "clean", !.ok = FALSE])
    /\ UNCHANGED <<bundle, place, had, aside>>

\* A file replaces what is there; a directory is renamed to a free name only.
Publish(p) ==
    /\ proc[p].at = "publish"
    /\ p \in Copiers => place[Target(p)] = "none"
    /\ place' = [place EXCEPT ![Target(p)] = proc[p].own]
    /\ To(p, [proc[p] EXCEPT !.at = "clean", !.own = "none", !.backup = "none"])
    /\ UNCHANGED <<bundle, had, faults, aside>>

PublishFails(p) ==
    /\ proc[p].at = "publish"
    /\ (p \in Copiers /\ place[Target(p)] # "none" /\ UNCHANGED faults) \/ Fault
    /\ To(p, [proc[p] EXCEPT !.ok = FALSE, !.at = IF proc[p].backup = "none" THEN "clean" ELSE "restore"])
    /\ UNCHANGED <<bundle, place, had, aside>>

\* Fault: a failed publication leaves the old one where it was moved to.
RestoreNothing(p) ==
    /\ proc[p].at = "restore"
    /\ Goto(p, "clean")
    /\ UNCHANGED <<bundle, place, had, faults, aside>>

\* The old one goes back when nothing has taken its place. The rename of a
\* directory sees to that itself; for the binary it is looked up first, and the
\* rename then replaces whatever is there by now.
Restore(p) ==
    /\ proc[p].at = "restore"
    /\ \/ place[Target(p)] = "none" /\ Goto(p, "back") /\ UNCHANGED place
       \/ place[Target(p)] # "none" /\ Goto(p, "clean") /\ UNCHANGED place
    /\ UNCHANGED <<bundle, had, faults, aside>>

PutBack(p) ==
    /\ proc[p].at = "back"
    /\ IF p \in Copiers /\ place[Target(p)] # "none" THEN UNCHANGED place
       ELSE place' = [place EXCEPT ![Target(p)] = proc[p].backup]
    /\ Goto(p, "clean")
    /\ UNCHANGED <<bundle, had, faults, aside>>

\* That rename may fail as well, and the old one then stays where it was moved to:
\* install.js throws that error, skill_install.go ignores it.
PutBackFails(p) ==
    /\ proc[p].at = "back"
    /\ Fault
    /\ aside' = aside \cup proc[p].target
    /\ Goto(p, "clean")
    /\ UNCHANGED <<bundle, place, had>>

\* What is left of the temporary file goes. A failed copy ends the command, with
\* the directories before it installed.
Clean(p) ==
    /\ proc[p].at = "clean"
    /\ To(p, [proc[p] EXCEPT !.own = "none", !.backup = "none", !.target = {},
                             !.at = IF ~proc[p].ok THEN "done"
                                    ELSE IF p \in Copiers THEN "next" ELSE "check"])
    /\ UNCHANGED <<bundle, place, had, faults, aside>>

\* Fault: the binary is started without a look at its digest.
CheckNothing(p) ==
    /\ p \in Installers /\ proc[p].at = "check"
    /\ Goto(p, IF place["binary"] = "none" THEN "done" ELSE "run")
    /\ UNCHANGED <<bundle, place, had, faults, aside>>

\* Every start verifies the digest of the binary, then starts what is there.
Check(p) ==
    /\ p \in Installers /\ proc[p].at = "check"
    /\ IF place["binary"] = "new" THEN Goto(p, "run")
       ELSE To(p, [proc[p] EXCEPT !.at = "done", !.ok = FALSE])
    /\ UNCHANGED <<bundle, place, had, faults, aside>>

Run(p) ==
    /\ proc[p].at = "run"
    /\ To(p, [proc[p] EXCEPT !.at = "done", !.ran = {place["binary"]}])
    /\ UNCHANGED <<bundle, place, had, faults, aside>>

\* A process is killed; what it wrote or moved away beside the target stays there.
Crash(p) == /\ proc[p].at \notin {"start", "done"}
            /\ To(p, [proc[p] EXCEPT !.at = "done", !.ok = FALSE])
            /\ aside' = IF proc[p].at \in {"publish", "restore", "back"} /\ proc[p].backup # "none"
                         THEN aside \cup proc[p].target ELSE aside
            /\ UNCHANGED <<bundle, place, had, faults>>

Next == \E p \in Procs : \/ Begin(p)
                         \/ Verify(p)
                         \/ NextDir(p)
                         \/ Finished(p)
                         \/ Download(p)
                         \/ Copy(p)
                         \/ Look(p)
                         \/ MoveAway(p)
                         \/ MoveFails(p)
                         \/ Publish(p)
                         \/ PublishFails(p)
                         \/ Restore(p)
                         \/ PutBack(p)
                         \/ PutBackFails(p)
                         \/ Clean(p)
                         \/ Check(p)
                         \/ Run(p)
                         \/ Crash(p)

Spec == Init /\ [][Next]_vars

----------------------------------------------------------------------------
\* Properties

\* Unless a publication failed, a binary that is started is one whose digest the
\* package names, although other processes replace it between the check and the
\* start. (A failed one may put an old binary back in between.) (run.js)
RanVerified == faults = 0 => \A p \in Procs : proc[p].ran \subseteq {"new", "none"}

\* Neither the binary's path nor a skill directory ever shows a half-written thing
\* or a download or a bundle with another digest (install, copyBundledSkill).
NothingHalf == \A t \in Places : place[t] \notin {"part", "other"}

\* Where something was installed, something is installed when all processes have
\* ended, however many of their renames failed and whoever was killed, unless a
\* process was killed between moving the old one away and putting it back or
\* publishing the new one, or the rename that puts it back failed too: then the old
\* one is in its backup beside the place (replaceFile, copyBundledSkill).
Kept == (\A p \in Procs : proc[p].at = "done") =>
            \A t \in had \ aside : place[t] # "none"

====
