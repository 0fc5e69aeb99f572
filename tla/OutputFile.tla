----------------------------- MODULE OutputFile -----------------------------
(***************************************************************************)
(* The file an export leaves at the path the user named: export,           *)
(* export-media, export-chat-image, export-moment-media and the diagnostic *)
(* bundle all write a private temporary file beside it and publish that    *)
(* (app/app.go prepareOutputTarget, writeTemporaryFileNear, publishNewFile,*)
(* publishFile).  Several exports may name one path, the user's other      *)
(* programs use it too, and any export may be killed between two steps.    *)
(***************************************************************************)
EXTENDS Naturals, FiniteSets

CONSTANTS
    Exporters,      \* exports that name the path
    MaxFaults,      \* bound: file operations that fail
    MaxUses         \* bound: changes other programs make to the path

VARIABLES
    pc,             \* Exporters -> step
    force,          \* Exporters -> was --force given?
    temp,           \* Exporters -> its temporary file
    backup,         \* Exporters -> what it moved out of the way
    target,         \* what is at the path
    told,           \* Exporters -> answer
    faults, uses

vars == <<pc, force, temp, backup, target, told, faults, uses>>

\* "old" was there before; an export's output is named by the export, "part"
\* is one not yet written to its end; "link" stands for a symbolic link or
\* another special file.
Files == {"none", "old", "user", "link", "part"} \cup Exporters

Init ==
    /\ pc = [e \in Exporters |-> "prepare"]
    /\ force \in [Exporters -> BOOLEAN]
    /\ temp = [e \in Exporters |-> "none"]
    /\ backup = [e \in Exporters |-> "none"]
    /\ target \in {"none", "old", "link"}
    /\ told = [e \in Exporters |-> "none"]
    /\ faults = 0 /\ uses = 0

Go(e, step) == pc' = [pc EXCEPT ![e] = step]

\* The answer of an export that ends; the deferred removal of its temporary.
End(e, answer) ==
    /\ Go(e, "end")
    /\ told' = [told EXCEPT ![e] = answer]
    /\ temp' = [temp EXCEPT ![e] = "none"]

Fault == faults < MaxFaults /\ faults' = faults + 1

\* prepareOutputTarget: only a regular file may be replaced, and only with
\* --force.
Takes(e) == target # "link" /\ (target = "none" \/ force[e])

Prepare(e) ==
    /\ pc[e] = "prepare"
    /\ IF Takes(e) THEN /\ Go(e, "write")
                        /\ temp' = [temp EXCEPT ![e] = "part"]
                        /\ UNCHANGED told
       ELSE End(e, "refused")
    /\ UNCHANGED <<force, backup, target, faults, uses>>

\* Everything is written, synced and closed before the name is touched.
Write(e) ==
    /\ pc[e] = "write"
    /\ \/ /\ temp' = [temp EXCEPT ![e] = e]
          /\ Go(e, IF force[e] THEN "look" ELSE "link")
          /\ UNCHANGED <<told, faults>>
       \/ Fault /\ End(e, "failed")
    /\ UNCHANGED <<force, backup, target, uses>>

\* Fault: a rename, which replaces whatever is there, publishes the file.
LinkOver(e) == TRUE

\* publishNewFile: a hard link is made only where nothing is.
LinkFree(e) == target = "none"

Link(e) ==
    /\ pc[e] = "link"
    /\ \/ /\ LinkFree(e)
          /\ target' = temp[e]
          /\ End(e, "published") /\ UNCHANGED faults
       \/ /\ ~LinkFree(e)
          /\ End(e, "refused") /\ UNCHANGED <<target, faults>>
       \/ Fault /\ End(e, "failed") /\ UNCHANGED target
    /\ UNCHANGED <<force, backup, uses>>

----------------------------------------------------------------------------
(* publishFile, the forced replacement: two renames and a removal.         *)

Look(e) ==
    /\ pc[e] = "look"
    /\ Go(e, IF target = "none" THEN "move" ELSE "save")
    /\ UNCHANGED <<force, temp, backup, target, told, faults, uses>>

\* The old file is moved to a name nobody else uses.
Save(e) ==
    /\ pc[e] = "save"
    /\ \/ /\ target # "none"
          /\ backup' = [backup EXCEPT ![e] = target]
          /\ target' = "none"
          /\ Go(e, "move") /\ UNCHANGED <<temp, told, faults>>
       \/ /\ target = "none" /\ UNCHANGED faults
          /\ End(e, "failed") /\ UNCHANGED <<backup, target>>
       \/ Fault /\ End(e, "failed") /\ UNCHANGED <<backup, target>>
    /\ UNCHANGED <<force, uses>>

Move(e) ==
    /\ pc[e] = "move"
    /\ \/ /\ target' = temp[e]
          /\ temp' = [temp EXCEPT ![e] = "none"]
          /\ Go(e, "drop") /\ UNCHANGED faults
       \/ Fault /\ Go(e, "restore") /\ UNCHANGED <<target, temp>>
    /\ UNCHANGED <<force, backup, told, uses>>

\* Fault: the old file is removed whether or not the new one got its name.
DropOld(e) == /\ backup' = [backup EXCEPT ![e] = "none"] /\ UNCHANGED target

\* The old file goes back to its name, whatever has come there since.
PutBack(e) ==
    IF backup[e] = "none" THEN UNCHANGED <<backup, target>>
    ELSE /\ target' = backup[e]
         /\ backup' = [backup EXCEPT ![e] = "none"]

Restore(e) ==
    /\ pc[e] = "restore"
    /\ \/ PutBack(e) /\ UNCHANGED faults
       \/ Fault /\ UNCHANGED <<backup, target>>
    /\ End(e, "failed")
    /\ UNCHANGED <<force, uses>>

Drop(e) ==
    /\ pc[e] = "drop"
    /\ backup' = [backup EXCEPT ![e] = "none"]
    /\ End(e, "published")
    /\ UNCHANGED <<force, target, faults, uses>>

----------------------------------------------------------------------------
Crash(e) ==
    /\ pc[e] \notin {"prepare", "end"}
    /\ Go(e, "end")
    /\ told' = [told EXCEPT ![e] = "killed"]
    /\ UNCHANGED <<force, temp, backup, target, faults, uses>>

\* Another program writes or removes the file.
OtherUse ==
    /\ uses < MaxUses
    /\ uses' = uses + 1
    /\ target' = IF target = "none" THEN "user" ELSE "none"
    /\ UNCHANGED <<pc, force, temp, backup, told, faults>>

Step(e) ==
    \/ Prepare(e) \/ Write(e) \/ Link(e)
    \/ Look(e) \/ Save(e) \/ Move(e) \/ Restore(e) \/ Drop(e)

Next == OtherUse \/ \E e \in Exporters : Step(e) \/ Crash(e)

Spec == Init /\ [][Next]_vars

----------------------------------------------------------------------------
\* Without --force an export changes only a path that is free, however the
\* path came to be taken since it was checked.
KeepsOthers ==
    \A e \in Exporters : ~force[e] /\ Step(e) => target' = target \/ target = "none"

\* Two operations have failed, and e puts back a file that came to the path while
\* the first one was away over the first one, which is back itself.
Collides(e) ==
    /\ pc[e] = "restore" /\ faults >= 2
    /\ target = "old" /\ backup[e] \notin {"none", "old"}

\* The file that was there first is lost only to an export that published
\* its own: one that fails, at every operation it may be, or is killed leaves it
\* at the path or beside it.  The one exception takes two exports that both fail:
\* the later put-back replaces the earlier one (publishFile, os.Rename).
KeepsOld ==
    \A e \in Exporters :
       Step(e) \/ Crash(e) =>
         LET There == {target} \cup {backup[f] : f \in Exporters}
         IN "old" \in There /\ "old" \notin There' =>
              told'[e] = "published" \/ pc'[e] = "drop" \/ Collides(e)
=============================================================================
