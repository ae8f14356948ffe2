----------------------------- MODULE SuiteSetup -----------------------------
(***************************************************************************)
(* The setup of the end-to-end tool: it makes the Incus project, storage   *)
(* pool, network and profile the suite uses, and changes an existing one   *)
(* only if the suite owns it; before each guest, the tests validate the    *)
(* profile.                                                                *)
(*                                                                         *)
(* Each step is one incus command, which may fail, with or without having  *)
(* had its effect.  Setup is rerun after it ended or was killed, with the  *)
(* same or another configuration; the administrator acts between two runs. *)
(* The settings of a device, and the limits, are one value each.           *)
(***************************************************************************)
EXTENDS Naturals, FiniteSets

CONSTANTS
  None,       \* no device, no limits, no resource in hand
  Values,     \* what a setting may be
  MaxRuns,    \* bound: runs of setup
  MaxFaults   \* bound: failed commands, kills, changes by the administrator

Shared == {"project", "storage", "network"}
Devices == {"root", "eth0"}
Settings == Devices \cup {"limits"}

VARIABLES
  tag,        \* per resource: "absent", "foreign" (not tagged as the suite's) or "ours"
  profile,    \* per setting of the profile: its value, "other type", or None
  wanted,     \* the configuration of the run
  pc,         \* its step
  todo,       \* resources, then settings, it has still to see to
  runs, faults,
  created,    \* history: the profile was created by this run
  touched,    \* history: foreign resources a run has changed
  clean       \* history: nothing has failed, and nobody else acted, in this run

vars == <<tag, profile, wanted, pc, todo, runs, faults, created, touched, clean>>
incus == <<tag, profile, touched>>

Init ==
  /\ tag \in [Shared \cup {"profile"} -> {"absent", "foreign", "ours"}]
  /\ tag["project"] = "absent" => tag["profile"] = "absent"  \* a profile is in the project
  /\ profile \in [Settings -> {None}] \cup [Settings -> Values]
  /\ tag["profile"] = "absent" => profile = [s \in Settings |-> None]
  /\ wanted \in [Settings -> Values]
  /\ pc = "idle" /\ todo = {} /\ runs = 0 /\ faults = 0
  /\ created = FALSE /\ touched = {} /\ clean = TRUE

\* A command that changes something: it works, or fails and has had its effect or not.
Change(newTag, newProfile, next) ==
  LET effect == /\ tag' = newTag /\ profile' = newProfile
                /\ touched' = touched \cup
                     {r \in DOMAIN tag : /\ tag[r] = "foreign" /\ ~(r = "profile" /\ created)
                                         /\ \/ newTag[r] # tag[r]
                                            \/ r = "profile" /\ newProfile # profile}
  IN  \/ effect /\ next /\ UNCHANGED <<faults, clean>>
      \/ /\ faults < MaxFaults /\ faults' = faults + 1 /\ clean' = FALSE
         /\ effect \/ UNCHANGED incus
         /\ pc' = "failed" /\ UNCHANGED todo

\* A query that must be answered.
Query(next) ==
  /\ \/ next /\ UNCHANGED <<faults, clean>>
     \/ /\ faults < MaxFaults /\ faults' = faults + 1 /\ clean' = FALSE
        /\ pc' = "failed" /\ UNCHANGED todo
  /\ UNCHANGED incus

\* Whether something exists: a query that fails looks like what is absent.
Exists(exists, yes, no) ==
  /\ \/ (IF exists THEN yes ELSE no) /\ UNCHANGED <<faults, clean>>
     \/ exists /\ no /\ faults < MaxFaults /\ faults' = faults + 1 /\ clean' = FALSE
  /\ UNCHANGED incus

At(step) == pc' = step /\ UNCHANGED todo

StartSetup ==
  /\ pc \in {"idle", "failed", "done"} /\ runs < MaxRuns
  /\ runs' = runs + 1
  /\ wanted' \in {wanted} \cup [Settings -> Values]
  /\ pc' = "show" /\ todo' = Shared
  /\ created' = FALSE /\ clean' = TRUE
  /\ UNCHANGED <<incus, faults>>

\* The resources are seen to in their order.
Current == CASE "project" \in todo -> "project" [] "storage" \in todo -> "storage" [] OTHER -> "network"
NextResource ==
  /\ todo' = todo \ {Current}
  /\ pc' = IF todo = {Current} THEN "profile" ELSE "show"

Show ==
  /\ pc = "show"
  /\ Exists(tag[Current] # "absent", At("owner"), At("create"))
  /\ UNCHANGED <<wanted, runs, created>>

\* A bug: what exists is taken for the suite's.
OwnedIfPresent(resource) == tag[resource] # "absent"

Owned(resource) == tag[resource] = "ours"

Owner ==
  /\ pc = "owner"
  /\ Query(IF Owned(Current) THEN NextResource ELSE At("failed"))
  /\ UNCHANGED <<wanted, runs, created>>

\* Creating what exists is an error, and changes nothing.
Create ==
  /\ pc = "create"
  /\ IF tag[Current] = "absent"
     THEN Change([tag EXCEPT ![Current] = "ours"], profile, NextResource)
     ELSE At("failed") /\ UNCHANGED <<incus, faults, clean>>
  /\ UNCHANGED <<wanted, runs, created>>

ShowProfile ==
  /\ pc = "profile"
  /\ Exists(tag["profile"] # "absent", At("profile owner"), At("create profile"))
  /\ UNCHANGED <<wanted, runs, created>>

ToDevices == pc' = "device" /\ todo' = Devices

ProfileOwner ==
  /\ pc = "profile owner"
  /\ Query(IF Owned("profile") THEN ToDevices ELSE At("failed"))
  /\ UNCHANGED <<wanted, runs, created>>

\* The profile is created, then tagged: two commands.
CreateProfile ==
  /\ pc = "create profile"
  /\ IF tag["profile"] = "absent"
     THEN /\ Change([tag EXCEPT !["profile"] = "foreign"], profile, At("tag"))
          /\ created' = (tag' # tag)
     ELSE At("failed") /\ UNCHANGED <<incus, faults, clean, created>>
  /\ UNCHANGED <<wanted, runs>>

TagProfile ==
  /\ pc = "tag"
  /\ Change([tag EXCEPT !["profile"] = "ours"], profile, ToDevices)
  /\ UNCHANGED <<wanted, runs, created>>

Device == IF "root" \in todo THEN "root" ELSE "eth0"
NextDevice ==
  IF todo = {Device} THEN pc' = "limits" /\ todo' = {} ELSE pc' = "device" /\ todo' = todo \ {Device}

DeviceType ==
  /\ pc = "device"
  /\ Exists(profile[Device] # None,
            IF profile[Device] = "other type" THEN At("failed") ELSE At("compare"), At("add"))
  /\ UNCHANGED <<wanted, runs, created>>

\* Only settings that differ are set, all of a device's at once.
CompareDevice ==
  /\ pc = "compare"
  /\ Query(IF profile[Device] = wanted[Device] THEN NextDevice ELSE At("set"))
  /\ UNCHANGED <<wanted, runs, created>>

SetDevice ==
  /\ pc = "set"
  /\ Change(tag, [profile EXCEPT ![Device] = wanted[Device]], NextDevice)
  /\ UNCHANGED <<wanted, runs, created>>

AddDevice ==
  /\ pc = "add"
  /\ IF profile[Device] = None
     THEN Change(tag, [profile EXCEPT ![Device] = wanted[Device]], NextDevice)
     ELSE At("failed") /\ UNCHANGED <<incus, faults, clean>>
  /\ UNCHANGED <<wanted, runs, created>>

CompareLimits ==
  /\ pc = "limits"
  /\ Query(At(IF profile["limits"] = wanted["limits"] THEN "done" ELSE "set limits"))
  /\ UNCHANGED <<wanted, runs, created>>

SetLimits ==
  /\ pc = "set limits"
  /\ Change(tag, [profile EXCEPT !["limits"] = wanted["limits"]], At("done"))
  /\ UNCHANGED <<wanted, runs, created>>

\* What the tests ask of the profile before each guest.
ValidProfile == tag["profile"] = "ours" /\ \A s \in Settings : profile[s] = wanted[s]

Kill ==
  /\ pc \notin {"idle", "failed", "done"} /\ faults < MaxFaults
  /\ faults' = faults + 1 /\ clean' = FALSE
  /\ At("failed")
  /\ UNCHANGED <<incus, wanted, runs, created>>

\* Between two runs the administrator makes or removes something of that name, or gives a
\* device another type.
Administer ==
  /\ pc \in {"idle", "failed"} /\ faults < MaxFaults
  /\ faults' = faults + 1 /\ clean' = FALSE
  /\ \/ \E r \in Shared \ {"project"} :
          tag' = [tag EXCEPT ![r] = IF @ = "absent" THEN "foreign" ELSE "absent"] /\ UNCHANGED profile
     \/ /\ tag["profile"] # "absent"
        /\ tag' = [tag EXCEPT !["profile"] = "absent"] /\ profile' = [s \in Settings |-> None]
     \/ /\ tag["profile"] # "absent" /\ UNCHANGED tag
        /\ \E d \in Devices : profile' = [profile EXCEPT ![d] = "other type"]
  /\ UNCHANGED <<wanted, pc, todo, runs, created, touched>>

Rest == UNCHANGED vars

Next ==
  \/ StartSetup \/ Show \/ Owner \/ Create \/ ShowProfile \/ ProfileOwner \/ CreateProfile \/ TagProfile
  \/ DeviceType \/ CompareDevice \/ SetDevice \/ AddDevice \/ CompareLimits \/ SetLimits
  \/ Kill \/ Administer \/ Rest

Spec == Init /\ [][Next]_vars

-----------------------------------------------------------------------------
(* Properties.                                                             *)

\* However often setup fails, is killed or is run again with another configuration, it
\* changes nothing the suite does not own, except the profile it is about to tag; when it
\* succeeds, the tests accept the profile; and when nothing failed in it, something of its
\* name that is not the suite's (a profile whose tagging failed among them), or a device of
\* another type, is the reason it did not.
SetupIsOwned ==
  /\ touched = {}
  /\ pc = "done" => ValidProfile /\ \A r \in Shared : tag[r] = "ours"
  /\ pc = "failed" /\ clean =>
       \/ \E r \in DOMAIN tag : tag[r] = "foreign"
       \/ \E d \in Devices : profile[d] = "other type"
=============================================================================
