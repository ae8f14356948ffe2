-------------------------------- MODULE Setup -------------------------------
(***************************************************************************)
(* kidobo init and kidobo setup: provisioning of the files a host needs,   *)
(* the doctor's checks, the first sync and the timer (init.rs and          *)
(* doctor.rs of kidobo-app and kidobo-adapters, src/cli/setup.rs and       *)
(* init/mod.rs, the exclusive publication of limited_io.rs).               *)
(*                                                                         *)
(* Provisioning takes no lock.  Two assistants, commands that save a ban   *)
(* or a configuration, and an operator's editor may create a file between  *)
(* the look at it and its creation.  A text is the template, something     *)
(* saved by a command or by hand, or something that does not parse.        *)
(***************************************************************************)
EXTENDS Naturals, Sequences, FiniteSets, SequencesExt

CONSTANTS
  Procs,      \* processes that run init or setup
  None,       \* no file, no command
  Hosts,      \* the hosts: [override, executable, tools, sudo, cache, ipv6]
  MaxRuns,    \* bound: commands started
  MaxFaults,  \* bound: failing I/O, failing systemctl
  MaxEdits    \* bound: files written by other commands or by hand

\* Provisioned in this order; the cache is a directory.
Artifacts == <<"cache", "config", "blocklist", "lock", "temporary", "service", "timer">>
OwnerOnly == {"cache", "config"}
Units == {"service", "timer"}

Texts == {"template", "saved", "hand", "broken"}

VARIABLES
  host,     \* [files, loaded, enabled] and the constants of the host
  pc,       \* per process: its step, and an index where it repeats
  cmd,      \* per process: its command
  staged,   \* per process: the artifact its temporary file is for, or None
  result,   \* per process: how its last command ended
  runs,     \* commands started so far
  faults,   \* faults so far
  edits     \* files written by others so far

vars == <<host, pc, cmd, staged, result, runs, faults, edits>>

SetupCommands ==
  {[kind |-> "init", timer |-> TRUE]} \cup [kind : {"setup"}, timer : BOOLEAN]

Init ==
  /\ \E h \in Hosts, config \in {None, [text |-> "hand", private |-> FALSE]} :
       host = [files |-> [a \in ToSet(Artifacts) |-> IF a = "config" THEN config ELSE None],
               loaded |-> {}, enabled |-> FALSE, override |-> h.override,
               executable |-> h.executable, tools |-> h.tools, sudo |-> h.sudo, cache |-> h.cache,
               ipv6 |-> h.ipv6]
  /\ pc = [p \in Procs |-> <<"idle", 0>>]
  /\ cmd = [p \in Procs |-> None]
  /\ staged = [p \in Procs |-> None]
  /\ result = [p \in Procs |-> "none"]
  /\ runs = 0 /\ faults = 0 /\ edits = 0

-----------------------------------------------------------------------------
Go(p, next) == pc' = [pc EXCEPT ![p] = next]

Keep(p, next) == Go(p, next) /\ UNCHANGED <<cmd, staged, result>>

\* The process ends; a temporary file it still has stays behind.
End(p, how) ==
  /\ Go(p, <<"idle", 0>>)
  /\ cmd' = [cmd EXCEPT ![p] = None]
  /\ staged' = [staged EXCEPT ![p] = None]
  /\ result' = [result EXCEPT ![p] = how]

Fault == faults < MaxFaults /\ faults' = faults + 1

Others == UNCHANGED <<runs, edits>>

\* The questions of the assistant and the review are those of module
\* Configuration: they end at a file that does not parse.  The index keeps
\* whether they found one; the answer about the timer is in the command.
Start(p, c) ==
  /\ pc[p] = <<"idle", 0>>
  /\ runs < MaxRuns /\ runs' = runs + 1
  /\ cmd' = [cmd EXCEPT ![p] = c]
  /\ result' = [result EXCEPT ![p] = "none"]
  /\ LET f == host.files["config"]
     IN /\ c.kind = "setup" /\ f # None => f.text # "broken"
        /\ Go(p, <<"executable", IF c.kind = "init" \/ f = None THEN 0 ELSE 1>>)
  /\ UNCHANGED <<host, staged, faults, edits>>

\* resolve_installed_executable, before anything is saved or provisioned.  The
\* second call, at the start of provision, finds the same executable.
ResolveExecutable(p) ==
  /\ pc[p][1] = "executable"
  /\ IF ~ host.executable THEN End(p, "failed")
     ELSE Keep(p, IF cmd[p].kind = "setup" THEN <<"apply", pc[p][2]>> ELSE <<"provision", 1>>)
  /\ UNCHANGED <<host, faults>> /\ Others

WithFile(h, a, f) == [h EXCEPT !.files[a] = f]

Saved == [text |-> "saved", private |-> TRUE]

\* configuration::apply: a candidate that is the reviewed file is not saved and
\* nothing is looked at; any other is saved over the file it was made from, which
\* may have changed since.
Apply(p) ==
  /\ pc[p][1] = "apply"
  /\ LET f == host.files["config"]
         existed == pc[p][2] = 1
     IN
     \/ existed /\ UNCHANGED host /\ Keep(p, <<"provision", 1>>)
     \/ /\ existed = (f # None) /\ (existed => f.text # "broken")
        /\ host' = WithFile(host, "config", Saved)
        /\ Keep(p, <<"provision", 1>>)
     \/ UNCHANGED host /\ End(p, "failed")
  /\ UNCHANGED faults /\ Others

-----------------------------------------------------------------------------
(***************************************************************************)
(* execute_with_timer: one artifact after the other.                       *)
(***************************************************************************)

At(p, step) == pc[p][1] = step

Artifact(p) == Artifacts[pc[p][2]]

AfterProvision(p) ==
  IF cmd[p].kind = "setup" THEN <<"doctor", 0>>
  ELSE IF host.override THEN <<"finish", 0>> ELSE <<"systemctl", 1>>

NextArtifact(p) ==
  IF pc[p][2] = Len(Artifacts) THEN AfterProvision(p) ELSE <<"provision", pc[p][2] + 1>>

\* existing_file_state: the contents stay, the mode becomes owner-only.
Secured(h, a) ==
  IF a \in OwnerOnly /\ h.files[a] # None THEN [h EXCEPT !.files[a].private = TRUE] ELSE h

Broken(p) == UNCHANGED host /\ Fault /\ End(p, "failed")

\* ensure_dir with ensure_private_dir: it creates the directory or finds it.
EnsureDir(p) ==
  /\ At(p, "provision") /\ Artifact(p) = "cache"
  /\ \/ /\ host' = WithFile(host, "cache", [text |-> "template", private |-> TRUE])
        /\ Keep(p, NextArtifact(p)) /\ UNCHANGED faults
     \/ Broken(p)
  /\ Others

\* ensure_file: the look at the path.
LookForFile(p) ==
  /\ At(p, "provision") /\ Artifact(p) # "cache"
  /\ \/ /\ host.files[Artifact(p)] # None
        /\ host' = Secured(host, Artifact(p))
        /\ Keep(p, NextArtifact(p)) /\ UNCHANGED faults
     \/ /\ host.files[Artifact(p)] = None
        /\ Keep(p, <<"stage", pc[p][2]>>) /\ UNCHANGED <<host, faults>>
     \/ Broken(p)
  /\ Others

\* write_bytes_atomic_mode: a temporary file with a name of its own, owner-only
\* from the start for a private artifact.
StageFile(p) ==
  /\ At(p, "stage")
  /\ \/ /\ staged' = [staged EXCEPT ![p] = Artifact(p)]
        /\ Go(p, <<"publish", pc[p][2]>>) /\ UNCHANGED <<host, cmd, result, faults>>
     \/ Broken(p)
  /\ Others

Template(a) == [text |-> "template", private |-> a \in OwnerOnly]

\* Mutant: the temporary file is renamed over whatever is there by now.
PublishedOver(h, a) == WithFile(h, a, Template(a))

\* PublicationMode::CreateNew: hard_link fails when the name exists, and then
\* the file that is there is kept like any other.
Published(h, a) ==
  IF h.files[a] = None THEN WithFile(h, a, Template(a)) ELSE Secured(h, a)

\* The directory may not be synced although the name is published.
PublishFile(p) ==
  /\ At(p, "publish")
  /\ \/ /\ host' = Published(host, Artifact(p))
        /\ staged' = [staged EXCEPT ![p] = None]
        /\ Go(p, NextArtifact(p)) /\ UNCHANGED <<cmd, result, faults>>
     \/ /\ host' \in {host, Published(host, Artifact(p))}
        /\ Fault /\ End(p, "failed")
  /\ Others

-----------------------------------------------------------------------------
(***************************************************************************)
(* The doctor, the first sync and the timer.                               *)
(***************************************************************************)

Tools == {"sudo", "bgpq4", "ipset", "iptables", "ip6tables"}

Probed == [probe_ipset |-> "ipset", probe_iptables |-> "iptables", probe_ip6tables |-> "ip6tables"]

HasConfig(h) == h.files["config"] # None

Parsed(h) == HasConfig(h) /\ h.files["config"].text # "broken"

\* Without a configuration, or with IPv6 disabled, ip6tables is not needed.
Skipped(h, b) == b = "ip6tables" /\ ~ (Parsed(h) /\ h.ipv6)

BinaryCheck(h, b) ==
  IF Skipped(h, b) THEN "SKIP" ELSE IF b \in h.tools THEN "OK" ELSE "FAIL"

\* Paths are not resolved without a configuration; temporary bans may be absent; a
\* cache that looks writable is not written to.
PathChecks(h) ==
  LET exists(a) == IF HasConfig(h) /\ h.files[a] # None THEN "OK" ELSE "FAIL"
      readable(a) == h.files[a] = None \/ h.files[a].text # "broken"
  IN  [config |-> exists("config"), blocklist |-> exists("blocklist"),
       temporary |-> IF HasConfig(h) /\ readable("temporary") THEN "OK" ELSE "FAIL",
       cache |-> IF HasConfig(h) /\ h.cache THEN "SKIP" ELSE "FAIL"]

SudoCheck(h, b) ==
  IF Skipped(h, b) \/ ~ {"sudo", b} \subseteq h.tools THEN "SKIP"
  ELSE IF h.sudo THEN "OK" ELSE "FAIL"

\* doctor::execute: one status per check.
DoctorChecks(h) ==
  [config_parse |-> IF Parsed(h) THEN "OK" ELSE "FAIL"]
  @@ PathChecks(h)
  @@ [b \in Tools |-> BinaryCheck(h, b)]
  @@ [b \in {"probe_ipset", "probe_iptables", "probe_ip6tables"} |-> SudoCheck(h, Probed[b])]

\* DoctorReport::from_checks
DoctorOk(h) == \A check \in DOMAIN DoctorChecks(h) : DoctorChecks(h)[check] # "FAIL"

\* after_save: a failing stage is a SetupAfterSave error and ends the setup.  The
\* operator may decline the first sync.
RunDoctor(p) ==
  /\ At(p, "doctor")
  /\ IF ~ DoctorOk(host) THEN End(p, "saved")
     ELSE \E answer \in {"sync", "timer"} : Keep(p, <<answer, 0>>)
  /\ UNCHANGED <<host, faults>> /\ Others

\* run_sync_command, module Sync; of the files here it touches none.
RunSync(p) ==
  /\ At(p, "sync")
  /\ \/ host.files["config"].text # "broken" /\ Keep(p, <<"timer", 0>>)
     \/ End(p, "saved")
  /\ UNCHANGED <<host, faults>> /\ Others

AskTimer(p) ==
  /\ At(p, "timer")
  /\ Keep(p, IF cmd[p].timer /\ ~ host.override THEN <<"systemctl", 1>> ELSE <<"finish", 0>>)
  /\ UNCHANGED <<host, faults>> /\ Others

\* daemon-reload, reset-failed (whose refusal for a unit that is not loaded is
\* accepted), enable --now, which refuses units that are not loaded.
Systemctl(h, n) ==
  IF n = 1 THEN [h EXCEPT !.loaded = {u \in Units : h.files[u] # None}]
  ELSE IF n = 3 THEN [h EXCEPT !.enabled = TRUE] ELSE h

EnableTimer(p) ==
  /\ At(p, "systemctl")
  /\ LET n == pc[p][2]
         accepted == n = 3 => Units \subseteq host.loaded
     IN \/ /\ accepted /\ host' = Systemctl(host, n)
           /\ Keep(p, IF n = 3 THEN <<"finish", 0>> ELSE <<"systemctl", n + 1>>)
           /\ UNCHANGED faults
        \/ ~ accepted /\ UNCHANGED <<host, faults>> /\ End(p, "failed")
        \/ host' \in {host, IF accepted THEN Systemctl(host, n) ELSE host}
           /\ Fault /\ End(p, "failed")
  /\ Others

Finish(p) ==
  /\ At(p, "finish")
  /\ End(p, "ok")
  /\ UNCHANGED <<host, faults>> /\ Others

\* A kill, or a cancellation between two artifacts.
Stop(p) ==
  /\ ~ At(p, "idle")
  /\ End(p, "failed")
  /\ UNCHANGED <<host, faults>> /\ Others

-----------------------------------------------------------------------------
\* Another command saves a configuration, a ban or the lock file; an operator
\* writes any file, and what is new then has the default mode.
WriteFile(a, text) ==
  /\ edits < MaxEdits /\ edits' = edits + 1
  /\ \/ text = "saved" /\ a \in {"config", "blocklist", "lock", "temporary"}
     \/ text \in {"hand", "broken"} /\ a \notin {"cache", "lock"}
  /\ host' = WithFile(host, a,
               [text |-> text,
                private |-> a = "config" /\ (text = "saved" \/ (host.files[a] # None /\ host.files[a].private))])
  /\ UNCHANGED <<pc, cmd, staged, result, runs, faults>>

Step(p) ==
  \/ ResolveExecutable(p) \/ Apply(p) \/ EnsureDir(p) \/ LookForFile(p) \/ StageFile(p)
  \/ PublishFile(p) \/ RunDoctor(p) \/ RunSync(p) \/ AskTimer(p) \/ EnableTimer(p)
  \/ Finish(p) \/ Stop(p)

Rest ==
  /\ \A p \in Procs : At(p, "idle")
  /\ runs = MaxRuns
  /\ UNCHANGED vars

Next ==
  \/ \E p \in Procs : Step(p) \/ \E c \in SetupCommands : Start(p, c)
  \/ \E a \in ToSet(Artifacts), t \in Texts : WriteFile(a, t)
  \/ Rest

Spec == Init /\ [][Next]_vars

-----------------------------------------------------------------------------
Needed == IF host.ipv6 THEN Tools ELSE Tools \ {"ip6tables"}

Provisions(p) == pc[p][1] \in {"provision", "stage", "publish"} /\ pc'[p] # pc[p]

(***************************************************************************)
(* Provisioning without a lock is safe.  It never changes the contents of  *)
(* a file that exists, not even of one that another process or an editor   *)
(* created after it looked.  A command that reports success leaves every   *)
(* artifact in place, the configuration and the cache owner-only whoever   *)
(* wrote them, and the timer enabled if it was asked for; the timer is     *)
(* never enabled for an alternate root, nor before both units are there,   *)
(* nor by a setup whose doctor found the configuration, a tool or a cache  *)
(* that can be written missing.                                            *)
(***************************************************************************)
InstallIsSafe ==
  [][\A p \in Procs :
       /\ Provisions(p) =>
            \A a \in DOMAIN host.files :
              host.files[a] # None =>
                host'.files[a] # None /\ host'.files[a].text = host.files[a].text
       /\ pc'[p] # pc[p] /\ result'[p] = "ok" =>
            /\ \A a \in DOMAIN host'.files : host'.files[a] # None
            /\ \A a \in OwnerOnly : host'.files[a].private
            /\ cmd[p].timer /\ ~ host.override => host'.enabled
       /\ pc'[p] # pc[p] /\ host'.enabled /\ ~ host.enabled =>
            /\ ~ host.override /\ \A u \in Units : host.files[u] # None
            /\ cmd[p].kind = "setup" => Needed \subseteq host.tools /\ host.sudo /\ host.cache]_vars
=============================================================================
