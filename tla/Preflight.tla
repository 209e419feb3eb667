------------------------------- MODULE Preflight -------------------------------
(***************************************************************************)
(* `rails doctor' (rails/doctor.py) and the `rails triage' it is to spare  *)
(* a failure, in one shell: both load the .env file first (rails/config.py)*)
(* and each is a process with an environment of its own.                   *)
(***************************************************************************)
EXTENDS Naturals, Sequences

CONSTANTS
  REQUIRED_ENV_KEYS,
  TriageKeys,           \* those rails/events.py asks for
  EnvFiles,             \* bound: the .env files tried
  NoFile

ASSUME KeysAssumption == TriageKeys \subseteq REQUIRED_ENV_KEYS
ASSUME EnvFilesAssumption ==
  EnvFiles \subseteq Seq([key : REQUIRED_ENV_KEYS, value : {"empty", "value"}])

VARIABLES
  shell,                \* what the shell exports
  env_file,             \* the KEY=VALUE lines of .env, in order
  machine,              \* the local Postgres, the engines on PATH, gh's login
  report,               \* of the doctor
  stopped               \* what stopped the triage run: "nothing" if nothing did

preflightVars == <<shell, env_file, machine, report, stopped>>

ENGINES == {"claude", "codex", "gemini"}
CRITICAL_ENGINES == {"claude", "codex"}
Values == {"absent", "empty", "value"}

PreflightInit ==
  /\ shell \in [REQUIRED_ENV_KEYS -> Values] /\ env_file \in EnvFiles \cup {NoFile}
  /\ machine \in [postgres : {"down", "empty", "migrated"}, engines : SUBSET ENGINES,
                  gh : BOOLEAN]
  /\ report = "none" /\ stopped = "none"

Definitions(key) ==
  IF env_file = NoFile THEN {} ELSE {i \in DOMAIN env_file : env_file[i].key = key}

First(key) == CHOOSE i \in Definitions(key) : \A j \in Definitions(key) : i <= j
Final(key) == CHOOSE i \in Definitions(key) : \A j \in Definitions(key) : j <= i

\* Mutant: an exported key that is empty counts as not exported.
environ_EmptyIsAbsent ==
  [key \in REQUIRED_ENV_KEYS |->
     IF shell[key] = "value" \/ Definitions(key) = {} THEN shell[key]
                                                      ELSE env_file[First(key)].value]

\* os.environ after RailsConfig.load: the first definition of a key wins, and it fills
\* in only a key that is not exported at all.
environ ==
  [key \in REQUIRED_ENV_KEYS |->
     IF shell[key] # "absent" \/ Definitions(key) = {} THEN shell[key]
                                                       ELSE env_file[First(key)].value]

\* _parse_env_text: the last definition wins.
from_file ==
  [key \in REQUIRED_ENV_KEYS |->
     IF Definitions(key) = {} THEN "absent" ELSE env_file[Final(key)].value]

\* Mutant: a key that is defined counts, whatever its value.
CheckEnvKeys_Defined == \A key \in REQUIRED_ENV_KEYS : {environ[key], from_file[key]} # {"absent"}

CheckEnvKeys == \A key \in REQUIRED_ENV_KEYS : "value" \in {environ[key], from_file[key]}

CheckMigrations == environ["DATABASE_URL"] = "value" /\ machine.postgres = "migrated"
CheckPostgres == environ["DATABASE_URL"] = "value" /\ machine.postgres # "down"

\* DoctorReport.ok: every critical check; gemini is none.
ReportOk ==
  /\ env_file # NoFile /\ CheckEnvKeys /\ CheckPostgres /\ CheckMigrations
  /\ CRITICAL_ENGINES \subseteq machine.engines /\ machine.gh

RunDoctor ==
  /\ report = "none" /\ report' = IF ReportOk THEN "PASS" ELSE "FAIL"
  /\ UNCHANGED <<shell, env_file, machine, stopped>>

\* A triage run with the default engines, on its way: _env, the sessions, the gate's
\* pytest on DATABASE_URL or its default, gh.
StopsAt ==
  IF \E key \in TriageKeys : environ[key] # "value" THEN "fetch"
  ELSE IF ~(CRITICAL_ENGINES \subseteq machine.engines) THEN "session"
  ELSE IF environ["DATABASE_URL"] = "empty" \/ machine.postgres # "migrated" THEN "gate"
  ELSE IF ~machine.gh THEN "pr"
  ELSE "nothing"

RunTriage ==
  /\ stopped = "none" /\ stopped' = StopsAt
  /\ UNCHANGED <<shell, env_file, machine, report>>

PreflightStep == RunDoctor \/ RunTriage

PreflightOK ==
  /\ shell \in [REQUIRED_ENV_KEYS -> Values] /\ env_file \in EnvFiles \cup {NoFile}
  /\ report \in {"none", "PASS", "FAIL"}
  /\ stopped \in {"none", "nothing", "fetch", "session", "gate", "pr"}

\* .env ends with a value for the key, and the loader passes over it: the key is exported
\* empty, or its first definition is empty.
PassedOver(key) ==
  /\ from_file[key] = "value"
  /\ \/ shell[key] = "empty"
     \/ shell[key] = "absent" /\ env_file[First(key)].value # "value"

\* After a PASS, a triage run in the same shell ends as the .env file says, and in no other
\* way: it is stopped, and before anything was spent, exactly when the loader passes over
\* the value that the doctor found for a key of triage (doctor.py:131-134 says that the two
\* look keys up in the same way); otherwise nothing that the doctor looked at stops it.
DoctorIsHonest ==
  report = "PASS" /\ stopped # "none" =>
    stopped = IF \E key \in TriageKeys : PassedOver(key) THEN "fetch" ELSE "nothing"

=============================================================================
