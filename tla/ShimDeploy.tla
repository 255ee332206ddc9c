----------------------------- MODULE ShimDeploy -----------------------------
(***************************************************************************)
(* The redfish-shim role, which installs the shim on the bastion, and the  *)
(* start of the shim's process (main, Config, ensure_certificate and       *)
(* make_server in redfish_ec2.py), which systemd repeats for ever.  A run  *)
(* of the role may die after any task and is run again; handlers that it   *)
(* was notified of die with it.  The service may be up, or coming up, with *)
(* what an earlier run installed, while the role replaces its files.       *)
(***************************************************************************)
CONSTANTS
    Settings,       \* versions of the inventory and of this repository
    Complete,       \* versions with all that Config asks for
    Nothing,        \* a file that is not there
    SystemsOf,      \* what /healthz shows of a version: the systems served
    PasswordOf      \* the BMC password of a version

ASSUME SettingsAssumption == Nothing \notin Settings /\ Complete \subseteq Settings

VARIABLES
    run,            \* the task the role is at
    want,           \* the version the operator wants
    code, conf,     \* the versions of redfish_ec2.py and config.json installed
    key, cert,      \* who made key.pem and cert.pem
    owned,          \* the files the service account owns
    notified,       \* "restart redfish-ec2" is pending
    lost,           \* a pending restart died with its run, no start since (history)
    health,         \* the version whose /healthz the role registered
    proc,           \* where the service is
    ran             \* the code and the configuration it started with

deployVars == <<run, want, code, conf, key, cert, owned, notified, lost, health, proc, ran>>
files == <<code, conf, key, cert, owned>>
service == <<proc, ran>>
play == <<notified, lost, health>>

Tasks == {"idle", "code", "conf", "key", "cert", "own", "start", "flush",
          "wait", "confirm", "auth", "done", "failed"}
Makers == {"none", "role", "shim"}

DeployTypeOK ==
    /\ run \in Tasks
    /\ want \in Settings
    /\ code \in Settings \cup {Nothing} /\ conf \in Settings \cup {Nothing}
    /\ key \in Makers /\ cert \in Makers
    /\ owned \subseteq {"key", "cert"}
    /\ notified \in BOOLEAN /\ lost \in BOOLEAN
    /\ health \in Settings \cup {Nothing}
    /\ proc \in {"absent", "down", "exit", "certificate", "newkey", "bind", "up"}
    /\ ran \in [code : Settings \cup {Nothing}, conf : Settings \cup {Nothing}]

DeployInit ==
    /\ run = "idle" /\ want \in Settings
    /\ code = Nothing /\ conf = Nothing
    /\ key = "none" /\ cert = "none" /\ owned = {}
    /\ notified = FALSE /\ lost = FALSE /\ health = Nothing
    /\ proc = "absent" /\ ran = [code |-> Nothing, conf |-> Nothing]

-----------------------------------------------------------------------------
(* The role, task by task.                                                 *)

Advance(from, to) == run = from /\ run' = to

Running == run \notin {"idle", "done", "failed"}

MakeTnf ==
    /\ ~Running
    /\ run' = "code"
    /\ UNCHANGED <<want, files, play, service>>

CopyShim ==
    /\ Advance("code", "conf")
    /\ code' = want
    /\ notified' = (notified \/ code # want)
    /\ UNCHANGED <<want, conf, key, cert, owned, lost, health, service>>

\* Mutant: the task has no notify.
WriteConfigQuietly ==
    /\ Advance("conf", "key")
    /\ conf' = want
    /\ UNCHANGED <<want, code, key, cert, owned, play, service>>

WriteConfig ==
    /\ Advance("conf", "key")
    /\ conf' = want
    /\ notified' = (notified \/ conf # want)
    /\ UNCHANGED <<want, code, key, cert, owned, lost, health, service>>

\* openssl as root, unless a certificate is there (`creates`): the key first.
\* A file that root creates is root's; one that it overwrites keeps its owner.
GenerateKey ==
    /\ run = "key"
    /\ \/ cert # "none" /\ run' = "own" /\ UNCHANGED key
       \/ cert = "none" /\ run' = "cert" /\ key' = "role"
    /\ UNCHANGED <<want, code, conf, cert, owned, play, service>>

GenerateCert ==
    /\ Advance("cert", "own")
    /\ cert' = "role"
    /\ notified' = TRUE
    /\ UNCHANGED <<want, code, conf, key, owned, lost, health, service>>

\* Mutant: only the certificate is handed over.
OwnCertOnly ==
    /\ Advance("own", "start")
    /\ key # "none" /\ cert # "none"
    /\ owned' = owned \cup {"cert"}
    /\ UNCHANGED <<want, code, conf, key, cert, play, service>>

OwnCertificate ==
    /\ Advance("own", "start")
    /\ key # "none" /\ cert # "none"
    /\ owned' = {"key", "cert"}
    /\ UNCHANGED <<want, code, conf, key, cert, play, service>>

\* The unit, enabled and started: nothing for a service that is started.
StartShim ==
    /\ Advance("start", "flush")
    /\ proc' = IF proc = "absent" THEN "down" ELSE proc
    /\ UNCHANGED <<want, files, play, ran>>

Flush ==
    /\ Advance("flush", "wait")
    /\ proc' = IF notified THEN "down" ELSE proc
    /\ notified' = FALSE
    /\ UNCHANGED <<want, files, lost, health, ran>>

\* /healthz within twelve tries; what it says is registered.
WaitForShim ==
    /\ Advance("wait", "confirm")
    /\ proc = "up"
    /\ health' = ran.conf
    /\ UNCHANGED <<want, files, notified, lost, service>>

ConfirmSystems ==
    /\ Advance("confirm", "auth")
    /\ SystemsOf[health] = SystemsOf[want]
    /\ UNCHANGED <<want, files, play, service>>

\* Mutant: an answer is enough.
VerifyAnswers ==
    /\ Advance("auth", "done")
    /\ proc = "up"
    /\ UNCHANGED <<want, files, play, service>>

VerifyCredentials ==
    /\ Advance("auth", "done")
    /\ proc = "up"
    /\ PasswordOf[ran.conf] = PasswordOf[want]
    /\ UNCHANGED <<want, files, play, service>>

EndPlay(as) ==
    /\ run' = as
    /\ notified' = FALSE
    /\ lost' = (lost \/ notified)
    /\ UNCHANGED <<want, files, health, service>>

\* The host is lost, or the operator interrupts: the play ends, and the handlers
\* it was notified of never run.
Die == Running /\ EndPlay("idle")

\* What a task asks for is not so.
Fail ==
    /\ \/ run = "own" /\ (key = "none" \/ cert = "none")
       \/ run \in {"wait", "auth"} /\ proc # "up"
       \/ run = "confirm" /\ SystemsOf[health] # SystemsOf[want]
       \/ run = "auth" /\ proc = "up" /\ PasswordOf[ran.conf] # PasswordOf[want]
    /\ EndPlay("failed")

Task ==
    \/ CopyShim \/ WriteConfig \/ GenerateKey \/ GenerateCert \/ OwnCertificate
    \/ StartShim \/ Flush \/ WaitForShim \/ ConfirmSystems \/ VerifyCredentials
    \/ Fail

-----------------------------------------------------------------------------
(* The process.                                                            *)

\* Config.load takes a file with a region, a password and a way to find each
\* system; a missing or incomplete one is an error, and main exits with 1.
Loads(v) == v \in Complete

Load ==
    /\ proc \in {"down", "exit"}
    /\ proc' = IF Loads(conf) THEN "certificate" ELSE "exit"
    /\ ran' = [code |-> code, conf |-> conf]
    /\ lost' = FALSE
    /\ UNCHANGED <<run, want, files, notified, health>>

\* Mutant: one of the two files is enough to go on with.
EitherExists == key # "none" \/ cert # "none"

BothExist == key # "none" /\ cert # "none"

May(file, maker) == maker = "none" \/ file \in owned

\* ensure_certificate: openssl as the service account, key and certificate in
\* two writes; a file of root's cannot be written, and the process fails.
EnsureKey ==
    /\ proc = "certificate"
    /\ \/ BothExist /\ proc' = "bind" /\ UNCHANGED <<key, owned>>
       \/ /\ ~BothExist /\ May("key", key)
          /\ proc' = "newkey"
          /\ key' = "shim" /\ owned' = owned \cup {"key"}
       \/ ~BothExist /\ ~May("key", key) /\ proc' = "exit" /\ UNCHANGED <<key, owned>>
    /\ UNCHANGED <<run, want, code, conf, cert, play, ran>>

EnsureCert ==
    /\ proc = "newkey"
    /\ \/ /\ May("cert", cert)
          /\ proc' = "bind"
          /\ cert' = "shim" /\ owned' = owned \cup {"cert"}
       \/ ~May("cert", cert) /\ proc' = "exit" /\ UNCHANGED <<cert, owned>>
    /\ UNCHANGED <<run, want, code, conf, key, play, ran>>

\* load_cert_chain wants a key it can read and a certificate that fits it.
Fits == key = cert /\ key # "none" /\ "key" \in owned

Listen ==
    /\ proc = "bind"
    /\ proc' = IF Fits THEN "up" ELSE "exit"
    /\ UNCHANGED <<run, want, files, play, ran>>

\* The process, or the bastion, dies; systemd starts it anew (Restart=always).
ProcessDies ==
    /\ proc \in {"certificate", "newkey", "bind", "up"}
    /\ proc' = "down"
    /\ UNCHANGED <<run, want, files, play, ran>>

Process == Load \/ EnsureKey \/ EnsureCert \/ Listen

-----------------------------------------------------------------------------
(* The operator.                                                           *)

Change ==
    /\ ~Running
    /\ run' = "idle"
    /\ want' \in Settings \ {want}
    /\ UNCHANGED <<files, play, service>>

\* To have a new certificate, the operator removes the old pair.
RemovePair ==
    /\ BothExist
    /\ key' = "none" /\ cert' = "none" /\ owned' = {}
    /\ UNCHANGED <<run, want, code, conf, play, service>>

DeployNext == MakeTnf \/ Task \/ Die \/ Process \/ ProcessDies \/ Change \/ RemovePair

\* Systemd goes on starting the process and a play goes on with its tasks.
DeploySpec == DeployInit /\ [][DeployNext]_deployVars /\ WF_deployVars(Process) /\ WF_deployVars(Task)
-----------------------------------------------------------------------------
(* Properties.                                                             *)

Checking == run \in {"wait", "confirm", "auth", "done"}

\* "Flush handlers so the checks below test the current configuration"
\* (main.yml:107): from the flush on, whatever is running, starting or up, was
\* started from what this run installed, unless an earlier run died with the
\* restart it owed.
ChecksTestCurrent ==
    /\ Checking => code = want /\ conf = want
    /\ Checking /\ ~lost /\ proc \in {"certificate", "newkey", "bind", "up"} =>
          ran = [code |-> want, conf |-> want]

\* Whatever earlier runs left undone, a run that succeeds leaves a shim that
\* takes the BMC password of this run: "the worst possible moment to find out"
\* is ruled out (main.yml:132-134), across restarts of the process too.
DoneTakesThePassword ==
    run = "done" /\ proc = "up" => PasswordOf[ran.conf] = PasswordOf[want]

\* What runs is what was installed: for the checks, and for the fence agents after
\* the role (redfish-shim, tasks/main.yml).
RunsWhatWasInstalled == DeployTypeOK /\ ChecksTestCurrent /\ DoneTakesThePassword

\* From some time on nothing but the role and systemd acts, and what lies on the
\* disk is not one half from each maker.
Calm ==
    /\ <>[][~(ProcessDies \/ Die \/ Change \/ RemovePair)]_deployVars
    /\ <>[](key # "none" /\ cert # "none" => key = cert)

RootsFile(f, maker) == maker # "none" /\ f \notin owned

\* "This must come back on its own": with the role at rest, a shim that crashes,
\* even between its two writes of a new pair, comes up again, unless a dead run
\* left it a file of root's (redfish-ec2.service.j2:16-18; ensure_certificate).
ComesBack ==
    /\ Calm
    /\ <>[](conf \in Complete)
    /\ <>[](~Running /\ ~RootsFile("key", key) /\ ~RootsFile("cert", cert))
    => [](proc # "absent" => <>(proc = "up"))

\* An operator who runs the role again and again gets to its end, whatever died
\* in between, unless a dead run owed a restart that nobody made up for,
\* provided his settings are complete.
RoleSucceeds ==
    /\ Calm
    /\ []<>Running
    /\ <>[](want \in Complete)
    /\ <>[]~lost
    => []<>(run = "done")
=============================================================================
