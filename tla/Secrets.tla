------------------------------- MODULE Secrets -------------------------------
(***************************************************************************)
(* The secrets the control plane keeps: pipeline specs and their versions  *)
(* (one envelope per row), the connection catalog and the settings (one    *)
(* envelope per secret field), and the forms that show them masked.        *)
(*                                                                         *)
(* A cell is a stored value: absent, plain text, an envelope `enc:v1:<key>`*)
(* or a legacy envelope without a key id.  A text is a secret, the empty   *)
(* string, the mask of the connection and spec forms, or the mask of the   *)
(* settings form, which keeps four characters of the secret it hides.  A   *)
(* configuration has one secret field: the recursion of the code into      *)
(* nested maps applies the same rule to each of them.                      *)
(***************************************************************************)
EXTENDS Integers, Sequences

CONSTANTS
    Names,      \* connection names
    Texts,      \* secrets a user may type
    Forms,      \* spec forms a user may submit: sequences of [id, secret] steps
    Clients,    \* concurrent save requests
    Vaults      \* scenarios: [conns, setting, body, dag, rings, jobs, serial, work, faults, crashes]

VARIABLES
    vconf,      \* the scenario
    ring,       \* the deployed keys, [current, prev]; current 0: none
    up,         \* the control plane serves requests
    conns,      \* connections: [Names -> [here, cell]]
    setting,    \* the secret setting
    spec,       \* the current pipeline row: a cell whose text is a sequence of steps
    history,    \* its versions, oldest first
    shown,      \* what the settings form last showed
    client,     \* requests between their read and their save
    job,        \* the maintenance pass that is running
    clean,      \* passes that completed under the current key
    stale,      \* history: a settings form came back whose secret was another one by then
    vwork, vfaults, vcrashes

vaultVars == <<vconf, ring, up, conns, setting, spec, history, shown, client, job, clean, stale, vwork, vfaults, vcrashes>>

Empty == 0
Mask == -1
Fail == -2
\* The four-character mask of a secret; the mask of a stored mask is itself.
SettingsMask(t) == IF t < -10 THEN t ELSE -10 - t
None == [form |-> "none", key |-> 0, text |-> Empty]
Plain(t) == [form |-> "plain", key |-> 0, text |-> t]

\* NewSpecCipher: previous keys need a current one.
NewSpecCipher(r) == r.current = 0 => r.prev = {}
Enabled(r) == r.current # 0
KeysOf(r) == IF Enabled(r) THEN {r.current} \cup r.prev ELSE {}

\* The envelope of a non-empty value; without a key it is written as it is.
encryptSpecPayload(r, t) ==
    IF Enabled(r) THEN [form |-> "env", key |-> r.current, text |-> t] ELSE Plain(t)

Encrypt(r, t) == IF t = Empty THEN Plain(t) ELSE encryptSpecPayload(r, t)

\* A legacy envelope names no key: every configured key is tried.
decryptLegacy(r, c) == IF \E k \in KeysOf(r) : k = c.key THEN c.text ELSE Fail

Decrypt(r, c) ==
    CASE c.form \in {"none", "plain"} -> c.text
      [] c.form = "env"               -> IF c.key \in KeysOf(r) THEN c.text ELSE Fail
      [] c.form = "legacy"            -> decryptLegacy(r, c)
      [] c.form = "damaged"           -> Fail

\* Whether Decrypt succeeds.
Opens(r, c) == c.form \in {"none", "plain"} \/ (c.form # "damaged" /\ c.key \in KeysOf(r))

-----------------------------------------------------------------------------
(* Masks and what a resubmitted form means. *)

isSecretPlaceholder(v) == v \in {Empty, Mask}
looksLikeMaskedSecret(v, old) == old # Empty /\ v = Mask
isSettingsMaskedSecret(v, old) ==
    /\ old # Empty
    /\ v # Empty
    /\ isSecretPlaceholder(v) \/ looksLikeMaskedSecret(v, old) \/ v = SettingsMask(old)

maskSecretMap(t) == IF t = Empty THEN t ELSE Mask
maskConfigSecrets(t) == IF t = Empty THEN t ELSE Mask
maskSettingsMap(t) == IF t = Empty THEN t ELSE SettingsMask(t)

\* Empty stands for "the field is left out".
scrubSecretPlaceholders(v) == IF isSecretPlaceholder(v) THEN Empty ELSE v
preserveSecretConfig(v, old) ==
    IF isSecretPlaceholder(v) \/ looksLikeMaskedSecret(v, old) THEN old ELSE v

\* Transforms are matched by position, DAG nodes by id.
preserveLinearSpecSecrets(in, old) ==
    [i \in DOMAIN in |->
        [in[i] EXCEPT !.secret = IF i <= Len(old)
                                   THEN preserveSecretConfig(@, old[i].secret)
                                   ELSE scrubSecretPlaceholders(@)]]

NodeOf(body, id) == {i \in DOMAIN body : body[i].id = id}
preserveByPosition(in, old) == preserveLinearSpecSecrets(in, old)
preserveDAGSpecSecrets(in, old) ==
    [i \in DOMAIN in |->
        [in[i] EXCEPT !.secret = LET at == NodeOf(old, in[i].id)
                                 IN  IF at # {}
                                       THEN preserveSecretConfig(@, old[CHOOSE j \in at : TRUE].secret)
                                       ELSE scrubSecretPlaceholders(@)]]

preserveSpec(in, old) ==
    IF vconf.dag THEN preserveDAGSpecSecrets(in, old) ELSE preserveLinearSpecSecrets(in, old)

maskSpecSecrets(body) ==
    [i \in DOMAIN body |-> [body[i] EXCEPT !.secret = maskConfigSecrets(@)]]

-----------------------------------------------------------------------------
(* The stores. *)

\* An envelope that is written again is opened first and sealed with the current key.
encryptConfigValue(r, t) == Encrypt(r, t)
EncryptSettingValue(r, t) == Encrypt(r, t)
DecryptSettingValue(r, c) == Decrypt(r, c)
decryptConfigValue(r, c) == Decrypt(r, c)

decryptConnection(n) == decryptConfigValue(ring, conns[n].cell)
GetConnection(n) == IF conns[n].here THEN decryptConnection(n) ELSE Empty
Listed == {n \in Names : conns[n].here}
ListConnectionsFails == \E n \in Listed : decryptConnection(n) = Fail

\* An absent field is stored as no cell.
Sealed(t) == IF t = Empty THEN None ELSE encryptConfigValue(ring, t)
SaveConnection(n, t) == conns' = [conns EXCEPT ![n] = [here |-> TRUE, cell |-> Sealed(t)]]
SetSetting(t) == setting' = EncryptSettingValue(ring, t)

Versions == {history[i] : i \in DOMAIN history}
ValidateReadable ==
    /\ Opens(ring, spec)
    /\ \A c \in Versions : Opens(ring, c)

-----------------------------------------------------------------------------
Idle == [at |-> "idle"]
NoJob == [kind |-> "none"]

VaultInit ==
    /\ vconf \in Vaults
    /\ ring \in vconf.rings
    /\ NewSpecCipher(ring)
    /\ up = FALSE
    /\ conns \in [Names -> {[here |-> c # None, cell |-> c] : c \in vconf.conns}]
    /\ setting \in vconf.setting
    /\ spec = [form |-> "env", key |-> 1, text |-> vconf.body]
    /\ history = <<spec>>
    /\ shown = Empty
    /\ client = [c \in Clients |-> Idle]
    /\ job = NoJob
    /\ clean = {}
    /\ stale = FALSE
    /\ vwork = 0 /\ vfaults = 0 /\ vcrashes = 0

StoreUnchanged == UNCHANGED <<conns, setting, spec, history>>
EnvUnchanged == UNCHANGED <<vconf, ring, up, vcrashes>>
Quiet == \A c \in Clients : client[c] = Idle

\* History: which requests, and which rows of the running pass, were written by
\* another since they were read.
SettingRow == 0
Overtaken(row, cs) ==
    [c \in Clients |-> IF cs[c] # Idle /\ cs[c].row = row THEN [cs[c] EXCEPT !.since = TRUE] ELSE cs[c]]
Behind(row, j) == IF j = NoJob THEN j ELSE [j EXCEPT !.since = @ \cup {row}]

\* A store call: it may fail while faults last.
Call(ok) ==
    \/ ok /\ UNCHANGED vfaults
    \/ ~ok /\ vfaults < vconf.faults /\ vfaults' = vfaults + 1

Work == vwork < vconf.work /\ vwork' = vwork + 1

\* The operator redeploys with other keys while the process is down.
NewSpecCipherFromEnv(r) ==
    /\ ~up /\ job = NoJob
    /\ r # ring
    /\ Work
    /\ NewSpecCipher(r)
    /\ ring' = r
    /\ clean' = IF r.current = ring.current THEN clean ELSE {}
    /\ StoreUnchanged
    /\ UNCHANGED <<vconf, up, shown, client, job, stale, vfaults, vcrashes>>

\* The start is refused while a row or a version cannot be read.
RestoreFromDB ==
    /\ ~up
    /\ ValidateReadable
    /\ up' = TRUE
    /\ StoreUnchanged
    /\ UNCHANGED <<vconf, ring, shown, client, job, clean, stale, vwork, vfaults, vcrashes>>

\* The process stops: requests and maintenance passes end where they are.
Crash ==
    /\ up \/ job # NoJob
    /\ vcrashes < vconf.crashes
    /\ vcrashes' = vcrashes + 1
    /\ up' = FALSE
    /\ client' = [c \in Clients |-> Idle]
    /\ job' = NoJob
    /\ StoreUnchanged
    /\ UNCHANGED <<vconf, ring, shown, clean, stale, vwork, vfaults>>

-----------------------------------------------------------------------------
(* Connections and settings. *)

\* Requests take the lowest free slot.
Free(c) == up /\ client[c] = Idle /\ (\A d \in Clients : d < c => client[d] # Idle) /\ (vconf.serial => Quiet /\ job = NoJob)

\* saveConnection: an unreadable or missing row leaves the form's placeholders out.
saveConnection(c, n, v) ==
    /\ Free(c)
    /\ Work
    /\ \E ok \in BOOLEAN :
         /\ Call(ok)
         /\ LET old  == IF ok THEN GetConnection(n) ELSE Fail
                seen == conns[n].here /\ old # Fail
            IN  client' = [client EXCEPT ![c] =
                    [at |-> "connection", row |-> n, val |-> v, seen |-> seen, since |-> FALSE,
                     out |-> IF seen THEN preserveSecretConfig(v, old)
                                     ELSE scrubSecretPlaceholders(v)]]
    /\ StoreUnchanged /\ EnvUnchanged
    /\ UNCHANGED <<shown, job, clean, stale>>

saveConnectionRow(c) ==
    /\ client[c].at = "connection"
    /\ \E ok \in BOOLEAN :
         /\ Call(ok)
         /\ IF ok THEN SaveConnection(client[c].row, client[c].out) ELSE UNCHANGED conns
    /\ client' = Overtaken(client[c].row, [client EXCEPT ![c] = Idle])
    /\ job' = Behind(client[c].row, job)
    /\ EnvUnchanged
    /\ UNCHANGED <<setting, spec, history, shown, clean, stale, vwork>>

DeleteConnection(n) ==
    /\ up /\ conns[n].here
    /\ vconf.serial => Quiet /\ job = NoJob
    /\ Work
    /\ conns' = [conns EXCEPT ![n] = [here |-> FALSE, cell |-> None]]
    /\ client' = Overtaken(n, client)
    /\ job' = Behind(n, job)
    /\ EnvUnchanged
    /\ UNCHANGED <<setting, spec, history, shown, clean, stale, vfaults>>

\* GET /settings shows the four-character mask; a read error shows nothing new.
ShowSettings ==
    /\ up
    /\ DecryptSettingValue(ring, setting) # Fail
    /\ shown' = maskSettingsMap(DecryptSettingValue(ring, setting))
    /\ shown' # shown
    /\ StoreUnchanged /\ EnvUnchanged
    /\ UNCHANGED <<client, job, clean, stale, vwork, vfaults>>

\* POST /settings: a failed list counts as no stored secret.
handleSettings(c, v) ==
    /\ Free(c)
    /\ Work
    /\ \E ok \in BOOLEAN :
         /\ Call(ok)
         /\ LET got  == IF ok THEN DecryptSettingValue(ring, setting) ELSE Fail
                old  == IF got = Fail THEN Empty ELSE got
                echo == isSecretPlaceholder(v) \/ looksLikeMaskedSecret(v, old)
                        \/ isSettingsMaskedSecret(v, old)
            IN  /\ client' = [client EXCEPT ![c] =
                    IF echo /\ old = Empty
                      THEN Idle
                      ELSE [at |-> "setting", row |-> SettingRow, val |-> v, seen |-> got # Fail,
                            since |-> FALSE, out |-> IF echo THEN old ELSE v]]
                /\ stale' = (stale \/ (v # Empty /\ v = shown /\ v # SettingsMask(old)))
    /\ StoreUnchanged /\ EnvUnchanged
    /\ UNCHANGED <<shown, job, clean>>

SaveSetting(c) ==
    /\ client[c].at = "setting"
    /\ \E ok \in BOOLEAN :
         /\ Call(ok)
         /\ IF ok THEN SetSetting(client[c].out) ELSE UNCHANGED setting
    /\ client' = Overtaken(SettingRow, [client EXCEPT ![c] = Idle])
    /\ job' = Behind(SettingRow, job)
    /\ EnvUnchanged
    /\ UNCHANGED <<conns, spec, history, shown, clean, stale, vwork>>

-----------------------------------------------------------------------------
(* Pipeline specs: the row and its new version are written together. *)

SaveWithID(body) ==
    /\ spec' = encryptSpecPayload(ring, body)
    /\ history' = Append(history, spec')

\* PUT of the form that was shown masked: steps moved, dropped, added or retyped.
putSpec(in) ==
    /\ up
    /\ Work
    /\ Opens(ring, spec)
    /\ SaveWithID(preserveSpec(in, Decrypt(ring, spec)))
    /\ EnvUnchanged
    /\ UNCHANGED <<conns, setting, shown, client, job, clean, stale, vfaults>>

\* Rollback: a version that cannot be opened is refused.
GetVersion(i) ==
    /\ up
    /\ i \in DOMAIN history
    /\ Work
    /\ Opens(ring, history[i])
    /\ SaveWithID(Decrypt(ring, history[i]))
    /\ EnvUnchanged
    /\ UNCHANGED <<conns, setting, shown, client, job, clean, stale, vfaults>>

-----------------------------------------------------------------------------
(* Maintenance: both passes read first and write row by row. *)

MayRun == Enabled(ring) /\ job = NoJob /\ vwork < vconf.work /\ (vconf.serial => Quiet)
JobUnchanged == UNCHANGED <<vconf, ring, up, spec, history, shown, stale, vcrashes>>

\* ReencryptSecrets opens every connection before it writes the first.
ReencryptSecrets ==
    /\ "reencrypt" \in vconf.jobs
    /\ MayRun /\ ~ListConnectionsFails
    /\ job' = [kind |-> "reencrypt", phase |-> "connections", todo |-> Listed,
               vals |-> [n \in Names |-> GetConnection(n)], since |-> {}]
    /\ vwork' = vwork + 1
    /\ JobUnchanged /\ UNCHANGED <<client, conns, setting, clean, vfaults>>

reencryptConnection(n) ==
    /\ job.kind = "reencrypt" /\ job.phase = "connections" /\ n \in job.todo
    /\ \E ok \in BOOLEAN :
         /\ Call(ok)
         /\ IF ok THEN SaveConnection(n, job.vals[n]) /\ job' = [job EXCEPT !.todo = @ \ {n}]
                  ELSE UNCHANGED conns /\ job' = NoJob
    /\ client' = Overtaken(n, client)
    /\ JobUnchanged /\ UNCHANGED <<setting, clean, vwork>>

\* The settings are listed after the last connection; an unreadable one ends the pass.
reencryptSettings ==
    /\ job.kind = "reencrypt" /\ job.phase = "connections" /\ job.todo = {}
    /\ LET v == DecryptSettingValue(ring, setting)
       IN  job' = IF v = Fail THEN NoJob
                  ELSE [kind |-> "reencrypt", phase |-> "settings", val |-> v, since |-> {}]
    /\ JobUnchanged /\ UNCHANGED <<client, conns, setting, clean, vwork, vfaults>>

\* The last write of a pass; an empty setting is skipped.
FinishPass(kind, done) ==
    /\ job.kind = kind /\ job.phase = "settings"
    /\ \E ok \in BOOLEAN :
         /\ Call(ok)
         /\ IF ok /\ job.val # Empty THEN SetSetting(job.val) ELSE UNCHANGED setting
         /\ clean' = IF ok THEN clean \cup done ELSE clean
    /\ job' = NoJob
    /\ client' = Overtaken(SettingRow, client)
    /\ JobUnchanged /\ UNCHANGED <<conns, vwork>>

reencryptSetting == FinishPass("reencrypt", {"rotated", "sealed"})

IsPlain(c) == c.form = "plain" /\ c.text # Empty
plaintextConfigFindings == {n \in Listed : IsPlain(conns[n].cell)}
DetectPlaintextSecrets == [conns |-> plaintextConfigFindings, setting |-> IsPlain(setting)]

RemediatePlaintextSecrets ==
    /\ "remediate" \in vconf.jobs
    /\ MayRun
    /\ job' = [kind |-> "remediate", phase |-> "connections", todo |-> DetectPlaintextSecrets.conns,
               setting |-> DetectPlaintextSecrets.setting, hold |-> Fail, since |-> {}]
    /\ vwork' = vwork + 1
    /\ JobUnchanged /\ UNCHANGED <<client, conns, setting, clean, vfaults>>

\* A row that is gone or unreadable ends the pass with an error.
remediateGet(n) ==
    /\ job.kind = "remediate" /\ job.phase = "connections" /\ n \in job.todo
    /\ job' = IF conns[n].here /\ GetConnection(n) # Fail
                THEN [job EXCEPT !.phase = "save", !.hold = [name |-> n, val |-> GetConnection(n)],
                                   !.since = {}]
                ELSE NoJob
    /\ JobUnchanged /\ UNCHANGED <<client, conns, setting, clean, vwork, vfaults>>

remediateSave ==
    /\ job.kind = "remediate" /\ job.phase = "save"
    /\ \E ok \in BOOLEAN :
         /\ Call(ok)
         /\ IF ok THEN /\ SaveConnection(job.hold.name, job.hold.val)
                       /\ job' = [job EXCEPT !.phase = "connections",
                                             !.todo = @ \ {job.hold.name}, !.hold = Fail]
                  ELSE UNCHANGED conns /\ job' = NoJob
    /\ client' = Overtaken(job.hold.name, client)
    /\ JobUnchanged /\ UNCHANGED <<setting, clean, vwork>>

remediateSettingGet ==
    /\ job.kind = "remediate" /\ job.phase = "connections" /\ job.todo = {}
    /\ LET v == DecryptSettingValue(ring, setting)
       IN  job' = IF job.setting /\ v = Fail THEN NoJob
                  ELSE [kind |-> "remediate", phase |-> "settings",
                        val |-> IF job.setting THEN v ELSE Empty, since |-> {}]
    /\ JobUnchanged /\ UNCHANGED <<client, conns, setting, clean, vwork, vfaults>>

remediateSetting == FinishPass("remediate", {"sealed"})

-----------------------------------------------------------------------------
PassStep ==
    \/ \E n \in Names : reencryptConnection(n)
    \/ reencryptSettings
    \/ reencryptSetting
    \/ \E n \in Names : remediateGet(n)
    \/ remediateSave
    \/ remediateSettingGet
    \/ remediateSetting

FieldStep ==
    \/ \E c \in Clients, n \in Names, v \in Texts \cup {Empty} \cup {maskSecretMap(t) : t \in Texts} : saveConnection(c, n, v)
    \/ \E c \in Clients : saveConnectionRow(c)
    \/ \E n \in Names : DeleteConnection(n)
    \/ ShowSettings
    \/ \E c \in Clients, v \in Texts \cup {Empty, shown} : handleSettings(c, v)
    \/ \E c \in Clients : SaveSetting(c)
    \/ ReencryptSecrets
    \/ RemediatePlaintextSecrets
    \/ PassStep

SpecStep ==
    \/ \E f \in Forms \cup {maskSpecSecrets(spec.text)} : putSpec(f)
    \/ \E i \in 1..Len(history) : GetVersion(i)

VaultNext ==
    \/ \E r \in vconf.rings : NewSpecCipherFromEnv(r)
    \/ RestoreFromDB
    \/ Crash
    \/ vconf.body = <<>> /\ FieldStep
    \/ vconf.body # <<>> /\ SpecStep

-----------------------------------------------------------------------------
(* Properties *)

\* A mask is never stored as the secret of a connection or of a step of a
\* pipeline, also when there was no stored secret to keep or it could not be
\* read (preserveSecretConfig, scrubSecretPlaceholders).
MaskNeverStored ==
    /\ \A n \in Names : conns[n].cell.text # Mask
    /\ \A c \in Versions \cup {spec} : \A i \in DOMAIN c.text : c.text[i].secret # Mask

\* The settings never hold what the settings form showed in place of a secret,
\* unless the form came back when the secret it hid had been replaced or could
\* not be read: handleSettings knows the mask of the stored secret only, and
\* stores any other text as it comes.
SettingIsNeverAMask == stale \/ setting.text \in Texts \cup {Empty}

\* While the control plane serves requests, the current row and every version
\* of a pipeline can be opened with the deployed keys, whatever rotations and
\* restarts came before: ValidateReadable refuses the start otherwise.
ServedSpecsReadable ==
    up => \A c \in Versions \cup {spec} : Opens(ring, c)

\* Once ReencryptSecrets has returned without an error, no connection and no
\* setting needs a previous key, also after requests that were in flight
\* during the pass have saved.  Pipelines and their versions are not rewritten:
\* what retiring a key they need does is ServedSpecsReadable.
RotatedNeedsNoOldKey ==
    "rotated" \in clean =>
        \A c \in {conns[n].cell : n \in Names} \cup {setting} :
            Opens([current |-> ring.current, prev |-> {}], c)

\* Once a remediation or a re-encryption has succeeded, no secret of a
\* connection or of the settings is stored as plain text again under that key.
SealedStaysSealed ==
    "sealed" \in clean => ~ \E c \in {conns[n].cell : n \in Names} \cup {setting} : IsPlain(c)

\* Resubmitting the mask of a connection or of the settings leaves the stored
\* secret as it is, when the request could read it and nobody wrote the row
\* between the request's read and its save (saveConnection and handleSettings
\* hold no lock, so a secret saved in between is undone).
EchoKeepsSecret ==
    \A c \in Clients :
        client[c] # Idle /\ client'[c] = Idle /\ up' /\ client[c].seen /\ ~client[c].since =>
            /\ client[c].at = "connection" /\ client[c].val = Mask
                 => conns'[client[c].row].cell.text = conns[client[c].row].cell.text
            /\ client[c].at = "setting" /\ client[c].val = SettingsMask(setting.text)
                 => setting'.text = setting.text

\* Saving the masked form of a spec keeps the secret of every step that was not
\* retyped: of a DAG node wherever the form moved it, of a linear transform
\* that kept its position, whatever was added or dropped behind it.  A linear
\* form that moves a transform gives it the secret of the one that stood there
\* (preserveDAGSpecSecrets, preserveLinearSpecSecrets).
StepsKeepTheirSecrets ==
    history' # history => \A f \in Forms \cup {maskSpecSecrets(spec.text)} :
        putSpec(f) =>
            \A i \in DOMAIN f, j \in DOMAIN spec.text :
                /\ f[i].secret = Mask
                /\ f[i].id = spec.text[j].id
                /\ vconf.dag \/ i = j
                => spec'.text[i].secret = spec.text[j].secret

\* A maintenance pass changes how secrets are stored and never what they are,
\* wherever it is interrupted: a step of the pass changes the secret of a row,
\* or brings a row back, only if a request wrote that row after the pass had
\* read it.
PassKeepsSecrets ==
    PassStep =>
        /\ \A n \in Names \ job.since :
              conns'[n].here = conns[n].here /\ conns'[n].cell.text = conns[n].cell.text
        /\ SettingRow \notin job.since => setting'.text = setting.text
=============================================================================
