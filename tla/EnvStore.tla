------------------------------ MODULE EnvStore ------------------------------
(***************************************************************************)
(* The environment file of packetwyrmd: how the daemon reads it at start,  *)
(* config.get_raw, and config.save system call by system call.  A text is  *)
(* [secret, style, body]: the value of system.secret, whether its key is on*)
(* a line of its own ("block") or in a flow mapping ("inline"), and the    *)
(* rest.  The file system is external: a rename is visible at once and     *)
(* durable after the directory is synced, data are durable after fsync.    *)
(***************************************************************************)
EXTENDS Integers, FiniteSets

CONSTANTS
    Texts,        \* texts an operator or a client may write
    Broken,       \* the bodies pw_config_parse_string_ex or validate refuses
    FirstText     \* what the file holds at the start

PW_SECRET_REDACTED == "***"
NoText == [secret |-> "", style |-> "block", body |-> "none"]
\* What a file holds whose data did not all reach the disk.
Torn == [secret |-> "", style |-> "block", body |-> "torn"]

VARIABLES
    file,      \* the environment file: text, mode, and whether its data are durable
    durable,   \* the file its directory entry leads to after power loss
    daemon,    \* down, stash (parsed, text not yet kept) or up
    parsed,    \* the text the running configuration was parsed from
    loaded,    \* g_env_loaded_yaml
    save,      \* the config.save under way
    view,      \* the text config.get_raw returned last
    reply      \* the last answer to config.save

env_vars == <<file, durable, daemon, parsed, loaded, save, view, reply>>

File(text, mode, synced) == [text |-> text, mode |-> mode, synced |-> synced]
NoSave == [pc |-> "idle", text |-> NoText, kept |-> FALSE, restart |-> FALSE,
           tmp |-> File(NoText, 600, FALSE)]
NoReply == [ok |-> FALSE, text |-> NoText, restart |-> FALSE, synced |-> FALSE]

EnvInit ==
    /\ file = File(FirstText, 640, TRUE) /\ durable = file
    /\ daemon = "down" /\ parsed = NoText /\ loaded = NoText
    /\ save = NoSave /\ view = NoText /\ reply = NoReply

\* pw_config_parse_string_ex and pw_config_validate.
Accepted(text) == text.body \notin Broken \cup {"torn"}

\* The daemon is started on a file it accepts, with a secret of its own.
IsText(t) == t = [secret |-> t.secret, style |-> t.style, body |-> t.body]
ASSUME EnvAssumption ==
    /\ \A t \in Texts \cup {FirstText} : IsText(t)
    /\ Accepted(FirstText) /\ FirstText.secret # PW_SECRET_REDACTED

-----------------------------------------------------------------------------
\* main: the file is parsed, then read again for its text.
ParseEnv ==
    /\ daemon = "down" /\ Accepted(file.text)
    /\ parsed' = file.text /\ daemon' = "stash"
    /\ UNCHANGED <<file, durable, loaded, save, view, reply>>
StashEnv ==
    /\ daemon = "stash"
    /\ loaded' = file.text /\ daemon' = "up"
    /\ UNCHANGED <<file, durable, parsed, save, view, reply>>

\* build_config_get_raw: only a secret on its own line is replaced.
Redacted(text) ==
    IF text.style = "block" THEN [text EXCEPT !.secret = PW_SECRET_REDACTED] ELSE text
config_get_raw ==
    /\ daemon = "up" /\ save.pc = "idle"
    /\ view' = Redacted(file.text)
    /\ UNCHANGED <<file, durable, daemon, parsed, loaded, save, reply>>

\* yaml_rewrite_secret.
Rewritten(text, secret) == IF text.style = "block" THEN [text EXCEPT !.secret = secret] ELSE text

MutRestart(text) == text # file.text

\* Saved text against the text kept at start.
restart_required(text) == text # loaded

Refuse == /\ save' = NoSave /\ reply' = NoReply

\* do_config_save up to the first system call.
config_save(yaml) ==
    LET placeholder == yaml.secret = PW_SECRET_REDACTED
        out == IF placeholder THEN Rewritten(yaml, parsed.secret) ELSE yaml
    IN  /\ daemon = "up" /\ save.pc = "idle"
        /\ IF ~Accepted(yaml) \/ out.secret = PW_SECRET_REDACTED THEN Refuse
           ELSE /\ save' = [NoSave EXCEPT !.pc = "create", !.text = out, !.kept = placeholder,
                                          !.restart = restart_required(out)]
                /\ reply' = NoReply
        /\ UNCHANGED <<file, durable, daemon, parsed, loaded, view>>

\* mkstemp and fchmod to the mode of the file; either may fail.
CreateTmp ==
    /\ save.pc = "create"
    /\ \/ /\ save' = [save EXCEPT !.pc = "write", !.tmp = File(Torn, file.mode, FALSE)]
          /\ UNCHANGED reply
       \/ Refuse
    /\ UNCHANGED <<file, durable, daemon, parsed, loaded, view>>

\* The write loop and fsync.
WriteTmp ==
    /\ save.pc = "write"
    /\ \/ /\ save' = [save EXCEPT !.pc = "sync", !.tmp.text = save.text]
          /\ UNCHANGED reply
       \/ Refuse
    /\ UNCHANGED <<file, durable, daemon, parsed, loaded, view>>

MutSyncTmp ==
    /\ save.pc = "sync"
    /\ save' = [save EXCEPT !.pc = "rename"]
    /\ UNCHANGED <<file, durable, daemon, parsed, loaded, view, reply>>

SyncTmp ==
    /\ save.pc = "sync"
    /\ \/ /\ save' = [save EXCEPT !.pc = "rename", !.tmp.synced = TRUE]
          /\ UNCHANGED reply
       \/ Refuse
    /\ UNCHANGED <<file, durable, daemon, parsed, loaded, view>>

Rename ==
    /\ save.pc = "rename"
    /\ \/ /\ file' = save.tmp
          /\ save' = [save EXCEPT !.pc = "syncdir"]
          /\ UNCHANGED reply
       \/ Refuse /\ UNCHANGED file
    /\ UNCHANGED <<durable, daemon, parsed, loaded, view>>

MutSyncDir ==
    /\ save.pc = "syncdir"
    /\ save' = NoSave
    /\ reply' = [ok |-> TRUE, text |-> save.text, restart |-> save.restart, synced |-> TRUE]
    /\ UNCHANGED <<file, durable, daemon, parsed, loaded, view>>

\* The directory is synced, then the reply is sent; an open or fsync that fails
\* is ignored, so synced is not part of what the client is told.
SyncDir ==
    /\ save.pc = "syncdir"
    /\ save' = NoSave
    /\ \E synced \in BOOLEAN :
          /\ durable' = IF synced THEN file ELSE durable
          /\ reply' = [ok |-> TRUE, text |-> save.text, restart |-> save.restart,
                       synced |-> synced]
    /\ UNCHANGED <<file, daemon, parsed, loaded, view>>

-----------------------------------------------------------------------------
\* Around the daemon.

\* Somebody writes the file by other means, and durably; not between the two
\* reads of a starting daemon, nor while a save is under way.
Edit(text) ==
    /\ daemon # "stash" /\ save.pc = "idle" /\ text # file.text
    /\ file' = File(text, file.mode, TRUE) /\ durable' = file'
    /\ reply' = NoReply
    /\ UNCHANGED <<daemon, parsed, loaded, save, view>>

\* The daemon stops, at whatever point of a save.
DaemonDies ==
    /\ daemon' = "down" /\ parsed' = NoText /\ loaded' = NoText /\ save' = NoSave
    /\ UNCHANGED <<file, durable, view, reply>>

\* Power fails: the entry of before or after the last rename survives, and
\* data that were not synced may be torn.
DiskLosesPower ==
    /\ \E f \in {file, durable} :
          \E text \in {f.text} \cup (IF f.synced THEN {} ELSE {Torn}) :
              /\ file' = File(text, f.mode, TRUE)
              /\ durable' = file'
    /\ daemon' = "down" /\ parsed' = NoText /\ loaded' = NoText /\ save' = NoSave
    /\ UNCHANGED <<view, reply>>

SaveStep == CreateTmp \/ WriteTmp \/ SyncTmp \/ Rename \/ SyncDir

-----------------------------------------------------------------------------
\* Properties.

(* Whatever is interrupted, the environment file is one the daemon can     *)
(* start from, holds no redaction placeholder and keeps its mode           *)
(* (do_config_save's temporary file, fsync and rename).                    *)
EnvFileWhole ==
    \A f \in {file, durable} :
        /\ Accepted(f.text) /\ f.text.secret # PW_SECRET_REDACTED
        /\ f.mode = 640

(* A save that was acknowledged, and whose fsync of the directory did not  *)
(* fail, is still there after power loss, until the next save or edit      *)
(* (do_config_save, main.c:1123-1132).                                     *)
AckedSaveSurvives == reply.ok /\ reply.synced => file.text = reply.text

(* restart_required = false is only answered when what was saved is what   *)
(* the daemon runs (do_config_save against g_env_loaded_yaml).             *)
RestartTruthful ==
    [][save.pc = "syncdir" /\ reply'.ok /\ ~reply'.restart
           => file.text = parsed]_env_vars

(* Saving the redacted view back does not clobber the secret on disk       *)
(* (docs/guides/configuration.md, "The secret").                           *)
RedactedSaveKeepsSecret ==
    [][save.kept /\ file' # file /\ save.pc = "rename"
           => file'.text.secret = file.text.secret]_env_vars
=============================================================================
