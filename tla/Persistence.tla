---------------------------- MODULE Persistence ----------------------------
(***************************************************************************)
(* What survives packetwyrmd: the environment file and the card's flash,   *)
(* under one daemon that answers one request at a time, the stand-alone    *)
(* firmware command that needs the daemon stopped, and power loss or the   *)
(* death of the process at any step.                                       *)
(***************************************************************************)
EXTENDS EnvStore, FlashProgram

CONSTANTS
    MaxRequests,  \* bound: saves, flash writes and edits
    MaxMishaps    \* bound: deaths of a process, power losses, faults of the flash

VARIABLES requests, crashes

vars == <<env_vars, flash_vars, requests, crashes>>

Init == EnvInit /\ FlashInit /\ requests = 0 /\ crashes = 0

\* handle_client serves one request after another; a start of the daemon while
\* the firmware command holds the card fails when it opens it.
Free == save.pc = "idle" /\ call.pc = "idle"

Request(action) ==
    /\ requests < MaxRequests /\ requests' = requests + 1
    /\ action

EnvStep ==
    /\ \/ /\ \/ SaveStep \/ StashEnv
             \/ Free /\ (ParseEnv \/ config_get_raw)
          /\ UNCHANGED requests
       \/ Free /\ \E t \in Texts \cup ({view} \ {NoText}) : Request(config_save(t))
       \/ \E t \in Texts : /\ Accepted(t) /\ t.secret # PW_SECRET_REDACTED
                           /\ Request(Edit(t))
    /\ UNCHANGED <<flash_vars, crashes>>

CallOrChip(step) ==
    /\ step /\ UNCHANGED <<env_vars, requests, crashes>>
    /\ faults' # faults => faults + crashes < MaxMishaps

FlashStep ==
    \/ CallOrChip(CallStep) \/ CallOrChip(TxnFails) \/ CallOrChip(Chip)
    \/ /\ Free /\ UNCHANGED <<env_vars, crashes>>
       /\ \/ /\ daemon = "up"
             /\ \E r \in Requests, f \in Files : Request(flash_write(r, f))
          \/ /\ daemon = "down"
             /\ \E f \in Files, scratch, boot \in BOOLEAN :
                    Request(firmware_update(f, scratch, boot))

\* The process that writes dies: the daemon, or the firmware command.
Crash ==
    /\ faults + crashes < MaxMishaps /\ (daemon # "down" \/ call.pc # "idle")
    /\ crashes' = crashes + 1
    /\ DaemonDies /\ WriterKilled /\ UNCHANGED requests

PowerLoss ==
    /\ faults + crashes < MaxMishaps /\ crashes' = crashes + 1
    /\ DiskLosesPower /\ PowerFails /\ UNCHANGED requests

Next == EnvStep \/ FlashStep \/ Crash \/ PowerLoss

\* The daemon goes on with the request it serves; the chip finishes a command.
Spec ==
    /\ Init /\ [][Next]_vars
    /\ WF_vars(CallOrChip(CallStep)) /\ WF_vars(CallOrChip(Chip))
=============================================================================
