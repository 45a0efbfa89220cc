----------------------------- MODULE SavePolicy -----------------------------
(***************************************************************************)
(* The durable-cache save policy of setup-soldr, src/lib/save-policy.ts:   *)
(* whether a run may upload to the Actions cache, from the save-cache and  *)
(* save-cache-remote inputs, the event, the ref and the kind of runner.    *)
(*                                                                         *)
(* A run's environment is a record with                                    *)
(*   event   the name of the event that triggered the run                  *)
(*   ref     the branch it runs on, known to be the default one or not     *)
(*           ("unknown" when the payload or GITHUB_REF does not say)       *)
(*   local   whether the runner is act or act2                             *)
(*   save, remote   the raw inputs save-cache and save-cache-remote        *)
(***************************************************************************)

\* An input, an event or an override that is absent.
Blank == ""

Modes  == {"auto", "true", "false"}
Events == {"push", "pull_request", "schedule", Blank}
Refs   == {"default", "other", "unknown"}

Truthy == {"1", "true", "yes", "on"}
Falsy  == {"0", "false", "no", "off"}

\* The raw values of an input: unset, the known spellings, and anything else.
Raw == {Blank, "auto", "maybe"} \cup Truthy \cup Falsy

Environments ==
  [event : Events, ref : Refs, local : BOOLEAN, save : Raw, remote : Raw]

-----------------------------------------------------------------------------
\* "throws" stands for the error of a value that is none of the known ones.
ParseSaveCacheMode(raw, default) ==
  IF raw = Blank THEN default
  ELSE IF raw = "auto" THEN "auto"
  ELSE IF raw \in Truthy THEN "true"
  ELSE IF raw \in Falsy THEN "false"
  ELSE "throws"

DecideCacheSave(mode, event, local, remote, ref) ==
  /\ mode # "false"
  /\ IF ~local /\ remote # "auto" THEN remote = "true"
     ELSE \/ mode = "true"
          \/ local
          \/ event # "pull_request" /\ ref # "other"

\* The policy as every gate of src/ evaluates it. override is Blank for none.
CurrentSaveDecision(env, override) ==
  LET parsed == ParseSaveCacheMode(env.save, "auto")
      mode   == IF override # Blank THEN override
                ELSE IF parsed = "throws" THEN "auto" ELSE parsed
      remote == ParseSaveCacheMode(env.remote, "auto")
  IN  /\ remote # "throws"
      /\ DecideCacheSave(mode, env.event, env.local, remote, env.ref)

\* The decision main takes in the cook action: the same rule, without the ref.
CookSaveDecision(env) ==
  DecideCacheSave(ParseSaveCacheMode(env.save, "auto"), env.event, env.local,
                  ParseSaveCacheMode(env.remote, "auto"), "unknown")

AllowCacheSave(env) == CurrentSaveDecision(env, Blank)

\* The verdict ledger follows the trust policy only.
AllowVerdictSave(env) == CurrentSaveDecision(env, "auto")

CookInputsValid(env) ==
  /\ ParseSaveCacheMode(env.save, "auto") # "throws"
  /\ ParseSaveCacheMode(env.remote, "auto") # "throws"
=============================================================================
