----------------------------- MODULE CachePlan ------------------------------
(***************************************************************************)
(* What resolveSetup() decides about the caches of one job: from the raw   *)
(* inputs of the action and the facts of the job, the layers that are on,  *)
(* their keys, the restore prefixes and the policy the job publishes.      *)
(*                                                                         *)
(* An input is the string the workflow typed, "" when it left it unset.  A *)
(* cache key is a sequence of tagged parts, so that "is a prefix of" is    *)
(* the relation actions/cache applies to restore keys; a hash is the       *)
(* tuple of what it digests.                                               *)
(***************************************************************************)
EXTENDS Integers, Sequences

Truthy == {"1", "true", "yes", "on"}
Falsy  == {"0", "false", "no", "off"}

\* An unset input keeps the layer's own default, an unknown word is refused.
OptIn(value, default) == IF value = "" THEN default ELSE value \in Truthy
OptInKnown(value)     == value \in Truthy \cup Falsy \cup {""}
Fill(explicit, other) == IF explicit = "" THEN other ELSE explicit

\* The inputs of a step that sets none: the defaults of action.yml.
Unset ==
  [cache |-> "true", cachePreset |-> "", cacheKeySuffix |-> "", key |-> "",
   autoKey |-> "false", autoKeyTrustedWriters |-> {}, ref |-> "",
   buildCache |-> "", buildCacheMode |-> "", targetCache |-> "",
   targetCacheMode |-> "", targetCacheProfile |-> "thin-v1",
   targetCacheCompress |-> "zstd", targetCacheCompressLevel |-> <<>>,
   cacheEncryptKey |-> "", cacheEncryptOnFailure |-> "error",
   cargoRegistryCache |-> "", prebuildDeps |-> "soldr-cook",
   sourceMtimeNormalize |-> "false", preserveSourceMtimes |-> "false",
   cachePayloadOversizeAction |-> "skip", cachePayloadMaxBytes |-> "", ciTests |-> "false",
   dylint |-> "false", dylintFoundationCache |-> "true",
   dylintOutputCache |-> "true", dylintCache |-> "false",
   crossTargets |-> "", zccacheSeedStrict |-> "false"]

-----------------------------------------------------------------------------
(* cache-preset fills what the consumer left unset; dylint mode then turns *)
(* cook off and, unless it was set explicitly, the registry cache on.      *)

Presets ==
  [minimal    |-> [buildCache |-> "false", targetCache |-> "false", mode |-> ""],
   foundation |-> [buildCache |-> "true",  targetCache |-> "false", mode |-> ""],
   full       |-> [buildCache |-> "true",  targetCache |-> "true",  mode |-> "thin"]]

WithPreset(in) ==
  IF in.cachePreset \notin DOMAIN Presets THEN in
  ELSE LET preset == Presets[in.cachePreset]
       IN  [in EXCEPT !.buildCache         = Fill(@, preset.buildCache),
                      !.targetCache        = Fill(@, preset.targetCache),
                      !.buildCacheMode     = Fill(@, preset.mode),
                      !.cargoRegistryCache = Fill(@, "true"),
                      !.prebuildDeps       = Fill(@, "soldr-cook")]

DylintMode(in) == OptIn(in.dylint, FALSE)

Effective(in) ==
  LET filled == WithPreset(in)
  IN  IF DylintMode(in)
      THEN [filled EXCEPT !.cargoRegistryCache = Fill(in.cargoRegistryCache, "true"),
                          !.prebuildDeps       = "none"]
      ELSE filled

-----------------------------------------------------------------------------
(* The umbrella switch, the two build-output layers and their mode.        *)

Modes == {"once", "thin", "full"}

LegacyMode(in) == IF in.targetCacheMode = "hot" THEN "thin" ELSE in.targetCacheMode

Umbrella(in) == Fill(in.cache, "true") \notin Falsy

TargetCacheRequested(in) ==
  /\ Umbrella(in)
  /\ LegacyMode(in) # "off"
  /\ Fill(in.targetCache, IF LegacyMode(in) = "" THEN "false" ELSE "true") \notin Falsy

\* Without an explicit mode a job that asks for the target cache takes the
\* deprecated input's mode, or the bounded one.
NormalizeBuildCacheMode(in, requested) ==
  IF in.buildCacheMode # "" THEN in.buildCacheMode
  ELSE IF ~requested THEN "once"
  ELSE Fill(LegacyMode(in), "thin")

BuildCacheEnabled(in) == Umbrella(in) /\ Fill(in.buildCache, "true") \notin Falsy

CiTests(in) == OptIn(in.ciTests, FALSE)

\* Mutant: the lane keeps the mode it asked for.
CiTestsNeverRefused(ciTests, mode, buildOn, requested) == FALSE

\* A lane of test binaries may not persist a bulk target tree.
CiTestsTargetTreeRefusal(ciTests, mode, buildOn, requested) ==
  ciTests /\ mode = "full" /\ buildOn /\ requested

\* The mode everything downstream reads.
buildCacheMode(in, buildOn, requested) ==
  LET asked == NormalizeBuildCacheMode(in, requested)
  IN  IF CiTestsTargetTreeRefusal(CiTests(in), asked, buildOn, requested) THEN "thin" ELSE asked

NoLock == "no-lock"

TargetCacheEnabled(buildOn, requested, mode, lock) ==
  buildOn /\ requested /\ ~(mode = "thin" /\ lock = NoLock)

TargetCachePaths(targetOn, tree) ==
  IF ~targetOn THEN {} ELSE IF tree THEN {"target", "bundle"} ELSE {"bundle"}

-----------------------------------------------------------------------------
(* Keys of the build cache and of the target cache.                        *)

SuffixPart(in) ==
  IF in.cacheKeySuffix = "" THEN <<>> ELSE <<<<"suffix", in.cacheKeySuffix>>>>

\* Platform, toolchain and the job's suffix, but not the commit.
BuildCacheJobPrefix(in, digest) ==
  <<<<"layer", "build">>, <<"toolchain", digest>>>> \o SuffixPart(in)

TargetCachePrefix(in, targetOn, mode) ==
  IF ~targetOn THEN <<<<"layer", "target-off">>>>
  ELSE <<<<"layer", "target">>, <<"mode", mode>>, <<"profile", in.targetCacheProfile>>>>

\* The tree keys name the toolchain, the lockfile and the shape one by one,
\* the bundle keys one hash that covers the manifests too.
TargetCacheLockPrefix(in, prefix, tree, digest, lock, manifest) ==
  prefix \o (IF tree THEN <<<<"toolchain", digest>>, <<"lock", lock>>>>
                     ELSE <<<<"inputs", <<digest, lock, manifest>>>>>>)
         \o SuffixPart(in)

TargetCacheLockfilePrefix(in, prefix, digest, lock) ==
  prefix \o <<<<"lockfileOnly", <<digest, lock>>>>>> \o SuffixPart(in)

NoSha == -1

\* The restore keys main passes along, in order: the parent commit when there
\* is one, the newest entry of these inputs, the newest of this lockfile.
TargetRestoreKeys(lockPrefix, lockfilePrefix, sha, parent) ==
  (IF parent \in {NoSha, sha} THEN <<>> ELSE <<Append(lockPrefix, <<"sha", parent>>)>>)
    \o <<lockPrefix, lockfilePrefix>>

-----------------------------------------------------------------------------
(* The cargo registry layer.  A host says whether it is a local runner     *)
(* (act), whether soldr packs registry archives, whether the soldr of the  *)
(* job can, and whether zstd is on PATH.                                   *)

CookPrebuild(in) == in.prebuildDeps = "soldr-cook"

\* Cook without an explicit registry input brings the registry cache along.
CargoRegistryCacheEnabled(in) ==
  /\ Umbrella(in)
  /\ Fill(in.cargoRegistryCache, IF CookPrebuild(in) THEN "true" ELSE "false") \in Truthy

CargoRegistryFormat(in, host) ==
  IF host.viaSoldr /\ in.cacheEncryptKey = "" /\ in.ref = "" /\ host.compatible
  THEN "soldr-v2" ELSE "legacy-v1"

\* Shared by the jobs of a lockfile: no suffix and no commit.
CargoRegistryRestorePrefix(format, lock) ==
  <<<<"layer", "registry">>, <<"format", format>>, <<"lock", lock>>>>

-----------------------------------------------------------------------------
(* The Dylint foundation (tools, driver, nightly) and the Dylint outputs.  *)

DylintCacheEnabled(in) ==
  /\ Umbrella(in)
  /\ IF DylintMode(in) THEN OptIn(in.dylintFoundationCache, TRUE)
                       ELSE OptIn(in.dylintCache, FALSE)

DylintOutputCacheEnabled(in) ==
  DylintMode(in) /\ Umbrella(in) /\ OptIn(in.dylintOutputCache, TRUE)

\* In dylint mode the nightly decides, otherwise the whole setup does.
DylintCacheKey(in, digest, lock, manifest) ==
  <<<<"layer", "dylint">>>>
    \o (IF DylintMode(in) THEN <<<<"nightly", digest>>>>
                          ELSE <<<<"setup", <<digest, lock, manifest>>>>>>)
    \o SuffixPart(in)

\* Everything but the lockfile; the key appends it, so a bump of a dependency
\* falls back to the generation before it.
DylintOutputRestoreKey(in, digest, manifest) ==
  <<<<"layer", "dylint-output">>, <<"inputs", <<digest, manifest, in.cacheKeySuffix>>>>>>

-----------------------------------------------------------------------------
(* Cross preparation: soldr packs what a target needs, one archive for     *)
(* each real target of the triple.                                         *)

prepareTargetsFor(target) ==
  IF target = "universal2" THEN <<"x86_64", "aarch64">>
  ELSE IF target = "" THEN <<>> ELSE <<target>>

BlessedPrepareEnabled(in) == Umbrella(in) /\ in.ref = "" /\ in.crossTargets # ""

\* The base leaves the release of soldr out, so archives survive a bump.
blessedPrepareCacheBase(in) == <<<<"layer", "prepare">>, <<"target", in.crossTargets>>>>

blessedPrepareCacheKey(in, version) ==
  Append(blessedPrepareCacheBase(in), <<"soldr", version>>) \o SuffixPart(in)

decideBlessedPrepareCacheUse(enabled, exactHit, matched, archivesExist) ==
  LET exact    == enabled /\ exactHit /\ archivesExist
      fallback == enabled /\ ~exactHit /\ matched /\ archivesExist
  IN  [restore |-> exact \/ fallback, save |-> enabled /\ ~exact]

\* A job with a suffix never falls back to another namespace.
planBlessedPrepareCache(in, version) ==
  [on       |-> BlessedPrepareEnabled(in),
   targets  |-> prepareTargetsFor(in.crossTargets),
   key      |-> blessedPrepareCacheKey(in, version),
   prefixes |-> IF in.cacheKeySuffix = "" THEN <<blessedPrepareCacheBase(in)>> ELSE <<>>]

-----------------------------------------------------------------------------
(* The result: what main saves and post reads back, with what the job says *)
(* it persists and the modes later steps find in their environment.        *)

RuntimeMode(mode) == IF mode = "once" THEN "full" ELSE mode

\* "0" and what is not a byte count mean no cap.
Uncapped == {"0", "lots"}

\* A GitHub runner caps what one payload may weigh, a local one does not.
resolveCacheProfileInput(explicit, host) == Fill(explicit, IF host.local THEN "0" ELSE "6GiB")

resolveCachePayloadPolicy(in, host) ==
  [capped |-> resolveCacheProfileInput(in.cachePayloadMaxBytes, host) \notin Uncapped,
   fails  |-> in.cachePayloadOversizeAction = "fail"]

\* What the job says it persists.
CachePolicyLayers(in, registryOn, buildOn, targetOn, tree, toolsOn, lintOn) ==
  {l \in {"toolchain"}              : Umbrella(in)}
    \cup {l \in {"cargo-registry"}    : registryOn}
    \cup {l \in {"cook"}              : Umbrella(in) /\ CookPrebuild(in)}
    \cup {l \in {"zccache-unit"}      : buildOn}
    \cup {l \in {"target-tree"}       : tree}
    \cup {l \in {"target-bundle"}     : targetOn /\ ~tree}
    \cup {l \in {"dylint-foundation"} : toolsOn}
    \cup {l \in {"dylint-output"}     : lintOn}

TargetCache(in, targetOn, mode, digest, lock, manifest, sha, parent) ==
  LET tree     == targetOn /\ mode = "full"
      prefix   == TargetCachePrefix(in, targetOn, mode)
      lockPart == TargetCacheLockPrefix(in, prefix, tree, digest, lock, manifest)
  IN  [on |-> targetOn, paths |-> TargetCachePaths(targetOn, tree),
       key |-> IF targetOn THEN Append(lockPart, <<"sha", sha>>)
               ELSE Append(prefix, <<"inputs", <<digest, lock, manifest>>>>),
       prefixes |-> IF targetOn
                    THEN TargetRestoreKeys(lockPart,
                           TargetCacheLockfilePrefix(in, prefix, digest, lock), sha, parent)
                    ELSE <<>>]

resolveSetup(raw, host, digest, lock, manifest, sha, parent) ==
  LET in        == Effective(raw)
      buildOn   == BuildCacheEnabled(in)
      requested == TargetCacheRequested(in)
      mode      == buildCacheMode(in, buildOn, requested)
      targetOn  == TargetCacheEnabled(buildOn, requested, mode, lock)
      tree      == targetOn /\ mode = "full"
      jobPrefix == BuildCacheJobPrefix(in, digest)
      registryOn == CargoRegistryCacheEnabled(in)
      format    == CargoRegistryFormat(in, host)
      registry  == CargoRegistryRestorePrefix(format, lock)
      toolsOn   == DylintCacheEnabled(in)
      lintOn    == DylintOutputCacheEnabled(in)
      lints     == DylintOutputRestoreKey(in, digest, manifest)
  IN  [mode |-> mode, profile |-> in.targetCacheProfile,
       buildKey |-> Append(jobPrefix, <<"lock", lock>>), buildPrefix |-> jobPrefix,
       target |-> TargetCache(in, targetOn, mode, digest, lock, manifest, sha, parent),
       registry |-> [on |-> registryOn, format |-> format, prefix |-> registry,
                     key |-> Append(registry, <<"toolchain", digest>>)],
       tools |-> [on |-> toolsOn, key |-> DylintCacheKey(in, digest, lock, manifest)],
       lint  |-> [on |-> lintOn, key |-> Append(lints, <<"lock", lock>>), prefix |-> lints],
       prepare |-> planBlessedPrepareCache(in, host.version),
       \* SOLDR_TARGET_CACHE_MODE
       runtime |-> IF targetOn THEN RuntimeMode(mode) ELSE "off",
       layers |-> CachePolicyLayers(in, registryOn, buildOn, targetOn, tree, toolsOn, lintOn)]

RejectedCompression(in) ==
  \/ in.targetCacheCompress \notin {"", "auto", "zstd", "none"}
  \/ in.targetCacheCompressLevel # <<>> /\ Head(in.targetCacheCompressLevel) \notin 1 .. 22

\* The inputs resolveSetup() refuses; Dylint outputs live under target/, so a
\* bulk target tree would hold them.
Rejected(in, result) ==
  \/ in.cachePreset \notin DOMAIN Presets \cup {""}
  \/ in.cacheEncryptKey = "malformed"
  \/ in.cacheEncryptOnFailure \notin {"", "error", "skip"}
  \/ in.targetCacheMode \notin {"", "hot", "thin", "full", "off"}
  \/ in.targetCacheProfile \notin {"", "thin-v1", "thin-v2", "thin-v3"}
  \/ in.buildCacheMode \notin Modes \cup {""}
  \/ RejectedCompression(in)
  \/ ~OptInKnown(in.ciTests) \/ ~OptInKnown(in.dylint)
  \/ DylintMode(in) /\ ~OptInKnown(in.dylintFoundationCache)
  \/ ~DylintMode(in) /\ ~OptInKnown(in.dylintCache)
  \/ DylintMode(in) /\ Umbrella(in) /\ ~OptInKnown(in.dylintOutputCache)
  \/ result.lint.on /\ "target" \in result.target.paths
  \/ in.crossTargets \in {"all", "two targets"}

=============================================================================
