----------------------------- MODULE EcrTokens ------------------------------
(***************************************************************************)
(* The ECR authentication of dsagent                                       *)
(* (clacky-ai-paas-dsagent/internal/auth, internal/service/ecr_service.go  *)
(* and image_service_v2.go).  The ECR service and the image service have a *)
(* manager each, with its own cache of tokens; both persist their cache in *)
(* one file, and enter their tokens in the config.json of Docker, which a  *)
(* pull or a push reads.                                                   *)
(*                                                                         *)
(* A request is a client; the goroutine that saves the cache goes on under *)
(* the same client after the request has returned, and a goroutine that    *)
(* enters a persisted token runs in a client's place.  No lock orders any  *)
(* of them on config.json.                                                 *)
(*                                                                         *)
(* Tokens are numbered in the order AWS issues them, which is also the     *)
(* order they expire in; a token counts as expired five minutes early, as  *)
(* in the code.  A death of dsagent, by a panic or by the "concurrent map  *)
(* read and map write" that the unlocked look at tokenCache risks, loses   *)
(* everything but the files.                                               *)
(***************************************************************************)
EXTENDS Parties, Naturals

CONSTANTS Registries,
          MaxTokens      \* bound on the tokens AWS issues

ASSUME EcrAssumption == MaxTokens \in Nat /\ Registries # {}

Managers == {"ecr", "image"}
Token == 0..MaxTokens             \* 0 is no token
ARegistry == CHOOSE r \in Registries : TRUE
NoTokens == [r \in Registries |-> 0]

VARIABLES
  tokenCache,    \* tokenCache[m][r]
  loaded,        \* the managers that exist, with the persisted tokens
  cacheFile,     \* ecr-token-cache.json
  config,        \* config.json, one token for each registry
  truncated,     \* a write of config.json is half done
  issued,        \* the number of tokens issued so far
  expired,       \* the tokens up to this one have expired
  rpc,           \* rpc[p]: the next step of the request p
  req,           \* req[p]: its manager and registry
  token,         \* token[p]: the token it has obtained
  loadedConfig,  \* loadedConfig[p]: config.json as SetRegistryAuth has read it
  saver,         \* saver[p]: the next step of its saveTokenCache
  tokensCopy,    \* tokensCopy[p]: the copy that saveTokenCache has made
  starting,      \* tokens the goroutines of loadPersistedTokens will enter
  lost           \* a history: registries whose entry in config.json a failed or a racing
                 \* SetRegistryAuth has lost, and no later one has made good

ecrVars == <<tokenCache, loaded, cacheFile, config, truncated, issued, expired,
             rpc, req, token, loadedConfig, saver, tokensCopy, starting, lost>>

Request == [m : Managers, r : Registries]
NoRequest == [m |-> "ecr", r |-> ARegistry]
AuthSteps == {"load", "truncate", "write", "overwrite"}
RequestSteps == {"idle", "fetch", "cache"} \union AuthSteps

EcrInit ==
  /\ tokenCache = [m \in Managers |-> NoTokens]
  /\ loaded = {}
  /\ cacheFile = NoTokens
  /\ config = NoTokens
  /\ truncated = FALSE
  /\ issued = 0
  /\ expired = 0
  /\ rpc = [p \in Clients |-> "idle"]
  /\ req = [p \in Clients |-> NoRequest]
  /\ token = [p \in Clients |-> 0]
  /\ loadedConfig = [p \in Clients |-> NoTokens]
  /\ saver = [p \in Clients |-> "none"]
  /\ tokensCopy = [p \in Clients |-> NoTokens]
  /\ starting = {}
  /\ lost = {}

IsTokenValid(t) == t > expired
CleanExpiredTokens(tokens) == [r \in Registries |-> IF IsTokenValid(tokens[r]) THEN tokens[r] ELSE 0]

(* The registries whose SetRegistryAuth is under way or still to begin. *)
InFlight == {req[p].r : p \in {q \in Clients : rpc[q] \in AuthSteps}} \union {s.r : s \in starting}

Forgets(p) ==
  /\ req' = [req EXCEPT ![p] = NoRequest]
  /\ token' = [token EXCEPT ![p] = 0]
  /\ loadedConfig' = [loadedConfig EXCEPT ![p] = NoTokens]
RequestEnds(p) == rpc' = [rpc EXCEPT ![p] = "idle"] /\ Forgets(p)

-----------------------------------------------------------------------------
(* A manager is made, that of the ECR service when dsagent starts, that of *)
(* the image service in its first request.  It takes the valid tokens of   *)
(* the file, none if the other manager is about to write it, and starts a  *)
(* goroutine for each that enters it in config.json.                       *)
LoadPersistedTokens(m) ==
  /\ m \notin loaded /\ (m = "image" => "ecr" \in loaded)
  /\ loaded' = loaded \union {m}
  /\ \E tokens \in {CleanExpiredTokens(cacheFile)} \union {NoTokens : p \in {q \in Clients : saver[q] = "save"}} :
         /\ tokenCache' = [tokenCache EXCEPT ![m] = tokens]
         /\ starting' = starting \union {[m |-> m, r |-> r, t |-> tokens[r]] : r \in {x \in Registries : tokens[x] # 0}}
  /\ UNCHANGED <<cacheFile, config, truncated, issued, expired, rpc, req, token,
                 loadedConfig, saver, tokensCopy, lost>>

StartedAuth(p, s) ==
  /\ rpc[p] = "idle" /\ saver[p] = "none" /\ s \in starting
  /\ starting' = starting \ {s}
  /\ rpc' = [rpc EXCEPT ![p] = "load"]
  /\ req' = [req EXCEPT ![p] = [m |-> s.m, r |-> s.r]]
  /\ token' = [token EXCEPT ![p] = s.t]
  /\ UNCHANGED <<tokenCache, loaded, cacheFile, config, truncated, issued, expired,
                 loadedConfig, saver, tokensCopy, lost>>

(* AutoLogin, for a login, a pull or a push, returns at once when there is *)
(* a valid token in the cache.                                             *)
AutoLogin(p, m, r) ==
  /\ rpc[p] = "idle" /\ saver[p] = "none" /\ m \in loaded
  /\ ~IsTokenValid(tokenCache[m][r])
  /\ req' = [req EXCEPT ![p] = [m |-> m, r |-> r]]
  /\ rpc' = [rpc EXCEPT ![p] = "fetch"]
  /\ UNCHANGED <<tokenCache, loaded, cacheFile, config, truncated, issued, expired, token,
                 loadedConfig, saver, tokensCopy, starting, lost>>

(* getECRToken; AWS may refuse. *)
GetECRToken(p) ==
  /\ rpc[p] = "fetch"
  /\ \/ /\ issued < MaxTokens
        /\ issued' = issued + 1
        /\ token' = [token EXCEPT ![p] = issued + 1]
        /\ rpc' = [rpc EXCEPT ![p] = "cache"]
        /\ UNCHANGED <<req, loadedConfig>>
     \/ RequestEnds(p) /\ UNCHANGED issued
  /\ UNCHANGED <<tokenCache, loaded, cacheFile, config, truncated, expired,
                 saver, tokensCopy, starting, lost>>

(* The token is cached, under the lock, before it is entered anywhere, and *)
(* a goroutine is started that saves the cache.                            *)
CacheToken(p) ==
  /\ rpc[p] = "cache"
  /\ tokenCache' = [tokenCache EXCEPT ![req[p].m][req[p].r] = token[p]]
  /\ saver' = [saver EXCEPT ![p] = req[p].m]
  /\ rpc' = [rpc EXCEPT ![p] = "load"]
  /\ UNCHANGED <<loaded, cacheFile, config, truncated, issued, expired, req, token,
                 loadedConfig, tokensCopy, starting, lost>>

-----------------------------------------------------------------------------
(* SetRegistryAuth reads the file, without a lock; an empty file counts as *)
(* an empty configuration.                                                 *)
LoadConfig(p) ==
  /\ rpc[p] = "load"
  /\ loadedConfig' = [loadedConfig EXCEPT ![p] = IF truncated THEN NoTokens ELSE config]
  /\ rpc' = [rpc EXCEPT ![p] = "truncate"]
  /\ UNCHANGED <<tokenCache, loaded, cacheFile, config, truncated, issued, expired,
                 req, token, saver, tokensCopy, starting, lost>>

TruncateConfig(p) ==
  /\ rpc[p] = "truncate"
  /\ truncated' = TRUE
  /\ rpc' = [rpc EXCEPT ![p] = "write"]
  /\ UNCHANGED <<tokenCache, loaded, cacheFile, config, issued, expired,
                 req, token, loadedConfig, saver, tokensCopy, starting, lost>>

(* What a write of p loses: entries that are newer than what p has read,   *)
(* and a newer token for its own registry; that one is made good when no   *)
(* cache has a newer token than p enters.                                  *)
Overwritten(p) == {x \in Registries \ {req[p].r} : loadedConfig[p][x] < config[x]}
MadeGood(p) == \A m \in Managers : tokenCache[m][req[p].r] <= token[p]
LostBy(p) ==
  IF MadeGood(p) THEN (lost \union Overwritten(p)) \ {req[p].r}
  ELSE lost \union Overwritten(p) \union {x \in {req[p].r} : token[p] < config[x]}

(* Mutant: the entries that were there are not kept. *)
WriteOnlyThis(p) ==
  /\ rpc[p] \in {"write", "overwrite"}
  /\ config' = [NoTokens EXCEPT ![req[p].r] = token[p]]
  /\ truncated' \in (IF rpc[p] = "overwrite" THEN BOOLEAN ELSE {FALSE})
  /\ lost' = LostBy(p)
  /\ rpc' = [q \in Clients |-> IF q = p THEN "idle" ELSE IF rpc[q] = "write" THEN "overwrite" ELSE rpc[q]]
  /\ Forgets(p)
  /\ UNCHANGED <<tokenCache, loaded, cacheFile, issued, expired, saver, tokensCopy, starting>>

(* Whoever has truncated the file as well will write over what p writes    *)
(* now, which leaves a mixture if that is longer.                          *)
WriteConfig(p) ==
  /\ rpc[p] \in {"write", "overwrite"}
  /\ config' = [loadedConfig[p] EXCEPT ![req[p].r] = token[p]]
  /\ truncated' \in (IF rpc[p] = "overwrite" THEN BOOLEAN ELSE {FALSE})
  /\ lost' = LostBy(p)
  /\ rpc' = [q \in Clients |-> IF q = p THEN "idle" ELSE IF rpc[q] = "write" THEN "overwrite" ELSE rpc[q]]
  /\ Forgets(p)
  /\ UNCHANGED <<tokenCache, loaded, cacheFile, issued, expired, saver, tokensCopy, starting>>

(* A read or a write fails, or the file does not parse. *)
SetRegistryAuthFails(p) ==
  /\ rpc[p] \in AuthSteps
  /\ lost' = lost \union {req[p].r}
  /\ RequestEnds(p)
  /\ UNCHANGED <<tokenCache, loaded, cacheFile, config, truncated, issued, expired,
                 saver, tokensCopy, starting>>

-----------------------------------------------------------------------------
(* saveTokenCache gives up if the last save was less than 30 seconds ago   *)
(* (lastCacheSync, either answer here); otherwise it copies the cache of   *)
(* its manager, and writes the file later, with nothing of what the other  *)
(* manager has saved.                                                      *)
CopyTokens(p) ==
  /\ saver[p] \in Managers
  /\ \/ /\ tokensCopy' = [tokensCopy EXCEPT ![p] = tokenCache[saver[p]]]
        /\ saver' = [saver EXCEPT ![p] = "save"]
     \/ saver' = [saver EXCEPT ![p] = "none"] /\ UNCHANGED tokensCopy
  /\ UNCHANGED <<tokenCache, loaded, cacheFile, config, truncated, issued, expired,
                 rpc, req, token, loadedConfig, starting, lost>>

(* A write that fails may leave a file that cannot be read. *)
SaveTokenCache(p) ==
  /\ saver[p] = "save"
  /\ cacheFile' \in {CleanExpiredTokens(tokensCopy[p]), cacheFile, NoTokens}
  /\ saver' = [saver EXCEPT ![p] = "none"]
  /\ tokensCopy' = [tokensCopy EXCEPT ![p] = NoTokens]
  /\ UNCHANGED <<tokenCache, loaded, config, truncated, issued, expired, rpc, req, token,
                 loadedConfig, starting, lost>>

-----------------------------------------------------------------------------
(* Time goes by: the oldest token expires.  (Bound: not the last one, with *)
(* no other to follow.)                                                    *)
Expire ==
  /\ expired < issued /\ expired + 1 < MaxTokens
  /\ expired' = expired + 1
  /\ UNCHANGED <<tokenCache, loaded, cacheFile, config, truncated, issued,
                 rpc, req, token, loadedConfig, saver, tokensCopy, starting, lost>>

(* dsagent dies and is started again; the files remain as they are. *)
Restart ==
  /\ loaded # {}
  /\ tokenCache' = [m \in Managers |-> NoTokens]
  /\ loaded' = {}
  /\ rpc' = [p \in Clients |-> "idle"]
  /\ req' = [p \in Clients |-> NoRequest]
  /\ token' = [p \in Clients |-> 0]
  /\ loadedConfig' = [p \in Clients |-> NoTokens]
  /\ saver' = [p \in Clients |-> "none"]
  /\ tokensCopy' = [p \in Clients |-> NoTokens]
  /\ starting' = {}
  /\ lost' = {}
  /\ UNCHANGED <<cacheFile, config, truncated, issued, expired>>

RequestStep(p) ==
  \/ GetECRToken(p) \/ CacheToken(p) \/ LoadConfig(p) \/ TruncateConfig(p) \/ WriteConfig(p)
  \/ SetRegistryAuthFails(p)

EcrNext ==
  \/ \E p \in Clients :
       \/ RequestStep(p) \/ CopyTokens(p) \/ SaveTokenCache(p)
       \/ \E s \in starting : StartedAuth(p, s)
       \/ \E m \in Managers, r \in Registries : AutoLogin(p, m, r)
  \/ \E m \in Managers : LoadPersistedTokens(m)
  \/ Expire \/ Restart

EcrSpec == EcrInit /\ [][EcrNext]_ecrVars

-----------------------------------------------------------------------------
EcrTypeOK ==
  /\ tokenCache \in [Managers -> [Registries -> Token]]
  /\ loaded \subseteq Managers
  /\ cacheFile \in [Registries -> Token] /\ config \in [Registries -> Token] /\ truncated \in BOOLEAN
  /\ issued \in 0..MaxTokens /\ expired \in 0..issued
  /\ rpc \in [Clients -> RequestSteps] /\ req \in [Clients -> Request]
  /\ token \in [Clients -> Token] /\ loadedConfig \in [Clients -> [Registries -> Token]]
  /\ saver \in [Clients -> Managers \union {"save", "none"}]
  /\ tokensCopy \in [Clients -> [Registries -> Token]]
  /\ starting \subseteq [m : Managers, r : Registries, t : Token]
  /\ lost \subseteq Registries

(* When AutoLogin would answer "Using cached ECR token", config.json has a *)
(* valid token for the registry, which the pull that follows will read:    *)
(* the cache and the file agree across expiry, restarts, the two managers, *)
(* the goroutines that enter persisted tokens, and a cache file that only  *)
(* holds what one manager knew.  They disagree only by what lost records:  *)
(* a SetRegistryAuth that failed, one that had read the file before        *)
(* another wrote it, and an older token entered after a newer one.         *)
LoginUsable ==
  \A m \in Managers, r \in Registries \ (InFlight \union lost) :
    IsTokenValid(tokenCache[m][r]) /\ ~truncated => IsTokenValid(config[r])
=============================================================================
