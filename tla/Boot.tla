-------------------------------- MODULE Boot --------------------------------
(***************************************************************************)
(* Starting the server (src/src/index.ts): loadConfig judges the settings  *)
(* of the environment, reports everything it objects to, and freezes what  *)
(* it accepts; a development process invents the keys it is not given.  An *)
(* operator edits the settings, and repairs what a report names.           *)
(* A setting has one value for every judgement the code can pass on it,    *)
(* and the key in a variable is named after the variable.                  *)
(***************************************************************************)
EXTENDS Naturals

CONSTANTS
    MaxEdits, \* bound: edits by the operator, and outages of key sources
    MaxBoots  \* bound: starts of the process

KeyNames == {"ENCRYPTION_KEY", "DOCUMENT_ENCRYPTION_KEY", "MASTER_KEK"}
Sources == {"file", "command"}
Judgements == {"missing", "malformed", "key"}

\* The variables that point at a key, for each KEY_SOURCE.
Pointer ==
    [file |-> [ENCRYPTION_KEY |-> "ENCRYPTION_KEY_FILE", MASTER_KEK |-> "MASTER_KEK_FILE",
               DOCUMENT_ENCRYPTION_KEY |-> "DOCUMENT_ENCRYPTION_KEY_FILE"],
     command |-> [ENCRYPTION_KEY |-> "ENCRYPTION_KEY_COMMAND", MASTER_KEK |-> "MASTER_KEK_COMMAND",
                  DOCUMENT_ENCRYPTION_KEY |-> "DOCUMENT_ENCRYPTION_KEY_COMMAND"]]
KeyVariables ==
    KeyNames \cup {"ENCRYPTION_KEY_FILE", "DOCUMENT_ENCRYPTION_KEY_FILE", "MASTER_KEK_FILE",
                  "ENCRYPTION_KEY_COMMAND", "DOCUMENT_ENCRYPTION_KEY_COMMAND", "MASTER_KEK_COMMAND"}

\* APP_PORT stands for every variable that only envSchema judges, OIDC and SAML for
\* the four variables of their groups.
PlainChoices ==
    [APP_ENV |-> {"production", "development"}, APP_PORT |-> {"valid", "malformed"},
     DATABASE_URL |-> {"missing", "trivial", "plain", "tls"},
     DB_ALLOW_INSECURE |-> {"missing", "true"}, SECURE_COOKIES |-> {"missing", "false"},
     COOKIE_SECRET |-> {"missing", "weak", "strong"},
     SESSION_SECRET |-> {"missing", "weak", "strong"},
     CORS_ALLOWED_ORIGINS |-> {"missing", "wildcard", "listed"},
     APP_BASE_URL |-> {"missing", "set"}, LLM_PROVIDERS |-> {"missing", "malformed", "p1"},
     LLM_DEFAULT_PROVIDER |-> {"missing", "p1", "p2"},
     OIDC |-> {"missing", "partial", "all"}, SAML |-> {"missing", "partial", "all"},
     EMBEDDING_PROVIDER |-> {"local", "openai"}, OLLAMA_BASE_URL |-> {"missing", "set"},
     OPENAI_API_KEY |-> {"missing", "set"}, KEY_SOURCE |-> {"env"} \cup Sources]
Choices ==
    [v \in KeyVariables \cup DOMAIN PlainChoices |->
        IF v \in KeyVariables THEN Judgements ELSE PlainChoices[v]]

\* A value of every setting that loadConfig accepts in production.
PlainSound ==
    [APP_ENV |-> "production", APP_PORT |-> "valid", DATABASE_URL |-> "tls",
     DB_ALLOW_INSECURE |-> "missing", SECURE_COOKIES |-> "missing",
     COOKIE_SECRET |-> "strong", SESSION_SECRET |-> "strong",
     CORS_ALLOWED_ORIGINS |-> "listed", APP_BASE_URL |-> "set", LLM_PROVIDERS |-> "p1",
     LLM_DEFAULT_PROVIDER |-> "missing", OIDC |-> "missing", SAML |-> "missing",
     EMBEDDING_PROVIDER |-> "local", OLLAMA_BASE_URL |-> "set",
     OPENAI_API_KEY |-> "set", KEY_SOURCE |-> "env"]
Sound ==
    [v \in DOMAIN Choices |-> IF v \in KeyNames THEN "key"
                              ELSE IF v \in KeyVariables THEN "missing" ELSE PlainSound[v]]

\* The same, with keys K moved to source s and their inline variables left in place.
Moved(s, K) ==
    [v \in DOMAIN Choices |-> IF v = "KEY_SOURCE" THEN s
                              ELSE IF v \in {Pointer[s][k] : k \in K} THEN "key" ELSE Sound[v]]

\* A deployment keeps its keys in the environment, or all or one of them in a source.
Deployed == {Sound, Moved("command", KeyNames), Moved("file", {"ENCRYPTION_KEY"})}

VARIABLES
    env,      \* the settings, as the operator left them
    outage,   \* the key sources that cannot be read now
    process,  \* the process and its frozen configuration
    report,   \* the variables the last refused start named
    sealed,   \* what was encrypted, with the key and the settings of its process
    edits,    \* edits and outages so far (bounded by MaxEdits)
    boots,    \* starts so far (bounded by MaxBoots)
    repaired  \* history: what the last repair could see of the faults

bootVars == <<env, outage, process, report, sealed, edits, boots, repaired>>

Down == [up |-> FALSE]

Init ==
    /\ env \in Deployed /\ outage = {} /\ process = Down /\ report = {} /\ sealed = {}
    /\ edits = 0 /\ boots = 0 /\ repaired = "nothing"

isProduction == env.APP_ENV = "production"

\* resolveKeyMaterial: a pointer that is set is followed, never replaced.
Designated(e, k) ==
    IF e.KEY_SOURCE # "env" /\ e[Pointer[e.KEY_SOURCE][k]] # "missing"
      THEN Pointer[e.KEY_SOURCE][k] ELSE k

\* A key that is not designated inline is read from the source.
Unreadable(k) == Designated(env, k) # k /\ env.KEY_SOURCE \in outage

\* Mutant: what cannot be read is taken from the variable of the key itself.
PickedOrInline(k) == IF Unreadable(k) THEN k ELSE Designated(env, k)

\* pick: readKeyFile and readKeyCommand throw.
Picked(k) == IF Unreadable(k) THEN "throws" ELSE Designated(env, k)

\* One key that cannot be read, and none is resolved.
readFails == \E k \in KeyNames : Picked(k) = "throws"

\* parseEncryptionKey of what was resolved.
Parsed(k) == ~readFails /\ env[Picked(k)] = "key"

REQUIRED_IN_PRODUCTION ==
    {"DATABASE_URL", "COOKIE_SECRET", "SESSION_SECRET", "CORS_ALLOWED_ORIGINS", "APP_BASE_URL"}

missingIssues == {v \in REQUIRED_IN_PRODUCTION : env[v] = "missing"}

\* assessSecret
secretIssues == {v \in {"COOKIE_SECRET", "SESSION_SECRET"} : env[v] # "strong"}

corsIssues == {v \in {"CORS_ALLOWED_ORIGINS"} : env[v] # "listed"}

\* Judged only when there is a URL.
databaseIssues ==
    {v \in {"DATABASE_URL", "DB_ALLOW_INSECURE"} :
        /\ env.DATABASE_URL # "missing"
        /\ CASE v = "DB_ALLOW_INSECURE" -> env[v] = "true"
             [] OTHER -> \/ env[v] = "trivial"
                         \/ env[v] = "plain" /\ env.DB_ALLOW_INSECURE # "true"}

cookieIssues == {v \in {"SECURE_COOKIES"} : env[v] = "false"}

providerIssues ==
    {v \in {"LLM_PROVIDERS", "LLM_DEFAULT_PROVIDER"} :
        \/ v = "LLM_PROVIDERS" /\ env[v] = "malformed"
        \/ v = "LLM_DEFAULT_PROVIDER" /\ env[v] \notin {"missing", env.LLM_PROVIDERS}}

\* Mutant: a production process falls back to an ephemeral key when it is given none.
keyIssuesOfGiven == {k \in KeyNames : ~Parsed(k) /\ env[Designated(env, k)] # "missing"}

keyIssues == {k \in KeyNames : ~Parsed(k)}

oidcIssues == {v \in {"OIDC"} : env[v] = "partial"}

\* Mutant: the check of a group is skipped after a fault in the one before it.
samlIssuesAfterOidc == {v \in {"SAML"} : env[v] = "partial" /\ env.OIDC # "partial"}

samlIssues == {v \in {"SAML"} : env[v] = "partial"}

embeddingIssues ==
    {v \in {"OLLAMA_BASE_URL", "OPENAI_API_KEY"} :
        /\ env[v] = "missing"
        /\ env.EMBEDDING_PROVIDER = IF v = "OPENAI_API_KEY" THEN "openai" ELSE "local"}

productionIssues ==
    missingIssues \cup secretIssues \cup corsIssues \cup databaseIssues
    \cup cookieIssues \cup keyIssues \cup embeddingIssues

\* The issues of loadConfig: those of the schema, or else all the others.
issues ==
    IF env.APP_PORT = "malformed" THEN {"APP_PORT"}
    ELSE {v \in {"KEY_SOURCE"} : readFails} \cup providerIssues \cup oidcIssues \cup samlIssues
         \cup IF isProduction THEN productionIssues ELSE {}

\* The frozen configuration: the key that was read, or an ephemeral one.
config ==
    [up |-> TRUE, production |-> isProduction,
     designated |-> [k \in KeyNames |-> Designated(env, k)],
     keys |-> [k \in KeyNames |-> IF Parsed(k) THEN <<Picked(k), 0>>
                                                ELSE <<"random", boots + 1>>]]

\* main: exits when loadConfig throws.
Start ==
    /\ ~process.up
    /\ boots < MaxBoots /\ boots' = boots + 1
    /\ process' = IF issues = {} THEN config ELSE Down
    /\ report' = issues
    /\ UNCHANGED <<env, outage, sealed, edits, repaired>>

Stop ==
    /\ process.up /\ process' = Down
    /\ UNCHANGED <<env, outage, report, sealed, edits, boots, repaired>>

\* A secret, a document or a data key is encrypted under a key of the configuration.
Seal(k) ==
    /\ process.up
    /\ sealed' = sealed \cup {[name |-> k, key |-> process.keys[k],
                               production |-> process.production,
                               designated |-> process.designated[k]]}
    /\ UNCHANGED <<env, outage, process, report, edits, boots, repaired>>

\* The environment -- the operator, and the store the keys are fetched from.
Disturb == edits < MaxEdits /\ edits' = edits + 1 /\ report' = {} /\ repaired' = "nothing"

Edit(v, x) ==
    /\ Disturb /\ x # env[v]
    /\ env' = [env EXCEPT ![v] = x]
    /\ UNCHANGED <<outage, process, sealed, boots>>

Fail(s) ==
    /\ Disturb
    /\ outage' = IF s \in outage THEN outage \ {s} ELSE outage \cup {s}
    /\ UNCHANGED <<env, process, sealed, boots>>

\* The faults a report cannot name: what the schema hides by throwing first, the flag
\* without a URL to judge it beside, the URL whose check the flag waives, and what an
\* unreadable source holds.
hidden ==
    \/ env.APP_PORT = "malformed"
    \/ env.DB_ALLOW_INSECURE = "true" /\ env.DATABASE_URL \in {"missing", "plain"}
    \/ readFails

\* The operator repairs everything the report names, and nothing else; a source that
\* could not be read is repaired or given up for the environment.
Repair(e) ==
    /\ report # {}
    /\ LET named == {IF v \in KeyNames THEN Designated(e, v) ELSE v : v \in report \ {"KEY_SOURCE"}}
       IN  env' = [v \in DOMAIN e |-> IF v \notin named THEN e[v]
                                      ELSE IF v \in KeyVariables THEN "key" ELSE Sound[v]]
    /\ outage' = IF e = env /\ "KEY_SOURCE" \in report THEN {} ELSE outage
    /\ report' = {}
    /\ repaired' = IF hidden THEN "some" ELSE "all"
    /\ UNCHANGED <<process, sealed, edits, boots>>

Repairs == {env} \cup {[env EXCEPT !.KEY_SOURCE = "env"] : v \in report \cap {"KEY_SOURCE"}}

Next ==
    \/ Start \/ Stop
    \/ \E k \in KeyNames : Seal(k)
    \/ \E v \in DOMAIN Choices : \E x \in Choices[v] : Edit(v, x)
    \/ \E s \in Sources : Fail(s)
    \/ \E e \in Repairs : Repair(e)

Spec == Init /\ [][Next]_bootVars
-----------------------------------------------------------------------------
\* Every variable keeps its type.
TypeOK ==
    /\ DOMAIN env = DOMAIN Choices /\ \A v \in DOMAIN env : env[v] \in Choices[v]
    /\ outage \subseteq Sources
    /\ process.up => /\ process.production \in BOOLEAN
                     /\ DOMAIN process.keys = KeyNames
                     /\ \A k \in KeyNames : process.designated[k] \in KeyVariables
    /\ report \subseteq DOMAIN Choices
    /\ \A s \in sealed : s.name \in KeyNames /\ s.designated \in KeyVariables
    /\ edits \in 0 .. MaxEdits /\ boots \in 0 .. MaxBoots
    /\ repaired \in {"nothing", "some", "all"}

\* What one production process encrypted, every later one whose settings designate the
\* same key can decrypt, whatever was edited and whichever source failed in between:
\* no fallback and no ephemeral key (config.ts:246-267, keySource.ts:42-43).
SealedDataStaysReadable ==
    process.up /\ process.production =>
        \A s \in sealed :
            s.production /\ s.designated = process.designated[s.name] =>
                s.key = process.keys[s.name]

\* An operator who repairs all a refused start named succeeds with the next one, unless
\* the settings held one of the hidden faults (config.ts:105, ConfigError "aggregates
\* ALL problems so an operator can fix them in one pass").
ReportsAreComplete == repaired = "all" => report = {}
=============================================================================
