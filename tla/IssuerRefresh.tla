---------------------------- MODULE IssuerRefresh ----------------------------
(***************************************************************************)
(* Issuer of the legacy server (src/src/auth/issuer_handler.rs): the      *)
(* decoding keys of one token issuer, the JWKS refresh with its 5-minute  *)
(* limit, and check_token, which refreshes once on an unknown key id.     *)
(* check_token takes &mut self, so the checks of one issuer run one at a  *)
(* time. The OIDC provider's endpoint is part of the environment: it      *)
(* publishes a key set that rotates, and a fetch of it can fail.          *)
(* Only the time since the last refresh matters to the code, so the clock *)
(* is `elapsed`, in minutes, saturated at the window.                     *)
(***************************************************************************)
EXTENDS Naturals, FiniteSets

CONSTANTS
    Kids,             \* key ids the provider may publish
    NoKid,            \* a token whose header carries no kid
    Window,           \* chrono::Duration::minutes(5), in minutes
    MaxRotations,     \* bound on key rotations by the provider
    MaxFetchFailures  \* bound on failed JWKS fetches

ASSUME NoKid \notin Kids /\ Window \in Nat \ {0}

\* issuer_handler.rs IssuerType
IssuerTypes == {"ARUNA", "DATAPROXY", "OIDC"}

Outcomes == {"none", "ok", "no_kid", "invalid", "too_soon", "not_oidc",
             "no_endpoint", "fetch_failed", "no_key"}

VARIABLES
    keys,          \* the key ids of decoding_keys
    elapsed,       \* minutes since last_updated, at most Window
    issuerType,    \* issuer_type
    endpoint,      \* whether pubkey_endpoint is Some
    published,     \* the key ids the provider's JWKS endpoint serves
    rotations,     \* key rotations so far
    fetchFailures, \* failed fetches so far
    response       \* what the last check_token returned

vars == <<keys, elapsed, issuerType, endpoint, published, rotations,
          fetchFailures, response>>

-----------------------------------------------------------------------------
(* The code                                                                *)

\* Issuer::find: a decoding key with the token's kid.
Find(kid) == kid \in keys

\* Mutant: the JWKs without a kid are kept (as keys under NoKid).
FetchJwksUnfiltered == published \cup {NoKid}

\* Issuer::fetch_jwks, when the GET succeeds: the keys of the JWKS that
\* carry a kid (filter_map drops the others), stamped with the time of the
\* fetch.
FetchJwks == published

\* `self.last_updated + chrono::Duration::minutes(5) > Utc::now()`
UpdatedRecently == elapsed < Window

\* Mutant: the refresh stamps the time but keeps the old keys.
RefreshJwksKeepingKeys(kid, valid) ==
    /\ keys' = keys
    /\ elapsed' = 0
    /\ response' = IF Find(kid) THEN (IF valid THEN "ok" ELSE "invalid") ELSE "no_key"
    /\ UNCHANGED fetchFailures

\* Issuer::refresh_jwks, its fetch succeeding, followed by the second
\* find and get_validate_claims of check_token.
RefreshJwks(kid, valid) ==
    /\ keys' = FetchJwks
    /\ elapsed' = 0
    /\ response' = IF kid \in FetchJwks
                   THEN (IF valid THEN "ok" ELSE "invalid") ELSE "no_key"
    /\ UNCHANGED fetchFailures

\* Issuer::check_token for a token with header kid `kid`; `valid` is
\* whether get_validate_claims accepts its signature, audience and expiry.
CheckToken(kid, valid) ==
    /\ \/ /\ kid = NoKid                                   \* no kid in header
          /\ response' = "no_kid"
          /\ UNCHANGED <<keys, elapsed, fetchFailures>>
       \/ /\ kid # NoKid /\ Find(kid)
          /\ response' = IF valid THEN "ok" ELSE "invalid"
          /\ UNCHANGED <<keys, elapsed, fetchFailures>>
       \/ /\ kid # NoKid /\ ~Find(kid)
          /\ \/ /\ UpdatedRecently
                /\ response' = "too_soon"
                /\ UNCHANGED <<keys, elapsed, fetchFailures>>
             \/ /\ ~UpdatedRecently /\ issuerType # "OIDC"
                /\ response' = "not_oidc"
                /\ UNCHANGED <<keys, elapsed, fetchFailures>>
             \/ /\ ~UpdatedRecently /\ issuerType = "OIDC" /\ ~endpoint
                /\ response' = "no_endpoint"
                /\ UNCHANGED <<keys, elapsed, fetchFailures>>
             \/ /\ ~UpdatedRecently /\ issuerType = "OIDC" /\ endpoint
                /\ fetchFailures < MaxFetchFailures        \* the GET fails
                /\ fetchFailures' = fetchFailures + 1
                /\ response' = "fetch_failed"
                /\ UNCHANGED <<keys, elapsed>>
             \/ /\ ~UpdatedRecently /\ issuerType = "OIDC" /\ endpoint
                /\ RefreshJwks(kid, valid)
    /\ UNCHANGED <<issuerType, endpoint, published, rotations>>

-----------------------------------------------------------------------------
(* The environment                                                         *)

\* The provider rotates its signing keys.
Rotate ==
    /\ rotations < MaxRotations
    /\ \E ks \in SUBSET Kids \ {{}, published} : published' = ks
    /\ rotations' = rotations + 1
    /\ UNCHANGED <<keys, elapsed, issuerType, endpoint, fetchFailures, response>>

\* A minute passes.
Tick ==
    /\ elapsed' = IF elapsed < Window THEN elapsed + 1 ELSE Window
    /\ UNCHANGED <<keys, issuerType, endpoint, published, rotations,
                   fetchFailures, response>>

-----------------------------------------------------------------------------
\* Issuer::new_with_endpoint fetches the provider's keys; new_with_keys
\* takes keys given by the caller, of any type and without an endpoint.
Init ==
    /\ published \in SUBSET Kids \ {{}}
    /\ \/ /\ issuerType = "OIDC" /\ endpoint = TRUE
          /\ keys = published
       \/ /\ issuerType \in IssuerTypes /\ endpoint = FALSE
          /\ keys \in SUBSET Kids
    /\ elapsed = 0
    /\ rotations = 0
    /\ fetchFailures = 0
    /\ response = "none"

Next ==
    \/ \E kid \in Kids \cup {NoKid}, valid \in BOOLEAN : CheckToken(kid, valid)
    \/ Rotate
    \/ Tick

Spec == Init /\ [][Next]_vars

\* Time passes, and clients keep presenting valid tokens of every key id.
FairSpec ==
    /\ Spec
    /\ WF_vars(Tick)
    /\ \A kid \in Kids : WF_vars(CheckToken(kid, TRUE))

-----------------------------------------------------------------------------
(* Properties                                                              *)

TypeOK ==
    /\ keys \subseteq Kids /\ published \subseteq Kids
    /\ elapsed \in 0..Window
    /\ issuerType \in IssuerTypes /\ endpoint \in BOOLEAN
    /\ rotations \in 0..MaxRotations /\ fetchFailures \in 0..MaxFetchFailures
    /\ response \in Outcomes

\* spec.md 4.6/4.7: a key the OIDC provider publishes comes to be trusted.
\* A token with a new kid that arrives within the window is rejected, and
\* the fetch may fail, but as long as the provider keeps the key and valid
\* tokens keep arriving, check_token refreshes and takes the key in.
KeyEventuallyTrusted ==
    \A kid \in Kids :
        (issuerType = "OIDC" /\ endpoint /\ kid \in published)
            ~> (kid \in keys \/ kid \notin published)

=============================================================================
