---------------------------- MODULE RatlsEvidence ----------------------------
(***************************************************************************)
(* The data of remote attestation over TLS (crate ratls-api): what a       *)
(* configuration must satisfy, how an endpoint's claims, evidence and leaf *)
(* certificate are made, and what a peer checks of them.                   *)
(*                                                                         *)
(* Bytes are terms.  A digest is a record that holds what was digested, so *)
(* two digests are equal exactly when their inputs are.  A signature is    *)
(* the name of the key that made it.  A claims buffer is the sequence of   *)
(* its (name, value) entries, in the order of the CBOR map.  An operation  *)
(* that fails returns None, a check that fails is FALSE.                   *)
(***************************************************************************)
EXTENDS Integers, Sequences, FiniteSets

CONSTANTS
    None,
    SystemRoots     \* the certificates of the machine's own CA store

sha256(data) == [sha256 |-> data]

(***************************************************************************)
(* Configuration.                                                          *)
(***************************************************************************)
MAX_CUSTOM_CLAIMS == 64
MAX_CUSTOM_CLAIM_VALUE_LENGTH == 64 * 1024
MAX_CUSTOM_CLAIMS_TOTAL_VALUE_LENGTH == 256 * 1024
MAX_SUBJECT_ALT_NAMES == 64
MAX_EXPECTED_PEER_NAME_LENGTH == 253

ReservedNames == {"pubkey-hash", "client-key-share-hash", "nonce"}

validate_leaf_algorithm(conf) ==
    conf.cert_algo \in {"Rsa3072Sha256", "Ecc256Sha256"}

\* Mutant of validate_custom_claims: a custom claim may have the name of one of the library's own.
validate_custom_claims_unreserved(conf) ==
    LET claims == conf.custom_claims
    IN  /\ Len(claims) <= MAX_CUSTOM_CLAIMS
        /\ \A i \in DOMAIN claims :
              /\ claims[i].name # ""
              /\ \A j \in 1 .. i - 1 : claims[j].name # claims[i].name
              /\ claims[i].length <= MAX_CUSTOM_CLAIM_VALUE_LENGTH

\* A claim is its name, the length of its value and the value; a name that is
\* empty, too long or holds a control character is the empty name.
validate_custom_claims(conf) ==
    LET claims == conf.custom_claims
        total[i \in 0 .. Len(claims)] ==
            IF i = 0 THEN 0 ELSE total[i - 1] + claims[i].length
    IN  /\ Len(claims) <= MAX_CUSTOM_CLAIMS
        /\ \A i \in DOMAIN claims :
              /\ claims[i].name # ""
              /\ claims[i].name \notin ReservedNames
              /\ \A j \in 1 .. i - 1 : claims[j].name # claims[i].name
              /\ claims[i].length <= MAX_CUSTOM_CLAIM_VALUE_LENGTH
              /\ total[i] <= MAX_CUSTOM_CLAIMS_TOTAL_VALUE_LENGTH

\* A DNS name is its labels' lengths; a label with a character that is not
\* allowed has length 0, as an empty one.
validate_dns_name(name, allow_wildcard) ==
    /\ name.length \in 1 .. MAX_EXPECTED_PEER_NAME_LENGTH
    /\ name.wildcard => allow_wildcard
    /\ name.labels # <<>>
    /\ \A i \in DOMAIN name.labels : name.labels[i] \in 1 .. 63

\* A URI is the lengths of its scheme and of the rest; a scheme or a rest with
\* a character that is not allowed has length 0.
validate_uri(uri) == uri.scheme > 0 /\ uri.rest > 0

\* A name that is too long, has another kind or is not an IP address is "other".
validate_subject_alt_name(san) ==
    \/ san.kind = "DNS" /\ validate_dns_name(san.name, TRUE)
    \/ san.kind = "IP"
    \/ san.kind = "URI" /\ validate_uri(san.name)

validate_certificate_configuration(conf) ==
    /\ conf.issuer_private_key = None <=> conf.issuer_certificate_chain = <<>>
    /\ Len(conf.subject_alt_names) <= MAX_SUBJECT_ALT_NAMES
    /\ \A i \in DOMAIN conf.subject_alt_names :
          validate_subject_alt_name(conf.subject_alt_names[i])

validate_tls_verification_configuration(conf) ==
    conf.verify_peer_certificate =>
        /\ conf.use_system_ca \/ conf.trusted_ca_chain # {}
        /\ \/ conf.expected_peer_name = None
           \/ conf.expected_peer_name.kind = "IP"
           \/ validate_dns_name(conf.expected_peer_name.name, FALSE)

validate_configuration(conf) ==
    /\ validate_leaf_algorithm(conf)
    /\ validate_custom_claims(conf)
    /\ validate_certificate_configuration(conf)
    /\ validate_tls_verification_configuration(conf)
    /\ conf.server => conf.attester
    /\ ~conf.server => conf.verifier
    /\ conf.mutual => conf.attester /\ conf.verifier
    /\ conf.server /\ conf.verify_peer_certificate => conf.mutual

(***************************************************************************)
(* The CA that signs an endpoint's leaf certificates, when one is          *)
(* configured: the certificate of the private key, then its issuers as far *)
(* as the bundle has them, each removed from the bundle as it is used.     *)
(***************************************************************************)
parse_signing_private_key(key) ==
    \/ key.type = "RSA" /\ key.bits >= 2048
    \/ key.type = "EC" /\ key.bits \in {256, 384, 521}
    \/ key.type \in {"ED25519", "ED448"}

validate_ca_certificate(cert) == cert.current /\ cert.ca /\ cert.key_cert_sign

is_self_signed(cert) == cert.subject = cert.issuer /\ cert.signer = cert.key

\* The first of the certificates left that satisfies the test, as in
\* Iterator::position: the least index of the set, or None.
Position(indices) ==
    IF indices = {} THEN None
    ELSE CHOOSE i \in indices : \A j \in indices : i <= j

IssuerPath(certificates, first) ==
    LET path[left \in SUBSET DOMAIN certificates, i \in DOMAIN certificates] ==
          LET current == certificates[i]
              next == Position({j \in left :
                                   /\ certificates[j].subject = current.issuer
                                   /\ certificates[j].key = current.signer})
          IN  IF is_self_signed(current) \/ next = None THEN <<current>>
              ELSE <<current>> \o path[left \ {next}, next]
    IN  path[DOMAIN certificates \ {first}, first]

prepare_certificate_issuer(private_key, certificates) ==
    LET first == Position({i \in DOMAIN certificates :
                              certificates[i].key = private_key.name})
    IN  IF ~parse_signing_private_key(private_key) \/ first = None THEN None
        ELSE LET ordered == IssuerPath(certificates, first)
                 last == ordered[Len(ordered)]
             IN  IF \E i \in DOMAIN ordered : ~validate_ca_certificate(ordered[i])
                 THEN None
                 ELSE [key |-> private_key.name, certificate |-> ordered[1],
                       chain |-> SubSeq(ordered, 1,
                                   Len(ordered) - IF last.subject = last.issuer
                                                  THEN 1 ELSE 0)]

SelfSigned == [self |-> TRUE]

\* What rats_tls_init makes of a configuration: the issuer of its leaf
\* certificates, SelfSigned when there is none, or None for an error.
PreparedIssuer(conf) ==
    IF ~validate_configuration(conf) THEN None
    ELSE IF conf.issuer_private_key = None THEN SelfSigned
    ELSE prepare_certificate_issuer(conf.issuer_private_key,
                                    conf.issuer_certificate_chain)

(***************************************************************************)
(* Claims: what binds the evidence to this endpoint's key and to this TLS  *)
(* handshake.                                                              *)
(***************************************************************************)
encode_hash_claim(digest) == <<1, digest>>

build_claims_buffer(pubkey_hash, client_key_share_hash, nonce, custom_claims) ==
    << <<"pubkey-hash", encode_hash_claim(pubkey_hash)>>,
       <<"client-key-share-hash", encode_hash_claim(client_key_share_hash)>>,
       <<"nonce", nonce>> >>
    \o [i \in DOMAIN custom_claims |->
            <<custom_claims[i].name, custom_claims[i].value>>]

\* The value of a reserved claim: every entry of that name overwrites the one
\* before it, so the last one counts.
LastClaim(buffer, name) ==
    LET at == {i \in DOMAIN buffer : buffer[i][1] = name}
    IN  IF at = {} THEN None
        ELSE buffer[CHOOSE i \in at : \A j \in at : j <= i][2]

parse_hash_claim_value(value) ==
    IF value = None THEN None ELSE [algo |-> value[1], hash |-> value[2]]

parse_claims_buffer(buffer) ==
    LET pubkey == parse_hash_claim_value(LastClaim(buffer, "pubkey-hash"))
        share == parse_hash_claim_value(LastClaim(buffer, "client-key-share-hash"))
    IN  IF pubkey = None \/ share = None THEN None
        ELSE [pubkey |-> pubkey, client_key_share |-> share,
              nonce |-> LastClaim(buffer, "nonce")]

\* The evidence and its claims travel as one tagged pair.
encode_evidence_buffer(buffer) ==
    [tag |-> buffer.tag, items |-> <<buffer.raw, buffer.claims_buffer>>]

decode_evidence_buffer(data) ==
    IF Len(data.items) # 2 THEN None
    ELSE [tag |-> data.tag, raw |-> data.items[1], claims_buffer |-> data.items[2]]

(***************************************************************************)
(* Leaf certificates.                                                      *)
(***************************************************************************)
DICE_TAGGED_EVIDENCE_OID == "2.23.133.5.4.9"

\* The extensions every leaf certificate has, in the order they are added.
append_common_x509_extensions(role, subject_alt_names) ==
    << [oid |-> "basicConstraints", value |-> "CA:FALSE"],
       [oid |-> "keyUsage", value |-> "digitalSignature"],
       [oid |-> "extendedKeyUsage",
        value |-> IF role = "server" THEN "serverAuth" ELSE "clientAuth"] >>
    \o IF subject_alt_names = <<>> THEN <<>>
       ELSE << [oid |-> "subjectAltName", value |-> subject_alt_names] >>

\* The values of a certificate's extensions with that identifier.
Extensions(cert, oid) ==
    {cert.extensions[i].value :
        i \in {j \in DOMAIN cert.extensions : cert.extensions[j].oid = oid}}

extract_evidence_extension(cert) ==
    LET at == {i \in DOMAIN cert.extensions :
                  cert.extensions[i].oid = DICE_TAGGED_EVIDENCE_OID}
    IN  IF Cardinality(at) # 1 THEN None
        ELSE cert.extensions[CHOOSE i \in at : TRUE].value

CERT_NOT_BEFORE_SKEW_SECONDS == 300
CA_SIGNED_CERT_VALIDITY_SECONDS == 86400
SELF_SIGNED_CERT_VALIDITY_SECONDS == 365 * 86400

generate_ra_certificate(key, evidence, issuer, role, subject_alt_names, now) ==
    [key |-> key, subject |-> "RA-TLS",
     issuer |-> IF issuer = SelfSigned THEN "RA-TLS" ELSE issuer.certificate.subject,
     extensions |-> append_common_x509_extensions(role, subject_alt_names)
                    \o IF evidence = None THEN <<>>
                       ELSE << [oid |-> DICE_TAGGED_EVIDENCE_OID, value |-> evidence] >>,
     signer |-> IF issuer = SelfSigned THEN key ELSE issuer.key,
     chain |-> IF issuer = SelfSigned THEN <<>> ELSE issuer.chain,
     not_before |-> now - CERT_NOT_BEFORE_SKEW_SECONDS,
     not_after |->
        IF issuer = SelfSigned THEN now + SELF_SIGNED_CERT_VALIDITY_SECONDS
        ELSE IF issuer.certificate.not_after < now + CA_SIGNED_CERT_VALIDITY_SECONDS
        THEN issuer.certificate.not_after
        ELSE now + CA_SIGNED_CERT_VALIDITY_SECONDS]

\* Extensions are terms, so none of them is one OpenSSL cannot read.
validate_peer_certificate_basics(cert, role, now) ==
    /\ cert.not_before <= now
    /\ now <= cert.not_after
    /\ "CA:FALSE" \in Extensions(cert, "basicConstraints")
    /\ "digitalSignature" \in Extensions(cert, "keyUsage")
    /\ (IF role = "server" THEN "serverAuth" ELSE "clientAuth")
           \in Extensions(cert, "extendedKeyUsage")
    /\ cert.subject = cert.issuer => cert.signer = cert.key

\* OpenSSL's chain building: from the leaf through the certificates that came
\* with it to a self-signed certificate of the store.
ChainsTo(cert, root) ==
    LET chain == cert.chain
        signer(i) == IF i = 0 THEN cert.signer ELSE chain[i].signer
    IN  /\ is_self_signed(root)
        /\ \A i \in DOMAIN chain : chain[i].key = signer(i - 1)
        /\ signer(Len(chain)) = root.key

\* OpenSSL's comparison of an expected name with an alternative name of the
\* certificate: a wildcard stands for the whole first label.
NameMatches(name, san) ==
    \/ san = name
    \/ /\ name.kind = "DNS" /\ san.kind = "DNS" /\ san.name.wildcard
       /\ Tail(name.name.labels) = san.name.labels

\* The verification OpenSSL does during the handshake: with
\* verify_peer_certificate the chain, up to a root of the configuration or of
\* the machine, and the name must hold; without it the errors of trust are
\* ignored.  Of the others only those of the dates can be met, the certificates
\* of these programs being well formed.
PeerCertificateTrusted(conf, cert, now) ==
    LET roots == conf.trusted_ca_chain
                 \cup IF conf.use_system_ca THEN SystemRoots ELSE {}
    IN  /\ cert.not_before <= now /\ now <= cert.not_after
        /\ conf.verify_peer_certificate =>
              /\ \E root \in roots : ChainsTo(cert, root)
              /\ \/ conf.expected_peer_name = None
                 \/ \E names \in Extensions(cert, "subjectAltName") :
                       \E i \in DOMAIN names :
                          NameMatches(conf.expected_peer_name, names[i])

(***************************************************************************)
(* Evidence of Arm CCA: the token of the platform and of the realm, and    *)
(* the device certificate.  TsmReport is the machine's answer to a         *)
(* challenge (the kernel's report directory and the firmware below it).    *)
(***************************************************************************)
EVIDENCE_TAG == 1
CBOR_TAG == 399
PLATFORM_LABEL == 44234
REALM_LABEL == 44241

\* Sizes are in units of 32 bytes: the challenge of a realm has two.
CHALLENGE_SIZE == 2
REM_ARR == 4

TsmReport(machine, challenge, rem) ==
    [token |->
        [tag |-> CBOR_TAG,
         contents |->
            << <<PLATFORM_LABEL,
                 [alg |-> machine.alg, profile |-> machine.profile,
                  challenge |-> sha256(machine.endorsed_rak),
                  lifecycle |-> machine.lifecycle,
                  sw_components |-> machine.sw_components,
                  signer |-> machine.device.key]>>,
               <<REALM_LABEL,
                 [alg |-> machine.alg, profile |-> machine.profile,
                  challenge |-> <<challenge, "zeros">>,
                  rim |-> machine.rim, rem |-> rem,
                  rem_size |-> machine.rem_size, rak |-> machine.rak,
                  rak_hash_alg |-> "sha-256", signer |-> machine.rak]>> >>],
     dev_cert |-> machine.device]

\* Each part is preceded by its length, 0 for the empty part None.
encode_raw_native(evidence) == <<evidence.token, evidence.dev_cert>>

decode_raw_native(raw) ==
    IF Len(raw) # 2 \/ raw[1] = None \/ raw[2] = None THEN None
    ELSE [token |-> raw[1], dev_cert |-> raw[2]]

verify_cert_validity(cert) == cert.current

verify_cert_by_cert(issuer, subject) == subject.signer = issuer

\* The two certificates above the device's are built in, and taken to be valid.
verify_cert_chain(dev_cert) ==
    verify_cert_validity(dev_cert) /\ verify_cert_by_cert("product CA", dev_cert)

SwComponentDecodes(component) ==
    \/ component.hash_alg = "sha-256" /\ component.size = 32
    \/ component.hash_alg = "sha-384" /\ component.size = 48
    \/ component.hash_alg = "sha-512" /\ component.size = 64

\* The two tokens of a collection; a repeated label overwrites, an unknown one
\* is skipped.
DecodeCollection(token) ==
    LET platform == LastClaim(token.contents, PLATFORM_LABEL)
        realm == LastClaim(token.contents, REALM_LABEL)
    IN  IF token.tag # CBOR_TAG \/ platform = None \/ realm = None THEN None
        ELSE [platform |-> platform, realm |-> realm]

PlatformDecodes(platform) ==
    /\ platform.lifecycle \in 0 .. 65535
    /\ \A c \in platform.sw_components : SwComponentDecodes(c)

RealmDecodes(realm) ==
    Len(realm.challenge) = CHALLENGE_SIZE /\ Len(realm.rem) = REM_ARR

ensure_es512(sign1) == sign1.alg = "ES512"

parse(token) ==
    LET collection == DecodeCollection(token)
    IN  IF \/ collection = None
           \/ ~ensure_es512(collection.platform) \/ ~ensure_es512(collection.realm)
           \/ ~PlatformDecodes(collection.platform)
           \/ ~RealmDecodes(collection.realm)
        THEN None ELSE collection

\* The signature covers the whole token: it is the signer's or nobody's.
verify_es512_signature(key, sign1) == sign1.signer = key

check_profile(claims) == claims.profile # ""

verify_platform_token(token, dev_cert) ==
    /\ check_profile(token.platform)
    /\ verify_es512_signature(dev_cert.key, token.platform)

\* Mutant of verify_nonce: only the size of the nonce is looked at.
verify_nonce_size(token, nonce) == Len(nonce) <= Len(token.realm.challenge)

\* The nonce is compared with as much of the 64-byte challenge as it covers.
verify_nonce(token, nonce) ==
    /\ Len(nonce) <= Len(token.realm.challenge)
    /\ SubSeq(token.realm.challenge, 1, Len(nonce)) = nonce

verify_rak(token) ==
    /\ token.realm.rak_hash_alg \in {"sha-256", "sha-384", "sha-512"}
    /\ token.platform.challenge = sha256(token.realm.rak)

verify_realm_token(token, nonce) ==
    /\ check_profile(token.realm)
    /\ verify_nonce(token, nonce)
    /\ verify_rak(token)
    /\ verify_es512_signature(token.realm.rak, token.realm)

crypto_verification(evidence, nonce) ==
    LET token == parse(evidence.token)
    IN  IF /\ verify_cert_chain(evidence.dev_cert)
           /\ token # None
           /\ verify_platform_token(token, evidence.dev_cert)
           /\ verify_realm_token(token, nonce)
        THEN token ELSE None

\* The claims an application sees of a verified token.
to_json_value(token) ==
    [cca_platform_sw_components |-> token.platform.sw_components,
     cca_realm_rim |-> token.realm.rim,
     cca_realm_rem |-> token.realm.rem, rem_size |-> token.realm.rem_size]

verify_ratls_claims(claims_buffer, public_key, binding) ==
    LET claims == parse_claims_buffer(claims_buffer)
    IN  /\ claims # None
        /\ claims.pubkey.algo = 1
        /\ claims.pubkey.hash = sha256(public_key)
        /\ claims.client_key_share.algo = 1
        /\ claims.client_key_share.hash = sha256(binding.client_key_share)
        /\ claims.nonce = binding.nonce

verify_input(evidence) ==
    evidence.tag = EVIDENCE_TAG /\ evidence.claims_buffer # <<>>

\* The claims of the token, or None if the evidence is rejected.
verify_evidence(evidence, public_key, binding) ==
    LET cca == decode_raw_native(evidence.raw)
        token == crypto_verification(cca, << sha256(evidence.claims_buffer) >>)
    IN  IF /\ verify_input(evidence)
           /\ cca # None
           /\ token # None
           /\ verify_ratls_claims(evidence.claims_buffer, public_key, binding)
        THEN to_json_value(token) ELSE None

verify_handshake_evidence(cert, binding) ==
    LET extension == extract_evidence_extension(cert)
        evidence == decode_evidence_buffer(extension)
    IN  IF extension = None \/ evidence = None THEN None
        ELSE verify_evidence(evidence, cert.key, binding)

(***************************************************************************)
(* The configuration of a C application: the fields of RatlsConf, or None  *)
(* for the null pointer.                                                   *)
(***************************************************************************)
RATLS_CONF_SIZE == 208

DefaultConf ==
    [attester |-> TRUE, verifier |-> TRUE, cert_algo |-> "Ecc256Sha256",
     custom_claims |-> <<>>, mutual |-> FALSE, server |-> FALSE,
     issuer_private_key |-> None, issuer_certificate_chain |-> <<>>,
     subject_alt_names |-> <<>>, verify_peer_certificate |-> FALSE,
     use_system_ca |-> FALSE, trusted_ca_chain |-> {}, expected_peer_name |-> None]

\* ratls_conf_init
InitialConf ==
    [struct_size |-> RATLS_CONF_SIZE, attester_type |-> 1, verifier_type |-> 1,
     cert_algo |-> 3, custom_claims |-> <<>>, mutual |-> 0, server |-> 0,
     issuer_private_key |-> None, issuer_certificate_chain |-> <<>>,
     subject_alt_names |-> <<>>, verify_peer_certificate |-> 0,
     use_system_ca |-> 0, trusted_ca_chain |-> {}, expected_peer_name |-> None]

cert_algorithm_from_c(value) ==
    CASE value = 0 -> "Rsa3072Sha256"
      [] value \in {1, 3} -> "Ecc256Sha256"
      [] OTHER -> None

\* None stands for the null pointer and for the empty string.
c_string_array(values, maximum_count) ==
    IF Len(values) > maximum_count \/ \E i \in DOMAIN values : values[i] = None THEN None
    ELSE values

\* A length that is not zero needs data.
buffer_from_c(claim, maximum) ==
    IF claim.length > maximum \/ (claim.length # 0 /\ claim.value = None) THEN None
    ELSE claim

custom_claims_from_c(claims) ==
    LET total[i \in 0 .. Len(claims)] ==
            IF i = 0 THEN 0 ELSE total[i - 1] + claims[i].length
    IN  IF \/ Len(claims) > MAX_CUSTOM_CLAIMS
           \/ \E i \in DOMAIN claims :
                 \/ claims[i].name = ""
                 \/ total[i] > MAX_CUSTOM_CLAIMS_TOTAL_VALUE_LENGTH
                 \/ buffer_from_c(claims[i], MAX_CUSTOM_CLAIM_VALUE_LENGTH) = None
        THEN None ELSE claims

conf_from_c(conf) ==
    IF conf = None THEN DefaultConf
    ELSE IF \/ conf.struct_size # RATLS_CONF_SIZE
            \/ ~({conf.attester_type, conf.verifier_type} \subseteq {0, 1})
            \/ cert_algorithm_from_c(conf.cert_algo) = None
            \/ custom_claims_from_c(conf.custom_claims) = None
            \/ c_string_array(conf.subject_alt_names, MAX_SUBJECT_ALT_NAMES) = None
    THEN None
    ELSE LET verifies == conf.verify_peer_certificate # 0
         IN  [attester |-> conf.attester_type = 1, verifier |-> conf.verifier_type = 1,
              cert_algo |-> cert_algorithm_from_c(conf.cert_algo),
              custom_claims |-> custom_claims_from_c(conf.custom_claims),
              mutual |-> conf.mutual # 0, server |-> conf.server # 0,
              issuer_private_key |-> conf.issuer_private_key,
              issuer_certificate_chain |-> conf.issuer_certificate_chain,
              subject_alt_names |-> conf.subject_alt_names,
              verify_peer_certificate |-> verifies,
              use_system_ca |-> verifies /\ conf.use_system_ca # 0,
              trusted_ca_chain |-> IF verifies THEN conf.trusted_ca_chain ELSE {},
              expected_peer_name |-> IF verifies THEN conf.expected_peer_name ELSE None]
==============================================================================
