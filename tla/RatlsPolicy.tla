----------------------------- MODULE RatlsPolicy -----------------------------
(***************************************************************************)
(* What the sample programs (crate ratls-sample) check of an attested      *)
(* peer: its initial measurement, its platform software, its measured-boot *)
(* event log and its IMA log.                                              *)
(*                                                                         *)
(* A log is the sequence of its records.  The text of a boot event is the  *)
(* set of the substrings the program looks for.  An operation that fails   *)
(* returns None, a check that fails is FALSE.                              *)
(***************************************************************************)
EXTENDS RatlsEvidence

(***************************************************************************)
(* Platform policy: every entry of the policy is met by some component.    *)
(***************************************************************************)
is_wildcard(value) == value \in {"", "-", "*"}

text_matches(expected, actual) == is_wildcard(expected) \/ expected = actual

hash_alg_matches(expected, actual) ==
    \/ text_matches(expected, actual)
    \/ <<expected, actual>> \in {<<"sha256", "sha-256">>, <<"sha384", "sha-384">>,
                                 <<"sha512", "sha-512">>}

load_platform_policy(policy) ==
    /\ policy # {}
    /\ \A expected \in policy : expected.measurement # ""

verify_platform_policy(policy, sw_components) ==
    /\ load_platform_policy(policy)
    /\ \A expected \in policy : \E actual \in sw_components :
          /\ text_matches(expected.name, actual.type)
          /\ text_matches(expected.version, actual.version)
          /\ hash_alg_matches(expected.hash_alg, actual.hash_alg)
          /\ actual.measurement = expected.measurement
          /\ text_matches(expected.signer_id, actual.signer_id)

(***************************************************************************)
(* The measured-boot event log.                                            *)
(***************************************************************************)
TPM_ALG == {"sha1", "sha256", "sha384", "sha512"}

\* The log ends at a record whose first two words are 0 or u32::MAX.
Terminator == {<<0, "0">>, <<-1, "u32::MAX">>}

\* The table is the sequence of its fields, the signature first.
parse_ccel_table(table) == table # <<>> /\ table[1] = "CCEL"

\* A record: [registry, event_type, digests (algorithm to digest), event].
EndOfLog(log) ==
    LET at == Position({i \in DOMAIN log :
                           <<log[i].registry, log[i].event_type>> \in Terminator})
    IN  IF at = None THEN Len(log) ELSE at - 1

parse_event_log(log) ==
    LET entries == SubSeq(log, 1, EndOfLog(log))
        spec(i) == i = 1 /\ entries[i].event_type = "EV_NO_ACTION"
    IN  IF \/ entries = <<>>
           \/ \E i \in DOMAIN entries :
                 IF spec(i) THEN "Spec ID Event03" \notin entries[i].event
                 ELSE \/ Cardinality(DOMAIN entries[i].digests) \notin 1 .. 16
                      \/ ~(DOMAIN entries[i].digests \subseteq TPM_ALG)
        THEN None
        ELSE [i \in DOMAIN entries |->
                 IF spec(i) THEN [entries[i] EXCEPT !.digests = <<>>] ELSE entries[i]]

Sha256Of(entry) ==
    IF "sha256" \in DOMAIN entry.digests THEN entry.digests["sha256"] ELSE None

sha256_two(first, second) == sha256(<<first, second>>)

ZeroRegister == [zeros |-> 32]

\* A measurement register after the sha256 digests of one registry, in order.
Replay(entries, registry) ==
    LET upto[i \in 0 .. Len(entries)] ==
          IF i = 0 THEN ZeroRegister
          ELSE IF entries[i].registry # registry \/ Sha256Of(entries[i]) = None
          THEN upto[i - 1]
          ELSE sha256_two(upto[i - 1], Sha256Of(entries[i]))
    IN  upto[Len(entries)]

\* Mutant of replay_boot_registries_1_2: the registers are replayed and not compared.
replay_boot_registries_uncompared(entries, expected_rem) ==
    \A registry \in 1 .. 2 :
        /\ \E i \in DOMAIN entries :
              entries[i].registry = registry /\ Sha256Of(entries[i]) # None
        /\ registry \in DOMAIN expected_rem

replay_boot_registries_1_2(entries, expected_rem) ==
    \A registry \in 1 .. 2 :
        /\ \E i \in DOMAIN entries :
              entries[i].registry = registry /\ Sha256Of(entries[i]) # None
        /\ registry \in DOMAIN expected_rem
        /\ expected_rem[registry] = Replay(entries, registry)

\* The two registers of the verified claims, if they are SHA-256 measurements.
verified_boot_rems_from_claims(claims) ==
    IF claims.rem_size # 32 THEN None ELSE SubSeq(claims.cca_realm_rem, 1, 2)

extract_firmware_state(entries) ==
    LET measures(i, text) ==
            text \in entries[i].event /\ "grub_cmd:" \notin entries[i].event
        upto[i \in 0 .. Len(entries)] ==
            IF i = 0
            THEN [efi_images |-> {}, grub_config |-> None, kernel |-> None,
                  initramfs |-> None]
            ELSE LET state == upto[i - 1]
                     digest == Sha256Of(entries[i])
                 IN  IF digest = None THEN state
                     ELSE IF entries[i].event_type = "EV_EFI_BOOT_SERVICES_APPLICATION"
                     THEN [state EXCEPT !.efi_images = @ \cup {digest}]
                     ELSE IF entries[i].event_type # "EV_IPL" THEN state
                     ELSE IF state.grub_config = None /\ "grub.cfg" \in entries[i].event
                     THEN [state EXCEPT !.grub_config = digest]
                     ELSE IF state.kernel = None /\ measures(i, "/vmlinuz-")
                     THEN [state EXCEPT !.kernel = digest]
                     ELSE IF state.initramfs = None /\ measures(i, "/initramfs-")
                     THEN [state EXCEPT !.initramfs = digest]
                     ELSE state
    IN  upto[Len(entries)]

verify_and_extract_firmware_state(entries, expected_rem) ==
    IF replay_boot_registries_1_2(entries, expected_rem)
    THEN extract_firmware_state(entries) ELSE None

\* A digest that is not 64 hexadecimal digits is the empty one.
load_firmware_baseline(baseline) ==
    /\ baseline.hash_alg = "sha-256"
    /\ baseline.grub # "" /\ baseline.grub_cfg # ""
    /\ \A entry \in baseline.kernels :
          entry.kernel \notin {""} /\ entry.initramfs \notin {""}

\* A digest missing on either side matches.
verify_firmware_baseline(baseline, state) ==
    /\ load_firmware_baseline(baseline)
    /\ baseline.grub \in state.efi_images
    /\ baseline.grub_cfg = state.grub_config
    /\ \E entry \in baseline.kernels :
          /\ None \in {state.kernel, entry.kernel} \/ state.kernel = entry.kernel
          /\ \/ None \in {state.initramfs, entry.initramfs}
             \/ state.initramfs = entry.initramfs

(***************************************************************************)
(* The IMA log: every measured file is one of the baseline.                *)
(***************************************************************************)
parse_algorithm(text) == text \in {"sha1", "sha256"}

parse_ima_identity(identity) ==
    IF ~parse_algorithm(identity.algorithm) \/ identity.path = "" THEN None ELSE identity

parse_binary_ima_log(log) ==
    IF \/ log = <<>>
       \/ \E i \in DOMAIN log :
             \/ log[i].template \notin {"ima-ng", "ima-sig", "ima-buf"}
             \/ log[i].header_digest # log[i].template_digest
             \/ parse_ima_identity(log[i].identity) = None
    THEN None
    ELSE [i \in DOMAIN log |-> parse_ima_identity(log[i].identity)]

\* The digest baseline of the client, one identity per line.
LoadImaBaseline(baseline) ==
    /\ baseline # {}
    /\ \A identity \in baseline :
          parse_algorithm(identity.algorithm) /\ identity.path # ""

verify_entries(baseline, identities) ==
    \A i \in DOMAIN identities :
        identities[i].path # "boot_aggregate" => identities[i] \in baseline

(***************************************************************************)
(* The verification callback of a handle.  A C application's callback is   *)
(* its return value; that of a sample program is the policy it captured.   *)
(***************************************************************************)
PolicyCallback(policy, claims) ==
    /\ policy.rim # None => claims.cca_realm_rim = policy.rim
    /\ policy.platform # None =>
          verify_platform_policy(policy.platform, claims.cca_platform_sw_components)
    /\ policy.boot_log => verified_boot_rems_from_claims(claims) # None

verify_user_callback(callback, claims) ==
    \/ callback = None
    \/ callback # None /\ callback.by = "application" /\ callback.rc # 0
    \/ callback # None /\ callback.by = "sample" /\ PolicyCallback(callback, claims)
==============================================================================
