------------------------------ MODULE MCRatls ------------------------------
(***************************************************************************)
(* A small instance of RatlsSample, with two connections in all: a pair of *)
(* C applications c, alone on sound machines or with an unsound client;    *)
(* the sample programs, alone on every kind of machine; or two more pairs  *)
(* of C applications, d1 and d2, which have one configuration each, side   *)
(* by side on sound machines.                                              *)
(***************************************************************************)
EXTENDS RatlsSample, TLC

CONSTANTS c, d1, d2, sample_pair

MCPair == {c, d1, d2, sample_pair}
MCSamplePair == {sample_pair}

\* d1 and d2 have the same configurations.
Alike == Permutations({d1, d2})

(***************************************************************************)
(* A root CA, an intermediate CA whose key signs leaf certificates, and a  *)
(* certificate of the bundle that is not needed.                           *)
(***************************************************************************)
Ca(subject, issuer, after) ==
    [subject |-> subject, issuer |-> issuer, key |-> subject, signer |-> issuer,
     current |-> TRUE, ca |-> TRUE, key_cert_sign |-> TRUE, not_after |-> after]

Root == Ca("root", "root", 10000000)
Intermediate == Ca("intermediate", "root", 50000)
Unused == Ca("unused", "root", 10000000)

IntermediateKey == [name |-> "intermediate", type |-> "EC", bits |-> 256]

\* The name a client expects, and the wildcard its server's certificate has.
Name == [kind |-> "DNS", name |-> [length |-> 10, wildcard |-> FALSE, labels |-> <<3, 6>>]]
Wildcard == [kind |-> "DNS", name |-> [length |-> 8, wildcard |-> TRUE, labels |-> <<6>>]]

MCSystemRoots == {Root}

\* One claim that may be used, one whose name is reserved.
Claimed(name) ==
    <<[name |-> name, length |-> 6, value |-> <<"custom">>]>>

MutualClient == [InitialConf EXCEPT !.mutual = 1, !.custom_claims = Claimed("id")]
MutualServer == [InitialConf EXCEPT !.server = 1, !.mutual = 1, !.cert_algo = 0]

MCConfsOf(e) ==
    CASE e = <<c, "client">> ->
            {MutualClient, [MutualClient EXCEPT !.custom_claims = Claimed("nonce")],
             [InitialConf EXCEPT !.verify_peer_certificate = 1,
                           !.trusted_ca_chain = {Root}, !.expected_peer_name = Name]}
      [] e = <<c, "server">> ->
            {MutualServer,
             [InitialConf EXCEPT !.server = 1, !.verifier_type = 0,
                           !.issuer_private_key = IntermediateKey,
                           !.issuer_certificate_chain = <<Unused, Root, Intermediate>>,
                           !.subject_alt_names = <<Wildcard>>]}
      [] e[1] # c /\ e[2] = "client" -> {None}
      [] e[1] # c /\ e[2] = "server" -> {[InitialConf EXCEPT !.server = 1]}

MCCallbacksOf(e) == IF e[1] = c THEN {[by |-> "application", rc |-> 0]} ELSE {}

(***************************************************************************)
(* Machines: a sound one, one whose device certificate has expired, one    *)
(* whose firmware signs realm tokens with a key the platform did not       *)
(* endorse, two whose report directory does not work, one whose clock is   *)
(* ahead, one without an IMA log.                                          *)
(***************************************************************************)
Event(registry, type, digest, text) ==
    [registry |-> registry, event_type |-> type, digests |-> [sha256 |-> digest],
     event |-> text]

BootLog ==
    << [registry |-> 0, event_type |-> "EV_NO_ACTION", digests |-> <<>>,
        event |-> {"Spec ID Event03"}],
       Event(1, "EV_EFI_BOOT_SERVICES_APPLICATION", "grub", {}),
       Event(2, "EV_IPL", "grub_cfg", {"grub.cfg"}),
       Event(2, "EV_IPL", "kernel", {"/vmlinuz-"}) >>

ImaEntry(path, digest) ==
    [template |-> "ima-ng", header_digest |-> digest, template_digest |-> digest,
     identity |-> [algorithm |-> "sha256", digest |-> digest, path |-> path]]

Firmware ==
    [type |-> "BL", version |-> "1", hash_alg |-> "sha-256", size |-> 32,
     measurement |-> "bl", signer_id |-> "vendor"]

SoundMachine ==
    [alg |-> "ES512", profile |-> "cca", endorsed_rak |-> "rak", rak |-> "rak",
     sw_components |-> {Firmware},
     device |-> [key |-> "device", signer |-> "product CA", current |-> TRUE],
     lifecycle |-> 12291, rim |-> "rim", rem_size |-> 32, report_dir |-> TRUE, empty_report |-> FALSE,
     clock |-> 1000, boot_log |-> BootLog,
     ima_log |-> <<ImaEntry("boot_aggregate", "any"), ImaEntry("/init", "init")>>,
     ccel_table |-> <<"CCEL">>]

Expired == [SoundMachine EXCEPT !.device.current = FALSE]
OtherRak == [SoundMachine EXCEPT !.rak = "other", !.clock = 900]
NoReports == [SoundMachine EXCEPT !.report_dir = FALSE]
EmptyReports == [SoundMachine EXCEPT !.empty_report = TRUE, !.rem_size = 64]
Fast == [SoundMachine EXCEPT !.clock = 2000]
NoImaLog == [SoundMachine EXCEPT !.ima_log = <<>>]

Both(client, server) == [client |-> client, server |-> server]
AllSound == Both(SoundMachine, SoundMachine)
OneUnsound == Both(OtherRak, NoImaLog)

MCScenes ==
    {[machine |-> m, pairs |-> {c}] : m \in {AllSound, OneUnsound}}
    \cup {[machine |-> AllSound, pairs |-> {d1, d2}]}
    \cup {[machine |-> m, pairs |-> {sample_pair}] :
             m \in {AllSound, OneUnsound, Both(SoundMachine, Expired),
                    Both(SoundMachine, OtherRak), Both(NoReports, SoundMachine),
                    Both(SoundMachine, EmptyReports), Both(SoundMachine, Fast)}}

MCBootEvents == {Event(2, "EV_IPL", "module", {"grub_cmd:"})}

(***************************************************************************)
(* Command lines.                                                          *)
(***************************************************************************)
NoCertificate ==
    [issuer_private_key |-> None, issuer_certificate_chain |-> <<>>,
     subject_alt_names |-> <<>>]

NoTlsVerify ==
    [verify_peer_certificate |-> FALSE, use_system_ca |-> FALSE,
     trusted_ca_chain |-> {}, expected_peer_name |-> None]

TlsVerify ==
    [verify_peer_certificate |-> TRUE, use_system_ca |-> TRUE,
     trusted_ca_chain |-> {}, expected_peer_name |-> None]

PlatformPolicy ==
    {[name |-> "BL", version |-> "*", hash_alg |-> "sha256", measurement |-> "bl",
      signer_id |-> ""]}

Baseline ==
    [hash_alg |-> "sha-256", grub |-> "grub", grub_cfg |-> "grub_cfg",
     kernels |-> {[kernel |-> "kernel", initramfs |-> "initramfs"]}]

Bare ==
    [mutual |-> FALSE, rim |-> None, platform |-> None, cert_algo |-> "Ecc256Sha256",
     certificate |-> NoCertificate, tls_verify |-> NoTlsVerify,
     ima_log |-> FALSE, boot_log |-> FALSE, firmware |-> None, digest |-> None,
     fde_key |-> None, message |-> "hello", max_log |-> 10]

\* Everything checked before the key is sent; a key the server finds too large;
\* a message that is one of the control tokens.
MCClientArgs ==
    {[Bare EXCEPT !.rim = "rim", !.platform = PlatformPolicy, !.boot_log = TRUE,
                  !.firmware = Baseline, !.ima_log = TRUE,
                  !.digest = {ImaEntry("/init", "init").identity}, !.fde_key = 2],
     [Bare EXCEPT !.mutual = TRUE, !.tls_verify = TlsVerify, !.boot_log = TRUE,
                  !.fde_key = 3],
     [Bare EXCEPT !.message = "ENABLE_FDE_TOKEN"]}

MCServerArgs ==
    {[mutual |-> FALSE, rim |-> None, platform |-> None, cert_algo |-> "Rsa3072Sha256",
      certificate |-> NoCertificate, tls_verify |-> NoTlsVerify, once |-> FALSE,
      max_key |-> 2],
     [mutual |-> TRUE, rim |-> "rim", platform |-> PlatformPolicy, cert_algo |-> "Ecc256Sha256",
      certificate |-> [issuer_private_key |-> IntermediateKey,
                       issuer_certificate_chain |-> <<Intermediate, Root>>,
                       subject_alt_names |-> <<>>],
      tls_verify |-> NoTlsVerify, once |-> TRUE, max_key |-> 2]}
=============================================================================
