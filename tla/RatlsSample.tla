----------------------------- MODULE RatlsSample -----------------------------
(***************************************************************************)
(* The sample programs cca-server and cca-client over the library of       *)
(* module Ratls: the server answers the frames of one client after the     *)
(* other; the client checks the machine it is connected to and sends it    *)
(* the key of its root file system.  C applications that use the same      *)
(* library run beside them.                                                *)
(*                                                                         *)
(* A frame is the request or the data in it.  The client's run is the      *)
(* sequence of its requests, its script; the checks on an answer are part  *)
(* of receiving it.                                                        *)
(***************************************************************************)
EXTENDS Ratls

CONSTANTS SamplePair,       \* the pairs that are cca-client and cca-server
          ClientArgs,       \* the command lines of cca-client
          ServerArgs,       \* the command lines of cca-server
          BootEvents,       \* what a machine may measure while it runs
          MaxLog            \* bound on the length of a boot log

VARIABLES
    boot_log,   \* boot_log[r]: the event log of the machine of role r
    args,       \* args[e]: the command line of a sample program
    app,        \* app[p]: the client's position in its script, whether it waits
                \* for an answer, and the event log it received
    serving,    \* serving[p]: what cca-server does
    wire,       \* wire[p]: the frames under way to each side
    saved       \* saved[p]: the key cca-server wrote to its file, or None

sample == <<boot_log, args, app, serving, wire, saved>>
vars == <<ratls, sample>>

Client(p) == <<p, "client">>
Server(p) == <<p, "server">>

NoFrames == [up |-> <<>>, down |-> <<>>]
AtStart == [at |-> 1, waits |-> FALSE, log |-> <<>>]

SampleInit ==
    /\ Init
    /\ boot_log = [r \in Role |-> machine[r].boot_log]
    /\ args = [e \in SamplePair \X Role |-> None]
    /\ app = [p \in SamplePair |-> AtStart]
    /\ serving = [p \in SamplePair |-> "down"]
    /\ wire = [p \in SamplePair |-> NoFrames]
    /\ saved = [p \in SamplePair |-> None]

(***************************************************************************)
(* Command lines and configurations.                                       *)
(***************************************************************************)
\* The options about certificates; a.tls_verify holds the fields of
\* TlsVerifyConf, a.certificate those of CertificateConf.
validate_cli(a, server) ==
    LET o == a.tls_verify IN
    IF ~o.verify_peer_certificate
    THEN ~o.use_system_ca /\ o.trusted_ca_chain = {} /\ o.expected_peer_name = None
    ELSE /\ server => a.mutual
         /\ o.use_system_ca \/ o.trusted_ca_chain # {}

MAX_LOG_SIZE == 10 * 1024 * 1024
MAX_KEY_SIZE == 1024 * 1024
MAX_MESSAGE_SIZE == 4096

parse_bounded_size(value, maximum) == value \in 1 .. maximum

\* A file as long as it may be; a missing or empty one is an error.
read_input_file(data, maximum) == IF Len(data) \in 1 .. maximum THEN data ELSE None

\* A command line whose options or files do not fit ends the program at once.
ClientArgsValid(a) ==
    /\ parse_bounded_size(a.max_log, MAX_LOG_SIZE)
    /\ validate_cli(a, FALSE)
    /\ a.message # ""
    /\ a.firmware # None => a.boot_log /\ load_firmware_baseline(a.firmware)
    /\ a.digest # None => a.ima_log /\ LoadImaBaseline(a.digest)
    /\ a.platform # None => load_platform_policy(a.platform)
    /\ a.fde_key # None => a.fde_key \in 1 .. MAX_KEY_SIZE

ServerArgsValid(a) ==
    /\ parse_bounded_size(a.max_key, MAX_KEY_SIZE)
    /\ validate_cli(a, TRUE)
    /\ a.rim # None \/ a.platform # None => a.mutual
    /\ a.platform # None => load_platform_policy(a.platform)

\* The configuration a program makes of its command line.
SampleConf(a, server) ==
    [attester |-> server \/ a.mutual, verifier |-> ~server \/ a.mutual,
     cert_algo |-> a.cert_algo, custom_claims |-> <<>>,
     mutual |-> a.mutual, server |-> server,
     issuer_private_key |-> a.certificate.issuer_private_key,
     issuer_certificate_chain |-> a.certificate.issuer_certificate_chain,
     subject_alt_names |-> a.certificate.subject_alt_names,
     verify_peer_certificate |-> a.tls_verify.verify_peer_certificate,
     use_system_ca |-> a.tls_verify.use_system_ca,
     trusted_ca_chain |-> a.tls_verify.trusted_ca_chain,
     expected_peer_name |-> a.tls_verify.expected_peer_name]

\* The callback a sample program sets on its handle, if any of its options asks
\* for one; only the client's captures the boot registers.
Callback(a, boot) ==
    IF a.rim = None /\ a.platform = None /\ ~boot THEN None
    ELSE [by |-> "sample", rim |-> a.rim, platform |-> a.platform, boot_log |-> boot]

ClientHandle(a) ==
    [NewHandle(SampleConf(a, FALSE)) EXCEPT !.callback = Callback(a, a.boot_log)]

ServerHandle(a) ==
    [NewHandle(SampleConf(a, TRUE)) EXCEPT !.callback = Callback(a, FALSE)]

(***************************************************************************)
(* Starting the programs and connecting.                                   *)
(***************************************************************************)
ServerRun(p, a) ==
    /\ p \in running /\ serving[p] = "down" /\ args[Server(p)] = None
    /\ ServerArgsValid(a) /\ ServerHandle(a).issuer # None
    /\ serving' = [serving EXCEPT ![p] = "listen"]
    /\ args' = [args EXCEPT ![Server(p)] = a]
    /\ UNCHANGED <<ratls, boot_log, app, wire, saved>>

\* A client starts and its connection is accepted; serve_one makes a handle of
\* its own for the connection.
ClientRun(p, a) ==
    LET h == [client |-> ClientHandle(a), server |-> ServerHandle(args[Server(p)])] IN
    /\ serving[p] = "listen"
    /\ ClientArgsValid(a) /\ ClientHandle(a).issuer # None
    /\ Connect(p, h)
    /\ handle' = [e \in End |-> IF e[1] = p THEN h[e[2]] ELSE handle[e]]
    /\ args' = [args EXCEPT ![Client(p)] = a]
    /\ serving' = [serving EXCEPT ![p] = "request"]
    /\ app' = [app EXCEPT ![p] = AtStart]
    /\ wire' = [wire EXCEPT ![p] = NoFrames]
    /\ UNCHANGED <<machine, running, rem, inblob, sent, boot_log, saved>>

(***************************************************************************)
(* The client.                                                             *)
(***************************************************************************)
Requests == {"REQUEST_IMA_LOG", "REQUEST_CCEL_TABLE", "REQUEST_EVENT_LOG"}

Script(a) ==
    (IF a.ima_log THEN <<"REQUEST_IMA_LOG">> ELSE <<>>)
    \o (IF a.boot_log THEN <<"REQUEST_CCEL_TABLE", "REQUEST_EVENT_LOG">> ELSE <<>>)
    \o (IF a.fde_key # None THEN <<"ENABLE_FDE_TOKEN", "key">> ELSE <<>>)
    \o <<a.message, "ATTESTATION_PASS">>

Request(p) == Script(args[Client(p)])[app[p].at]

Frame(p) ==
    [is |-> Request(p), size |-> IF Request(p) = "key" THEN args[Client(p)].fde_key ELSE 1]

\* A program of the pair ends, or the server leaves serve_one: its side of the
\* connection is closed.
Closes(e) ==
    /\ step' = [step EXCEPT ![e] = "idle"]
    /\ tls' = [tls EXCEPT ![e[1]].gone = @ \cup {e[2]}]
    /\ UNCHANGED <<machine, running, rem, inblob, handle, local, sent, excuse>>

\* The token and the key are sent one after the other and have no answer.
ClientSends(p) ==
    /\ step[Client(p)] = "open" /\ ~app[p].waits /\ ~PeerGone(Client(p))
    /\ wire' = [wire EXCEPT ![p].up = Append(@, Frame(p))]
    /\ app' = [app EXCEPT ![p] =
                 IF Request(p) \in {"ENABLE_FDE_TOKEN", "key"}
                 THEN [@ EXCEPT !.at = @ + 1] ELSE [@ EXCEPT !.waits = TRUE]]
    /\ UNCHANGED <<ratls, boot_log, args, serving, saved>>

\* A frame is refused when it is empty or larger than the receiver accepts.
receive_frame(frame, max) == frame.size \in 1 .. max

\* The largest frame the client accepts as an answer: --max-log for a log.
Limit(p) ==
    IF Request(p) \in Requests THEN args[Client(p)].max_log
    ELSE MAX_MESSAGE_SIZE

\* The registers the callback captured from the verified evidence.
VerifiedRems(p) ==
    verified_boot_rems_from_claims(
        to_json_value(TokenOf(handle[Client(p)].stream.peer)))

BootLogVerified(a, rems, log) ==
    LET entries == parse_event_log(log) IN
    /\ entries # None
    /\ LET state == verify_and_extract_firmware_state(entries, rems)
       IN  /\ state # None
           /\ a.firmware # None => verify_firmware_baseline(a.firmware, state)

ImaLogVerified(a, log) ==
    LET identities == parse_binary_ima_log(log) IN
    /\ identities # None
    /\ a.digest # None => verify_entries(a.digest, identities)

AnswerAccepted(p, answer) ==
    LET a == args[Client(p)] IN
    /\ receive_frame(answer, Limit(p))
    /\ Request(p) = "REQUEST_IMA_LOG" => ImaLogVerified(a, answer.data)
    /\ Request(p) = "REQUEST_CCEL_TABLE" => parse_ccel_table(answer.data)
    /\ Request(p) = "REQUEST_EVENT_LOG" =>
          BootLogVerified(a, VerifiedRems(p), answer.data)
    /\ Request(p) = "ATTESTATION_PASS" => answer.is = "ATTESTATION_PASS"

ClientReceives(p) ==
    LET answer == Head(wire[p].down) IN
    /\ step[Client(p)] = "open" /\ app[p].waits /\ wire[p].down # <<>>
    /\ wire' = [wire EXCEPT ![p].down = Tail(@)]
    /\ app' = [app EXCEPT ![p] =
                 [at |-> @.at + 1, waits |-> FALSE,
                  log |-> IF Request(p) = "REQUEST_EVENT_LOG" THEN answer.data ELSE @.log]]
    /\ IF AnswerAccepted(p, answer) /\ Request(p) # "ATTESTATION_PASS"
       THEN UNCHANGED ratls ELSE Closes(Client(p))
    /\ UNCHANGED <<boot_log, args, serving, saved>>

\* Nothing more will come from the server: the client ends with an error.
ClientLost(p) ==
    /\ step[Client(p)] = "open" /\ PeerGone(Client(p))
    /\ app[p].waits => wire[p].down = <<>>
    /\ Closes(Client(p))
    /\ UNCHANGED sample

(***************************************************************************)
(* The server.                                                             *)
(***************************************************************************)
FileOf(request) ==
    CASE request = "REQUEST_IMA_LOG" -> machine["server"].ima_log
      [] request = "REQUEST_CCEL_TABLE" -> machine["server"].ccel_table
      [] request = "REQUEST_EVENT_LOG" -> boot_log["server"]

send_file(request) ==
    LET data == read_input_file(FileOf(request), MAX_LOG_SIZE)
    IN  IF data = None THEN None ELSE [is |-> "file", data |-> data, size |-> Len(data)]

\* A file, or the request itself: ATTESTATION_PASS and an echoed message.
Answer(frame) ==
    IF frame.is \in Requests THEN send_file(frame.is)
    ELSE [is |-> frame.is, data |-> <<>>, size |-> frame.size]

\* The server closes the connection and either waits for the next client or
\* ends: after an error always, after a complete session with --once.
ServerLeaves(p, failed) ==
    /\ Closes(Server(p))
    /\ serving' = [serving EXCEPT ![p] =
                     IF failed \/ args[Server(p)].once THEN "down" ELSE "listen"]

ServeRequest(p) ==
    LET frame == Head(wire[p].up)
        answer == Answer(frame)
    IN  /\ step[Server(p)] = "open" /\ serving[p] = "request" /\ wire[p].up # <<>>
        /\ \/ /\ frame.is = "ENABLE_FDE_TOKEN"
              /\ serving' = [serving EXCEPT ![p] = "key"]
              /\ wire' = [wire EXCEPT ![p].up = Tail(@)]
              /\ UNCHANGED ratls
           \/ /\ frame.is # "ENABLE_FDE_TOKEN" /\ answer = None
              /\ ServerLeaves(p, TRUE)
              /\ wire' = [wire EXCEPT ![p].up = Tail(@)]
           \/ /\ frame.is \notin {"ENABLE_FDE_TOKEN", "ATTESTATION_PASS"}
              /\ answer # None
              /\ wire' = [wire EXCEPT ![p] = [up |-> Tail(@.up),
                                              down |-> Append(@.down, answer)]]
              /\ UNCHANGED <<ratls, serving>>
           \/ /\ frame.is = "ATTESTATION_PASS"
              /\ wire' = [wire EXCEPT ![p] = [up |-> Tail(@.up),
                                              down |-> Append(@.down, answer)]]
              /\ ServerLeaves(p, FALSE)
        /\ UNCHANGED <<boot_log, args, app, saved>>

\* The key is written to the server's file if it is not too large; the server
\* ends if it is, or if the file cannot be written.  saved also keeps, as a
\* ghost, what the client had asked for and was shown.
receive_rootfs_key(p) ==
    LET frame == Head(wire[p].up)
        fits == receive_frame(frame, args[Server(p)].max_key)
    IN  /\ step[Server(p)] = "open" /\ serving[p] = "key" /\ wire[p].up # <<>>
        /\ wire' = [wire EXCEPT ![p].up = Tail(@)]
        /\ \/ /\ fits
              /\ saved' = [saved EXCEPT ![p] =
                    [args |-> args[Client(p)], log |-> app[p].log,
                     realm |-> TokenOf(handle[Client(p)].stream.peer).realm]]
              /\ serving' = [serving EXCEPT ![p] = "request"]
              /\ UNCHANGED ratls
           \/ /\ ServerLeaves(p, TRUE)
              /\ UNCHANGED saved
        /\ UNCHANGED <<boot_log, args, app>>

\* The negotiation failed or the client is gone: serve_one returns the error
\* and cca-server ends with it.
ServerLost(p) ==
    /\ serving[p] \in {"request", "key"}
    /\ \/ step[Server(p)] = "failed"
       \/ step[Server(p)] = "open" /\ wire[p].up = <<>> /\ PeerGone(Server(p))
    /\ ServerLeaves(p, TRUE)
    /\ UNCHANGED <<boot_log, args, app, wire, saved>>

\* A client whose negotiation failed ends with the error.
ClientEnds(p) ==
    /\ step[Client(p)] = "failed"
    /\ Closes(Client(p))
    /\ UNCHANGED sample

\* The machine measures something more while cca-server serves a client (what
\* it measured before is in the log it starts with): the register and the log
\* grow together.
Measure(r, event) ==
    /\ \E p \in SamplePair : serving[p] \in {"request", "key"}
    /\ Len(boot_log[r]) < MaxLog
    /\ boot_log' = [boot_log EXCEPT ![r] = Append(@, event)]
    /\ rem' = [rem EXCEPT ![r] = Measured(boot_log'[r])]
    /\ UNCHANGED <<machine, running, inblob, handle, step, local, tls, sent, excuse,
                   args, app, serving, wire, saved>>

\* The connection breaks while one of them uses it.
SessionCut(p) ==
    /\ \E r \in Role : step[<<p, r>>] = "open"
    /\ CutLink(p)
    /\ UNCHANGED sample

\* cca-server waits for a client that does not come, or the programs have ended.
Finished ==
    /\ running \subseteq SamplePair
    /\ \A p \in running :
          /\ args[Server(p)] # None /\ serving[p] \in {"listen", "down"}
          /\ \A r \in Role : step[<<p, r>>] = "idle"
    /\ UNCHANGED vars

Next ==
    \/ \E e \in End : Negotiate(e) /\ UNCHANGED sample
    \/ \E p \in Pair : LinkFails(p) /\ UNCHANGED sample
    \/ \E p \in Pair \ SamplePair : Application(p) /\ UNCHANGED sample
    \/ \E p \in SamplePair :
          \/ \E a \in ServerArgs : ServerRun(p, a)
          \/ \E a \in ClientArgs : ClientRun(p, a)
          \/ ClientSends(p) \/ ClientReceives(p) \/ ClientLost(p) \/ ClientEnds(p)
          \/ ServeRequest(p) \/ receive_rootfs_key(p) \/ ServerLost(p)
          \/ SessionCut(p)
    \/ Finished
    \/ \E event \in BootEvents : Measure("server", event)

Spec == SampleInit /\ [][Next]_vars

(***************************************************************************)
(* Properties.                                                             *)
(***************************************************************************)
\* The key reaches cca-server's file only on a sound machine that has the
\* initial measurement and the platform software its client asked for.  If the
\* client asked for the boot log, the log it was sent explains the registers
\* attested in the handshake and meets its firmware baseline (run and
\* send_rootfs_key of cca-client): evidence, log and key travel at different
\* times, and the machine may measure in between.
KeyOnlyToMeasured ==
    \A p \in SamplePair : saved[p] # None =>
        LET a == saved[p].args
            m == machine["server"]
            log == saved[p].log
        IN  /\ Sound(m)
            /\ a.rim # None => m.rim = a.rim
            /\ a.platform # None => verify_platform_policy(a.platform, m.sw_components)
            /\ a.boot_log => \A i \in 1 .. 2 : saved[p].realm.rem[i] = Replay(log, i)
            /\ a.firmware # None =>
                  verify_firmware_baseline(a.firmware, extract_firmware_state(log))
==============================================================================
