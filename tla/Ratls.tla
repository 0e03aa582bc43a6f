-------------------------------- MODULE Ratls --------------------------------
(***************************************************************************)
(* Remote attestation over TLS: two endpoints negotiate a TLS 1.3          *)
(* connection in which the server, and in mutual mode the client too,      *)
(* shows a certificate that carries attestation evidence made for this     *)
(* very handshake (create_ratls_server, create_ratls_client and the        *)
(* OpenSSL wrapper below them), and the C interface that keeps the         *)
(* negotiated stream in a handle.                                          *)
(*                                                                         *)
(* A pair is a client program and a server program that connect to each    *)
(* other, one connection at a time.  All clients run on one machine and    *)
(* all servers on another; the programs of one machine share its report    *)
(* directory, where a challenge is written to inblob and the report on it  *)
(* is read from outblob.  An endpoint in the middle of a negotiation waits *)
(* for a message of its peer, or stands between writing inblob and reading *)
(* outblob: there the others may run.                                      *)
(***************************************************************************)
EXTENDS RatlsPolicy

CONSTANTS Pair,             \* pairs of programs that connect to each other
          ConfsOf(_),       \* the configurations the application at an end uses
          CallbacksOf(_),   \* the verification callbacks it sets
          Scenes,           \* two machines, and the pairs that run on them
          MaxConnections    \* bound on the connections of all pairs together

VARIABLES
    machine,    \* machine[r]: the platform the programs of role r run on
    running,    \* the pairs that run there
    rem,        \* rem[r]: its extensible measurement registers
    inblob,     \* inblob[r]: the challenge in its report directory
    handle,     \* handle[e]: the endpoint's RatlsHandle, or None
    step,       \* step[e]: where the endpoint is in a negotiation
    local,      \* local[e]: what the handshake object of e holds
    tls,        \* tls[p]: what was sent in the pair's current connection
    sent,       \* sent[p]: the data under way in an application's stream, or None
    excuse      \* excuse[p]: ghost, this negotiation has a reason to fail

ratls == <<machine, running, rem, inblob, handle, step, local, tls, sent, excuse>>

Role == {"client", "server"}
Other(r) == IF r = "client" THEN "server" ELSE "client"
End == Pair \X Role
Peer(e) == <<e[1], Other(e[2])>>

(***************************************************************************)
(* A connection.  Its randoms and the keys made for it are fresh, so they  *)
(* are named after it.                                                     *)
(***************************************************************************)
Connection(p) == tls[p].id
Random(r, id) == <<r, "random", id>>
KeyPair(r, id) == <<r, "key", id>>
KeyShare(id, try) == <<id, "share", try>>

\* The ClientHello OpenSSL sends, with a new key share after a retry request.
ClientHello(id, try) ==
    [random |-> Random("client", id),
     extensions |-> << [type |-> "supported_versions", data |-> <<"TLS 1.3">>],
                       [type |-> "key_share", data |-> <<KeyShare(id, try)>>] >>]

FirstHello(p) == tls[p].hello = ClientHello(Connection(p), 1)

Connections == {<<p, i>> : p \in Pair, i \in 1 .. MaxConnections}

NewConnection(p, n) ==
    [id |-> <<p, n>>, hello |-> None, retry |-> "no", flight |-> None,
     final |-> None, gone |-> {}]

\* The key_share extension has at least one entry, and none is empty.
validate_client_key_share_extension(shares) ==
    shares # <<>> /\ \A i \in DOMAIN shares : shares[i] # <<>>

read_client_key_share_extension(message) ==
    LET at == Position({i \in DOMAIN message.extensions :
                           message.extensions[i].type = "key_share"})
    IN  IF at = None THEN None ELSE message.extensions[at].data

parse_client_hello(message) ==
    LET shares == read_client_key_share_extension(message)
    IN  IF shares = None \/ ~validate_client_key_share_extension(shares) THEN None
        ELSE [random |-> message.random, share |-> shares]

NewHandshake == [hello |-> None, claims |-> None, cert |-> None]

NewHandle(conf) ==
    [conf |-> conf, issuer |-> PreparedIssuer(conf), callback |-> None,
     stream |-> None]

\* The registers of a machine hold what it measured into its boot log.
Measured(log) == [i \in 1 .. REM_ARR |-> Replay(log, i)]

Init ==
    /\ \E scene \in Scenes : machine = scene.machine /\ running = scene.pairs
    /\ rem = [r \in Role |-> Measured(machine[r].boot_log)]
    /\ inblob = [r \in Role |-> None]
    /\ handle = [e \in End |-> None]
    /\ step = [e \in End |-> "idle"]
    /\ local = [e \in End |-> NewHandshake]
    /\ tls = [p \in Pair |-> NewConnection(p, 0)]
    /\ sent = [p \in Pair |-> None]
    /\ excuse = [p \in Pair |-> FALSE]

Resting(e) == step[e] \in {"idle", "open", "failed"}

(***************************************************************************)
(* What can make an honest negotiation fail before it starts: an unsound   *)
(* or wrongly set machine, configurations that do not fit, a callback that *)
(* rejects the peer.                                                       *)
(***************************************************************************)
Sound(m) ==
    /\ m.report_dir /\ ~m.empty_report
    /\ m.device.current /\ m.device.signer = "product CA"
    /\ m.alg = "ES512" /\ m.profile # "" /\ m.endorsed_rak = m.rak
    /\ m.lifecycle \in 0 .. 65535
    /\ \A c \in m.sw_components : SwComponentDecodes(c)

Sends(h, r) == r = "server" \/ h.conf.mutual

Shows(e, h) ==
    generate_ra_certificate("key", None, h.issuer, e[2], h.conf.subject_alt_names,
                            machine[e[2]].clock)

Obstacle(p, h) ==
    \/ h["client"].conf.mutual # h["server"].conf.mutual
    \/ \E r \in Role :
          LET o == Other(r)
              cert == Shows(<<p, o>>, h[o])
              now == machine[r].clock
          IN  Sends(h[o], o) /\
              \/ ~Sound(machine[o])
              \/ ~PeerCertificateTrusted(h[r].conf, cert, now)
              \/ ~verify_user_callback(h[r].callback,
                                       to_json_value(parse(
                                           TsmReport(machine[o], None, rem[o]).token)))

(***************************************************************************)
(* The two programs of a pair get a connected socket each and start to     *)
(* negotiate on it.                                                        *)
(***************************************************************************)
Connect(p, h) ==
    LET n == Connection(p)[2] IN
    /\ p \in running
    /\ Cardinality({c \in Connections : c[2] <= Connection(c[1])[2]}) < MaxConnections
    /\ \A r \in Role : Resting(<<p, r>>)
    /\ tls' = [tls EXCEPT ![p] = NewConnection(p, n + 1)]
    /\ step' = [e \in End |-> IF e[1] = p THEN "start" ELSE step[e]]
    /\ local' = [e \in End |-> IF e[1] = p THEN NewHandshake ELSE local[e]]
    /\ excuse' = [excuse EXCEPT ![p] = Obstacle(p, h)]

\* The negotiation of e returns an error: its stream is dropped.  A stream the
\* handle kept from an earlier negotiation stays.
Fails(e, wire) ==
    /\ step' = [step EXCEPT ![e] = "failed"]
    /\ tls' = [tls EXCEPT ![e[1]] = [wire EXCEPT !.gone = @ \cup {e[2]}]]
    /\ UNCHANGED <<machine, running, rem, inblob, handle, local, sent, excuse>>

\* The negotiation of e succeeds.  peer is the verified certificate, None when
\* the peer showed none; share is the key share the connection uses.
Opens(e, peer) ==
    /\ step' = [step EXCEPT ![e] = "open"]
    /\ handle' = [handle EXCEPT ![e].stream =
                    [conn |-> Connection(e[1]), peer |-> peer,
                     share |-> parse_client_hello(tls[e[1]].hello).share]]
    /\ UNCHANGED <<machine, running, rem, inblob, local, tls, sent, excuse>>

PeerGone(e) == tls[e[1]].gone \cap {Other(e[2]), "link"} # {}

(***************************************************************************)
(* The client.                                                             *)
(***************************************************************************)
\* The client's own message callback captures every ClientHello it sends, as it
\* parses it; the ones OpenSSL makes do parse.
client_message_callback(e, hello) ==
    /\ parse_client_hello(hello) # None
    /\ local' = [local EXCEPT ![e].hello = parse_client_hello(hello)]
    /\ tls' = [tls EXCEPT ![e[1]].hello = hello]

start_client_handshake(e) ==
    /\ e[2] = "client" /\ step[e] = "start"
    /\ client_message_callback(e, ClientHello(Connection(e[1]), 1))
    /\ step' = [step EXCEPT ![e] = "connect"]
    /\ UNCHANGED <<machine, running, rem, inblob, handle, sent, excuse>>

\* A HelloRetryRequest: the client answers with a ClientHello that has the
\* same random and a new key share.
SecondClientHello(e) ==
    /\ e[2] = "client" /\ step[e] = "connect"
    /\ tls[e[1]].retry = "asked" /\ FirstHello(e[1])
    /\ client_message_callback(e, ClientHello(Connection(e[1]), 2))
    /\ UNCHANGED <<machine, running, rem, inblob, handle, step, sent, excuse>>

\* What the evidence of e must be bound to: the random of the peer, and the
\* client's key share as e captured it.
ServerBinding(e) ==
    [nonce |-> local[e].hello.random, client_key_share |-> local[e].hello.share]

ClientBinding(e) ==
    [nonce |-> tls[e[1]].flight.random, client_key_share |-> local[e].hello.share]

EvidenceBinding(e) == IF e[2] = "server" THEN ServerBinding(e) ELSE ClientBinding(e)

\* The server's flight arrives.  In mutual mode the certificate callback pauses
\* the handshake, and a server that asked for no certificate is an error after
\* the client's Finished went out.  Otherwise the handshake is complete.
ServerFlight(e) ==
    LET wire == tls[e[1]]
        conf == handle[e].conf
        trusted == PeerCertificateTrusted(conf, wire.flight.cert,
                                          machine["client"].clock)
    IN  /\ e[2] = "client" /\ step[e] = "connect" /\ wire.flight # None
        /\ \/ ~trusted /\ Fails(e, wire)
           \/ /\ trusted /\ conf.mutual /\ ~wire.flight.request
              /\ Fails(e, [wire EXCEPT !.final = [cert |-> None]])
           \/ /\ trusted /\ conf.mutual /\ wire.flight.request
              /\ step' = [step EXCEPT ![e] = "report"]
              /\ UNCHANGED <<machine, running, rem, inblob, handle, local, tls, sent, excuse>>
           \/ /\ trusted /\ ~conf.mutual
              /\ tls' = [tls EXCEPT ![e[1]].final = [cert |-> None]]
              /\ step' = [step EXCEPT ![e] = "verify"]
              /\ UNCHANGED <<machine, running, rem, inblob, handle, local, sent, excuse>>

(***************************************************************************)
(* Making the endpoint's identity (generate_ratls_identity): the claims    *)
(* are built on a fresh key and their digest is written to inblob; the     *)
(* report is read, and it goes into the certificate.                       *)
(***************************************************************************)
ClaimsOf(e) ==
    build_claims_buffer(sha256(KeyPair(e[2], Connection(e[1]))),
                        sha256(EvidenceBinding(e).client_key_share),
                        EvidenceBinding(e).nonce,
                        handle[e].conf.custom_claims)

\* Whoever has written a challenge on that machine and not read its report yet
\* will read the report on this one.
WriteInblob(e) ==
    /\ step[e] = "report"
    /\ \/ /\ ~machine[e[2]].report_dir
          /\ Fails(e, tls[e[1]])
       \/ /\ machine[e[2]].report_dir
          /\ inblob' = [inblob EXCEPT ![e[2]] = sha256(ClaimsOf(e))]
          /\ local' = [local EXCEPT ![e].claims = ClaimsOf(e)]
          /\ step' = [step EXCEPT ![e] = "collect"]
          /\ excuse' = [p \in Pair |-> excuse[p] \/ step[<<p, e[2]>>] = "collect"]
          /\ UNCHANGED <<machine, running, rem, handle, tls, sent>>

IdentityOf(e) ==
    generate_ra_certificate(
        KeyPair(e[2], Connection(e[1])),
        encode_evidence_buffer(
            [tag |-> EVIDENCE_TAG, claims_buffer |-> local[e].claims,
             raw |-> encode_raw_native(
                        TsmReport(machine[e[2]], inblob[e[2]], rem[e[2]]))]),
        handle[e].issuer, e[2], handle[e].conf.subject_alt_names,
        machine[e[2]].clock)

\* The server sends its flight, which carries the identity.
SendFlight(e, cert) ==
    tls' = [tls EXCEPT ![e[1]].flight =
              [random |-> Random("server", Connection(e[1])), cert |-> cert,
               request |-> handle[e].conf.mutual]]

\* The identity is installed and the handshake resumes.  The client sends its
\* certificate and Finished.
ClientInstalls(e) ==
    /\ tls' = [tls EXCEPT ![e[1]].final = [cert |-> IdentityOf(e)]]
    /\ step' = [step EXCEPT ![e] = "verify"]
    /\ UNCHANGED <<machine, running, rem, inblob, handle, local, sent, excuse>>

\* The server sends its flight, or first asks for another key share.
ServerInstalls(e) ==
    \/ /\ SendFlight(e, IdentityOf(e))
       /\ step' = [step EXCEPT ![e] = "final"]
       /\ UNCHANGED <<machine, running, rem, inblob, handle, local, sent, excuse>>
    \/ /\ tls' = [tls EXCEPT ![e[1]].retry = "asked"]
       /\ local' = [local EXCEPT ![e].cert = IdentityOf(e)]
       /\ step' = [step EXCEPT ![e] = "retry"]
       /\ excuse' = [excuse EXCEPT ![e[1]] = TRUE]
       /\ UNCHANGED <<machine, running, rem, inblob, handle, sent>>

ReadOutblob(e) ==
    /\ step[e] = "collect"
    /\ \/ machine[e[2]].empty_report /\ Fails(e, tls[e[1]])
       \/ ~machine[e[2]].empty_report /\ e[2] = "client" /\ ClientInstalls(e)
       \/ ~machine[e[2]].empty_report /\ e[2] = "server" /\ ServerInstalls(e)

(***************************************************************************)
(* The server.                                                             *)
(***************************************************************************)
\* The ClientHello callback stores the first ClientHello and suspends the
\* handshake; once the identity is installed it only attaches it.
start_server_handshake(e) ==
    /\ e[2] = "server" /\ step[e] = "start" /\ tls[e[1]].hello # None
    /\ local' = [local EXCEPT ![e].hello =
                    [random |-> tls[e[1]].hello.random,
                     share |-> read_client_key_share_extension(tls[e[1]].hello)]]
    /\ step' = [step EXCEPT ![e] = "report"]
    /\ UNCHANGED <<machine, running, rem, inblob, handle, tls, sent, excuse>>

RetriedFlight(e) ==
    /\ e[2] = "server" /\ step[e] = "retry"
    /\ ~FirstHello(e[1])
    /\ SendFlight(e, local[e].cert)
    /\ step' = [step EXCEPT ![e] = "final"]
    /\ UNCHANGED <<machine, running, rem, inblob, handle, local, sent, excuse>>

(***************************************************************************)
(* Verifying the peer.                                                     *)
(***************************************************************************)
\* What the peer's evidence must be bound to: the random of e itself.
ClientPeerBinding(e) ==
    [nonce |-> local[e].hello.random, client_key_share |-> local[e].hello.share]

ServerPeerBinding(e) ==
    [nonce |-> Random("server", Connection(e[1])),
     client_key_share |-> local[e].hello.share]

PeerBinding(e) ==
    IF e[2] = "client" THEN ClientPeerBinding(e) ELSE ServerPeerBinding(e)

PeerVerified(e, cert) ==
    LET claims == verify_handshake_evidence(cert, PeerBinding(e))
    IN  /\ validate_peer_certificate_basics(cert, Other(e[2]), machine[e[2]].clock)
        /\ claims # None
        /\ verify_user_callback(handle[e].callback, claims)

\* What a verified certificate carries.
EvidenceOf(cert) == decode_evidence_buffer(extract_evidence_extension(cert))
TokenOf(cert) == parse(decode_raw_native(EvidenceOf(cert).raw).token)

create_ratls_client(e) ==
    LET cert == tls[e[1]].flight.cert IN
    /\ e[2] = "client" /\ step[e] = "verify"
    /\ \/ PeerVerified(e, cert) /\ Opens(e, cert)
       \/ ~PeerVerified(e, cert) /\ Fails(e, tls[e[1]])

\* The client's Finished, and in mutual mode its certificate, reach the server.
create_ratls_server(e) ==
    LET conf == handle[e].conf
        cert == tls[e[1]].final.cert
        accepted == /\ cert # None
                    /\ PeerCertificateTrusted(conf, cert, machine["server"].clock)
                    /\ PeerVerified(e, cert)
    IN  /\ e[2] = "server" /\ step[e] = "final" /\ tls[e[1]].final # None
        /\ \/ ~conf.mutual /\ Opens(e, None)
           \/ conf.mutual /\ accepted /\ Opens(e, cert)
           \/ conf.mutual /\ ~accepted /\ Fails(e, tls[e[1]])

(***************************************************************************)
(* Failures around the endpoints.                                          *)
(***************************************************************************)
\* What e waits for will not come: the other end or the link is gone.
Awaited(e) ==
    CASE step[e] = "start" -> e[2] = "client" \/ tls[e[1]].hello # None
      [] step[e] = "connect" -> \/ tls[e[1]].flight # None
                                \/ tls[e[1]].retry = "asked" /\ FirstHello(e[1])
      [] step[e] = "retry" -> ~FirstHello(e[1])
      [] step[e] = "final" -> tls[e[1]].final # None
      [] OTHER -> TRUE

PeerLost(e) == ~Awaited(e) /\ PeerGone(e) /\ Fails(e, tls[e[1]])

CutLink(p) ==
    /\ "link" \notin tls[p].gone
    /\ tls' = [tls EXCEPT ![p].gone = @ \cup {"link"}]
    /\ excuse' = [excuse EXCEPT ![p] = TRUE]
    /\ UNCHANGED <<machine, running, rem, inblob, handle, step, local, sent>>

LinkFails(p) == (\E r \in Role : ~Resting(<<p, r>>)) /\ CutLink(p)

Negotiate(e) ==
    \/ start_client_handshake(e)
    \/ SecondClientHello(e)
    \/ ServerFlight(e)
    \/ WriteInblob(e)
    \/ ReadOutblob(e)
    \/ start_server_handshake(e)
    \/ RetriedFlight(e)
    \/ create_ratls_client(e)
    \/ create_ratls_server(e)
    \/ PeerLost(e)

(***************************************************************************)
(* The C interface.  An application may call it in any order; a call that  *)
(* fails changes nothing but the error text.                               *)
(***************************************************************************)
ratls_init(e, c_conf) ==
    LET conf == conf_from_c(c_conf) IN
    /\ handle[e] = None
    /\ handle' = [handle EXCEPT ![e] =
                     IF conf = None \/ PreparedIssuer(conf) = None THEN None
                     ELSE NewHandle(conf)]
    /\ UNCHANGED <<machine, running, rem, inblob, step, local, tls, sent, excuse>>

ratls_set_verification_callback(e, callback) ==
    /\ handle[e] # None /\ Resting(e)
    /\ handle' = [handle EXCEPT ![e].callback = callback]
    /\ UNCHANGED <<machine, running, rem, inblob, step, local, tls, sent, excuse>>

ratls_negotiate_fd(p) ==
    /\ \A r \in Role : handle[<<p, r>>] # None
    /\ Connect(p, [r \in Role |-> handle[<<p, r>>]])
    /\ UNCHANGED <<machine, running, rem, inblob, handle, sent>>

ratls_transmit(e) ==
    /\ handle[e] # None /\ Resting(e) /\ handle[e].stream # None
    /\ sent[e[1]] = None
    /\ sent' = [sent EXCEPT ![e[1]] = [by |-> e, conn |-> handle[e].stream.conn]]
    /\ UNCHANGED <<machine, running, rem, inblob, handle, step, local, tls, excuse>>

ratls_receive(e) ==
    /\ handle[e] # None /\ Resting(e) /\ handle[e].stream # None
    /\ sent[e[1]] = [by |-> Peer(e), conn |-> handle[e].stream.conn]
    /\ sent' = [sent EXCEPT ![e[1]] = None]
    /\ UNCHANGED <<machine, running, rem, inblob, handle, step, local, tls, excuse>>

ratls_cleanup(e) ==
    /\ handle[e] # None /\ Resting(e)
    /\ handle' = [handle EXCEPT ![e] = None]
    /\ step' = [step EXCEPT ![e] = "idle"]
    /\ tls' = [tls EXCEPT ![e[1]].gone = @ \cup {e[2]}]
    /\ excuse' = [excuse EXCEPT ![e[1]] = TRUE]
    /\ UNCHANGED <<machine, running, rem, inblob, local, sent>>

Application(p) ==
    /\ p \in running
    /\ \/ ratls_negotiate_fd(p)
       \/ \E r \in Role :
             \/ \E conf \in ConfsOf(<<p, r>>) : ratls_init(<<p, r>>, conf)
             \/ \E callback \in CallbacksOf(<<p, r>>) :
                   ratls_set_verification_callback(<<p, r>>, callback)
             \/ ratls_transmit(<<p, r>>)
             \/ ratls_receive(<<p, r>>)
             \/ ratls_cleanup(<<p, r>>)

(***************************************************************************)
(* Properties.                                                             *)
(***************************************************************************)
\* Whoever holds a negotiated stream and was to verify its peer talks to a
\* sound machine: the peer's certificate has the key made for this connection,
\* the report in it answers the digest of the claims next to it, and the
\* claims name that key, this endpoint's random and the key share the
\* connection really uses (create_ratls_client, create_ratls_server).  Two
\* negotiations that cross in the report directory, a HelloRetryRequest, or a
\* stream kept over a failed renegotiation must not break it.
PeerAttested ==
    \A e \in End :
        LET h == handle[e] IN
        h # None /\ h.stream # None /\ (e[2] = "client" \/ h.conf.mutual) =>
            LET s == h.stream
                claims == EvidenceOf(s.peer).claims_buffer
            IN  /\ Sound(machine[Other(e[2])])
                /\ s.peer.key = KeyPair(Other(e[2]), s.conn)
                /\ TokenOf(s.peer).realm.challenge[1] = sha256(claims)
                /\ LastClaim(claims, "pubkey-hash")[2] = sha256(s.peer.key)
                /\ LastClaim(claims, "nonce") = Random(e[2], s.conn)
                /\ LastClaim(claims, "client-key-share-hash")[2] = sha256(s.share)

\* A negotiation between sound machines whose configurations fit, whose
\* callbacks accept and which nothing disturbed succeeds at both ends: an
\* endpoint reports an error only with a cause (a machine that cannot attest,
\* a certificate the peer does not trust, one-sided mutual mode, a rejecting
\* callback, a HelloRetryRequest, two challenges crossing in the report
\* directory, a lost link or a released handle).
FailsForCause ==
    \A e \in End : step[e] = "failed" => excuse[e[1]]
==============================================================================
