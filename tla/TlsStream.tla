------------------------------ MODULE TlsStream ------------------------------
(***************************************************************************)
(* The TLS handshake of TlsAcceptor::accept over a non-blocking TcpStream:   *)
(* do_handshake, read_tls_from_tcp and flush_write_tls.  rustls and the      *)
(* client are external: the client sends two flights of two bytes, the       *)
(* second after the server's, and rustls takes the bytes of a flight in      *)
(* order or fails.                                                           *)
(***************************************************************************)
EXTENDS Integers, Sequences, SequencesExt

VARIABLES tcp_in, tcp_out,  \* the socket's buffers
          rustls,           \* ServerConnection
          write_buf, write_offset,
          hs,               \* where do_handshake is
          sent              \* flights the client has sent

tlsVars == <<tcp_in, tcp_out, rustls, write_buf, write_offset, hs, sent>>

ClientFlight == <<<<1, 2>>, <<3, 4>>>>
ServerFlight == <<5, 6>>

-----------------------------------------------------------------------------
(* rustls::ServerConnection.                                                  *)

new_conn == [in |-> <<>>, got |-> 0, out |-> <<>>, ok |-> TRUE]

is_handshaking(c) == c.got < 2
wants_write(c)    == c.out # <<>>

process_new_packets(c) ==
    LET flight == ClientFlight[c.got + 1] IN
    IF ~IsPrefix(c.in, flight) THEN [c EXCEPT !.ok = FALSE]
    ELSE IF c.in # flight THEN c
    ELSE [c EXCEPT !.in = <<>>, !.got = @ + 1, !.out = IF c.got = 0 THEN ServerFlight ELSE <<>>]

-----------------------------------------------------------------------------
(* TlsStream.                                                                 *)

\* TlsAcceptor::accept: TlsStream::new, and the handshake starts
TlsInit ==
    /\ tcp_in = <<>> /\ tcp_out = <<>> /\ rustls = new_conn
    /\ write_buf = <<>> /\ write_offset = 0
    /\ hs = "loop" /\ sent = 0

\* the conditions of the loop, and the flush after it
do_handshake ==
    /\ hs = "loop"
    /\ IF wants_write(rustls)
       THEN /\ write_buf' = write_buf \o rustls.out  \* write_tls
            /\ write_offset' = 0
            /\ rustls' = [rustls EXCEPT !.out = <<>>]
            /\ hs' = "flush"
       ELSE /\ hs' = IF is_handshaking(rustls) THEN "readable" ELSE "done"
            /\ UNCHANGED <<write_buf, write_offset, rustls>>
    /\ UNCHANGED <<tcp_in, tcp_out, sent>>

\* one write of the loop of flush_write_tls; the socket takes some of the bytes
flush_write_tls ==
    /\ hs = "flush"
    /\ \E n \in 1..(Len(write_buf) - write_offset) :
         /\ tcp_out' = tcp_out \o SubSeq(write_buf, write_offset + 1, write_offset + n)
         /\ IF write_offset + n < Len(write_buf)
            THEN write_offset' = write_offset + n /\ UNCHANGED <<write_buf, hs>>
            ELSE write_buf' = <<>> /\ write_offset' = 0 /\ hs' = "loop"
    /\ UNCHANGED <<tcp_in, rustls, sent>>

\* the wait for the socket: poll_read with a buffer of one byte, which it fills
wait_readable ==
    /\ hs = "readable" /\ tcp_in # <<>>
    /\ tcp_in' = Tail(tcp_in)
    /\ hs' = "read_tls"
    /\ UNCHANGED <<tcp_out, rustls, write_buf, write_offset, sent>>

\* read_tls takes what the socket has, nothing if it would block; then
\* process_new_packets
read_tls_from_tcp ==
    /\ hs = "read_tls"
    /\ rustls' = process_new_packets([rustls EXCEPT !.in = @ \o tcp_in])
    /\ tcp_in' = <<>>
    /\ hs' = IF rustls'.ok THEN "loop" ELSE "failed"
    /\ UNCHANGED <<tcp_out, write_buf, write_offset, sent>>

\* the client's next flight arrives
client_flight ==
    /\ sent < 2 /\ (sent = 1 => tcp_out = ServerFlight)
    /\ tcp_in' = tcp_in \o ClientFlight[sent + 1]
    /\ sent' = sent + 1
    /\ UNCHANGED <<tcp_out, rustls, write_buf, write_offset, hs>>

TlsNext == do_handshake \/ flush_write_tls \/ wait_readable \/ read_tls_from_tcp \/ client_flight

TlsSpec == TlsInit /\ [][TlsNext]_tlsVars

-----------------------------------------------------------------------------
\* The handshake with a client that keeps to the protocol, over a connection that
\* loses nothing, does not fail (do_handshake, read_tls_from_tcp).
HandshakeSound == hs # "failed"
=============================================================================
