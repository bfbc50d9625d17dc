------------------------------- MODULE Transport -------------------------------
(***************************************************************************)
(* One API request of the console's pages (requestAPI of                   *)
(* web/apostille-page.mjs) or of the SDK (#request and readResponse of     *)
(* sdk/apostille-js/src/client.mjs): a deadline over headers and body, no  *)
(* redirects, a cap on the announced and on the received length, an error  *)
(* code or one JSON object as the answer.  The server and the network do   *)
(* what they like: they may stay silent at any point, announce one length  *)
(* and send another (content coding), answer twice as much as allowed.     *)
(***************************************************************************)
EXTENDS Integers

CONSTANTS Cap,      \* MAX_RESPONSE_BYTES, in units of the smallest chunk
          Sizes,    \* lengths of bodies
          Chunks,   \* lengths of what one read returns
          None

ASSUME TransportAssumption ==
    /\ Cap \in Nat /\ Sizes \subseteq Nat /\ Chunks \subseteq Nat \ {0}
    /\ None \notin Sizes /\ None # "data"

Responses ==
    [status : {"ok", "error", "redirect"}, announcedBeyond : BOOLEAN,
     size : Sizes \cup {None}, body : {"object", "other", "garbled"}]

VARIABLE exchange   \* the request: how far it is, what has arrived, the outcome

NewExchange(client) ==
    [client |-> client, phase |-> "idle", response |-> None, read |-> 0, kept |-> 0,
     expired |-> FALSE, outcome |-> None]

\* The end of a request.  The page reports a deadline that passed before any
\* other reason; the SDK keeps the reason it had found.
Settled(e, reason) ==
    [e EXCEPT !.phase = "settled",
              !.outcome = IF e.expired /\ (e.client = "page" \/ reason = "network_error")
                          THEN "request_timeout" ELSE reason]

\* Neither client follows a redirect.  A browser's fetch rejects one; a fetch
\* given to the SDK may return it, and the SDK then refuses it by its status.
RedirectReasons(client) ==
    {"network_error"} \cup IF client = "page" THEN {} ELSE {"redirect_rejected"}

Send ==
    /\ exchange.phase = "idle"
    /\ exchange' = [exchange EXCEPT !.phase = "fetching"]

HeadersArrive ==
    /\ exchange.phase = "fetching"
    /\ \E response \in Responses, refusal \in RedirectReasons(exchange.client) :
         LET e == [exchange EXCEPT !.response = response]
         IN  exchange' =
               CASE response.status = "redirect" -> Settled(e, refusal)
                 [] response.status # "redirect" /\ response.announcedBeyond ->
                      [e EXCEPT !.phase = "cancelling"]
                 [] response.status # "redirect" /\ ~response.announcedBeyond ->
                      IF response.size = None THEN Settled(e, "invalid_response")
                      ELSE [e EXCEPT !.phase = "reading"]

\* A slip: only the announced length is looked at.
ChunkArrivesUncounted ==
    /\ exchange.phase = "reading"
    /\ \E n \in Chunks :
         /\ exchange.read + n <= exchange.response.size
         /\ exchange' = [exchange EXCEPT !.read = @ + n, !.kept = @ + n]

\* The chunk that exceeds the cap is not kept.
ChunkArrives ==
    /\ exchange.phase = "reading"
    /\ \E n \in Chunks :
         LET size == exchange.read + n
         IN  /\ size <= exchange.response.size
             /\ exchange' = IF size > Cap
                            THEN [exchange EXCEPT !.read = size, !.phase = "cancelling"]
                            ELSE [exchange EXCEPT !.read = size, !.kept = size]

BodyEnds ==
    /\ exchange.phase = "reading"
    /\ exchange.read = exchange.response.size
    /\ exchange' = Settled(exchange,
         CASE exchange.response.body = "garbled" -> "invalid_response"
           [] exchange.response.body # "garbled" /\ exchange.response.status = "error" ->
                "api_error"
           [] exchange.response.body = "other" /\ exchange.response.status = "ok" ->
                "invalid_response"
           [] exchange.response.body = "object" /\ exchange.response.status = "ok" -> "data")

BodyCancelled ==
    /\ exchange.phase = "cancelling"
    /\ exchange' = Settled(exchange, "response_too_large")

ConnectionBreaks ==
    /\ exchange.phase \in {"fetching", "reading", "cancelling"}
    /\ exchange' = Settled(exchange, "network_error")

\* A slip: the timer is cleared when the headers have arrived.
DeadlinePassesForHeaders ==
    /\ exchange.phase = "fetching"
    /\ exchange' = Settled([exchange EXCEPT !.expired = TRUE], "network_error")

\* The controller aborts: fetch and read reject; a cancellation goes on.
DeadlinePasses ==
    /\ exchange.phase \in {"fetching", "reading", "cancelling"} /\ ~exchange.expired
    /\ LET e == [exchange EXCEPT !.expired = TRUE]
       IN  exchange' = IF e.phase = "cancelling" THEN e ELSE Settled(e, "network_error")

\* What happens to a request that its caller has sent.
TransportNext ==
    \/ HeadersArrive
    \/ ChunkArrives
    \/ BodyEnds
    \/ BodyCancelled
    \/ ConnectionBreaks
    \/ DeadlinePasses

\* What a caller is handed is one whole object of a successful response, all of
\* it within the cap and before the deadline; no more than the cap is ever
\* held, whatever was announced ("the same deadline, bounded stream reader").
DeliveredWhole ==
    /\ exchange.kept <= Cap
    /\ exchange.outcome = "data" =>
         /\ exchange.response.status = "ok" /\ exchange.response.body = "object"
         /\ exchange.kept = exchange.response.size
         /\ ~exchange.expired
==============================================================================
