------------------------- MODULE HttpRequestAdapter -------------------------
(***************************************************************************)
(* http.request@v1: validation, the redirect limit, the bounded read of    *)
(* the body and the classification of the response.                        *)
(***************************************************************************)
EXTENDS ExecutionDomain

CONSTANTS
  AllowPrivateNetworks,  \* configuration of the address check
  MaxBodyBytes,          \* configured limit on a body
  MaxRedirects           \* configured limit on the redirect chain

ASSUME HttpAssumption ==
  /\ AllowPrivateNetworks \in BOOLEAN
  /\ MaxBodyBytes \in Int64 /\ MaxBodyBytes > 0
  /\ MaxRedirects \in Nat \ {0}

HttpRaw == [of |-> "http", validation |-> FALSE, ctxErr |-> "none", runErr |-> FALSE,
            status |-> 0, headers |-> 0, body |-> 0, truncated |-> FALSE, total |-> 0,
            redirects |-> 0, expected |-> {}, nul |-> FALSE]

\* url says what it parses and resolves to.
validateURL(url) ==
  url \notin {"empty", "unparsable", "scheme", "no host"}
    /\ (AllowPrivateNetworks \/ url \notin {"private", "unresolved"})

\* Empty when the request is to be sent.
HttpRefuses(p, ctx) ==
  IF ctx # "none" THEN {[HttpRaw EXCEPT !.ctxErr = ctx]}
  ELSE IF p.decodes /\ p.method # "empty" /\ validateURL(p.url) THEN {}
  ELSE {[HttpRaw EXCEPT !.validation = TRUE]}

BodyLimit(p) == IF p.maxBody <= 0 THEN MaxBodyBytes ELSE p.maxBody
RedirectLimit(p) == IF p.maxRedirects <= 0 THEN MaxRedirects ELSE p.maxRedirects

\* client.Do failed; nul says whether the error quotes a NUL the server sent.
DoFails(ctx, nul) ==
  IF ctx # "none" THEN [HttpRaw EXCEPT !.ctxErr = ctx]
  ELSE [HttpRaw EXCEPT !.runErr = TRUE, !.nul = nul]

\* Mutant: the limit counts redirects, not the requests sent so far.
CheckRedirectLate(p, via) == via <= RedirectLimit(p) + 1

\* May the redirect be followed after via requests?
CheckRedirect(p, via) == via < RedirectLimit(p)

\* The body of resp, of which resp.arrives bytes come before the connection
\* ends, is read up to the limit and one more; what follows is only counted.
ReadBody(p, resp, via) ==
  LET max == BodyLimit(p)
      limit == Signed(max + 1)
      read == IF limit <= 0 THEN 0 ELSE IF resp.arrives < limit THEN resp.arrives ELSE limit
      seen == [HttpRaw EXCEPT !.status = resp.status, !.redirects = via - 1]
  IN IF resp.arrives < resp.size /\ resp.arrives < limit
     THEN [seen EXCEPT !.runErr = TRUE]
     ELSE [seen EXCEPT
             !.headers = resp.headers, !.expected = p.expected,
             !.truncated = read > max,
             !.body = IF read > max THEN max ELSE read,
             !.total = IF read > max THEN max + 1 + (resp.arrives - read) ELSE read]

\* The metadata is a few bytes of the adapter's own and every header.
HttpNormalize(r, now) ==
  LET Described(res) ==
        [res EXCEPT !.stdout = CHOOSE s \in NewStreamRef(r.body, r.total) : TRUE,
                    !.meta = 1 + r.headers, !.bytes = r.total]
      expected == IF r.expected = {} THEN 200 .. 299 ELSE r.expected
  IN NewExecutionResult(
       IF r.ctxErr # "none" THEN CtxResult(r.ctxErr, now)
       ELSE IF r.validation THEN Failure("non_retryable", "validation_failure", now)
       ELSE IF r.runErr THEN [Failure("unknown", "external_failure", now) EXCEPT !.nul = r.nul]
       ELSE IF r.status \in expected THEN Described(Success(now))
       ELSE Described(Failure(IF r.status \in 500 .. 599 THEN "retryable" ELSE "unknown",
                              "external_failure", now)))
=============================================================================
