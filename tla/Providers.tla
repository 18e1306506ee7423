------------------------------ MODULE Providers ------------------------------
(***************************************************************************)
(* Talking to other people's services: one message sent over WhatsApp, SMS *)
(* or e-mail (integrations/whatsapp.ts, sms.ts, email.ts, over HTTPClient  *)
(* and nodemailer), one sign-in at an identity provider (api/oauth.ts),    *)
(* the webhooks they call (integrations/webhook.ts, sms.ts,                *)
(* api/webhooks.ts) and the WhatsApp socket.  The services are external:   *)
(* they may have acted when an answer is lost, a gateway answers a key it  *)
(* knows without sending again, a code is good once, and a webhook is      *)
(* called until it is answered with a 2xx.  When a breaker opens is        *)
(* HttpBreaker; here it may refuse any call.                               *)
(***************************************************************************)
EXTENDS Naturals

CONSTANTS
  MaxRetries,  \* RetryPolicy.maxRetries
  MaxCalls,    \* bound: the application's own attempts at the message
  MaxPosts,    \* bound: calls of a webhook
  MaxFrames    \* bound: messages on the socket

ProvidersAssumption ==
  /\ MaxRetries \in Nat /\ MaxCalls \in Nat /\ MaxPosts \in Nat /\ MaxFrames \in Nat

VARIABLES
  out,     \* [pc, kind, keyed, tries, calls]: sending the message
  copies,  \* how often its recipient got it
  known,   \* the gateway has sent something under its key
  login,   \* [pc, tries, access, user]: the dance, with one code
  code,    \* "fresh" or "spent", at the identity provider
  hook,    \* [pc, options, post, posts, status]
  handled, \* handlers completed for the post
  acked,   \* it was answered with 200
  socket   \* [state, heard]: heard messages went to the handler

outbound == <<out, copies, known>>
oauth == <<login, code>>
inbound == <<hook, handled, acked>>
vars == <<outbound, oauth, inbound, socket>>

NoOptions == [route |-> "none", secret |-> FALSE, publicUrl |-> FALSE, proxied |-> FALSE,
              parsed |-> FALSE]
NoPost == [key |-> FALSE, tampered |-> FALSE, empty |-> FALSE, valid |-> FALSE]

Init ==
  /\ out = [pc |-> "idle", kind |-> "none", keyed |-> FALSE, tries |-> 0, calls |-> 0]
  /\ copies = 0 /\ known = FALSE
  /\ login = [pc |-> "code", tries |-> 0, access |-> "none", user |-> "none"]
  /\ code = "fresh"
  /\ hook = [pc |-> "idle", options |-> NoOptions, post |-> NoPost, posts |-> 0, status |-> 0]
  /\ handled = 0 /\ acked = FALSE
  /\ socket = [state |-> "connecting", heard |-> 0]

-----------------------------------------------------------------------------
(* sendText and sendMedia                                                  *)

\* only WhatsAppProvider passes SendOptions on; the application repeats a message
\* that failed under the key it had
Send(kind, keyed) ==
  /\ out.pc \in {"idle", "failed"} /\ out.calls < MaxCalls
  /\ out.calls > 0 => out.kind = kind /\ out.keyed = (keyed /\ kind = "whatsapp")
  /\ \E pc \in {"trying"} \cup IF kind = "email" THEN {} ELSE {"failed"} :  \* CircuitOpenError
       out' = [pc |-> pc, kind |-> kind, keyed |-> keyed /\ kind = "whatsapp",
               tries |-> 0, calls |-> out.calls + 1]
  /\ UNCHANGED <<copies, known, oauth, inbound, socket>>

LastTry(tries) == tries >= MaxRetries

\* what a service did with a request, and what came back
Replies == {[acted |-> TRUE, status |-> "ok"], [acted |-> FALSE, status |-> "refused"]}
           \cup {[acted |-> a, status |-> s] : a \in BOOLEAN, s \in {"busy", "lost"}}

\* faulty variant: a retry does not carry the headers of the call
AttemptBare ==
  /\ out.pc = "trying"
  /\ \E reply \in Replies :
       /\ LET keyed == out.keyed /\ out.tries = 0
          IN IF reply.acted /\ ~(keyed /\ known)
             THEN copies' = copies + 1 /\ known' = (known \/ keyed)
             ELSE UNCHANGED <<copies, known>>
       /\ out' = IF reply.status = "ok" THEN [out EXCEPT !.pc = "sent"]
                 ELSE IF reply.status = "refused" \/ LastTry(out.tries)
                 THEN [out EXCEPT !.pc = "failed"]
                 ELSE [out EXCEPT !.tries = @ + 1]
  /\ UNCHANGED <<oauth, inbound, socket>>

\* one turn of HTTPClient.request's loop, the same headers in each; SMTP is tried once.
\* A body that cannot be read counts as "queued".
Attempt ==
  /\ out.pc = "trying"
  /\ \E reply \in Replies :
       /\ IF reply.acted /\ ~(out.keyed /\ known)
          THEN copies' = copies + 1 /\ known' = (known \/ out.keyed)
          ELSE UNCHANGED <<copies, known>>
       /\ out' = IF reply.status = "ok" THEN [out EXCEPT !.pc = "sent"]
                 ELSE IF reply.status = "refused" \/ LastTry(out.tries) \/ out.kind = "email"
                 THEN [out EXCEPT !.pc = "failed"]
                 ELSE [out EXCEPT !.tries = @ + 1]
  /\ UNCHANGED <<oauth, inbound, socket>>

OutboundNext ==
  \/ \E kind \in {"whatsapp", "sms", "email"}, keyed \in BOOLEAN : Send(kind, keyed)
  \/ Attempt

-----------------------------------------------------------------------------
(* exchangeCode and fetchUser                                              *)

Login(pc, tries, access, user) ==
  [pc |-> pc, tries |-> tries, access |-> access, user |-> user]

Again(pc) == IF LastTry(login.tries) THEN [login EXCEPT !.pc = "failed"]
             ELSE Login(pc, login.tries + 1, login.access, login.user)

\* a provider turns a spent code away with a 4xx, or with a 200 that holds no token:
\* String(undefined) is a token to the client
ExchangeCode ==
  /\ login.pc = "code"
  /\ \/ /\ code = "fresh" /\ code' = "spent"
        /\ \/ login' = Login("tokens", 0, "real", login.user)
           \/ login' = Again("code")
     \/ /\ UNCHANGED code
        /\ login' = Again("code")
     \/ /\ code = "spent" /\ UNCHANGED code
        /\ \/ login' = [login EXCEPT !.pc = "failed"]
           \/ login' = Login("tokens", 0, "undefined", login.user)
  /\ UNCHANGED <<outbound, inbound, socket>>

\* faulty variant: the status is not looked at
FetchUserUnchecked(endpoint) ==
  /\ login.pc = "tokens"
  /\ \/ login' = [login EXCEPT !.pc = "done",
                    !.user = IF login.access = "real" THEN "owner" ELSE "undefined"]
     \/ login' = Again("tokens")
  /\ UNCHANGED <<code, outbound, inbound, socket>>

FetchUser(endpoint) ==
  /\ login.pc = "tokens"
  /\ \/ /\ endpoint /\ login.access = "real"
        /\ login' = Login("done", login.tries, login.access, "owner")
     \/ ~endpoint /\ login' = [login EXCEPT !.pc = "failed"]
     \/ endpoint /\ login.access # "real" /\ login' = [login EXCEPT !.pc = "failed"]
     \/ endpoint /\ login' = Again("tokens")
  /\ UNCHANGED <<code, outbound, inbound, socket>>

OAuthNext == ExchangeCode \/ \E endpoint \in BOOLEAN : FetchUser(endpoint)

-----------------------------------------------------------------------------
(* webhooks: WhatsApp's shared key, Twilio's signature of URL and fields,  *)
(* WebhookSignatureVerifier's of the raw body                              *)

KeyMatches(options, post) == ~options.secret \/ post.key

\* the URL signed is the public one, or what the server makes of the request
UrlIsPublic(options) == options.publicUrl \/ ~options.proxied

\* validateTwilioSignature: of the URL and the fields
TwilioSigned(options, post) ==
  ~options.secret \/ (post.key /\ ~post.tampered /\ UrlIsPublic(options))

\* verify: of the raw body; where a parser came first, of an empty one in its place
BodySigned(options, post) ==
  post.key /\ IF options.parsed THEN post.empty ELSE ~post.tampered

Passes(options, post) ==
  /\ options.route = "whatsapp" => KeyMatches(options, post)
  /\ options.route = "twilio" => TwilioSigned(options, post)
  /\ options.route = "signed" => BodySigned(options, post)

\* inboundMessageSchema.parse, for WhatsApp only
Parses(options, post) == options.route = "whatsapp" => post.valid

\* the sender repeats a post until it is acknowledged
Post(options, post) ==
  /\ hook.pc = "idle" /\ ~acked /\ hook.posts < MaxPosts
  /\ hook.posts > 0 => options = hook.options /\ post = hook.post
  /\ LET status == IF ~Passes(options, post) THEN 401
                   ELSE IF ~Parses(options, post) THEN 422 ELSE 0
     IN hook' = [pc |-> IF status = 0 THEN "handling" ELSE "idle", options |-> options,
                 post |-> post, posts |-> hook.posts + 1, status |-> status]
  /\ UNCHANGED <<handled, acked, outbound, oauth, socket>>

Answered(status) ==
  [pc |-> "idle", options |-> hook.options, post |-> hook.post, posts |-> hook.posts,
   status |-> status]

\* faulty variant: the answer does not wait for the handler
HandledUnawaited ==
  /\ hook.pc = "handling"
  /\ handled' = handled /\ acked' = TRUE
  /\ hook' = Answered(200)
  /\ UNCHANGED <<outbound, oauth, socket>>

Handled ==
  /\ hook.pc = "handling"
  /\ \/ /\ handled' = handled + 1 /\ acked' = TRUE
        /\ hook' = Answered(200)
     \/ /\ UNCHANGED <<handled, acked>>
        /\ hook' = Answered(500)
  /\ UNCHANGED <<outbound, oauth, socket>>

InboundNext ==
  \/ Handled
  \/ \E route \in {"whatsapp", "twilio", "signed"}, key \in BOOLEAN, tampered \in BOOLEAN,
        empty \in BOOLEAN, valid \in BOOLEAN, secret \in BOOLEAN, publicUrl \in BOOLEAN, proxied \in BOOLEAN,
        parsed \in BOOLEAN :
       Post([route |-> route, secret |-> secret, publicUrl |-> publicUrl,
             proxied |-> proxied, parsed |-> parsed],
            [key |-> key, tampered |-> tampered, empty |-> empty, valid |-> valid])

-----------------------------------------------------------------------------
(* WhatsAppProvider.onMessage.  There is no listener for "error": where ws *)
(* emits one the process ends.                                             *)

Opened ==
  /\ socket.state = "connecting"
  /\ socket' = [socket EXCEPT !.state = "open"]
  /\ UNCHANGED <<outbound, oauth, inbound>>

\* frames are read until the socket is closed, so the handler still runs after the
\* caller has unsubscribed; a frame of another type or without payload is dropped
Frame(message) ==
  /\ socket.state \in {"open", "closing"} /\ socket.heard < MaxFrames
  /\ socket' = [socket EXCEPT !.heard = @ + IF message THEN 1 ELSE 0]
  /\ UNCHANGED <<outbound, oauth, inbound>>

\* closing a socket that is not open yet is an error of ws
Unsubscribe ==
  /\ socket.state \in {"connecting", "open", "closed"}
  /\ socket' = [socket EXCEPT !.state = IF @ = "connecting" THEN "crashed"
                                        ELSE IF @ = "open" THEN "closing" ELSE @]
  /\ UNCHANGED <<outbound, oauth, inbound>>

Dropped ==
  /\ socket.state \in {"connecting", "open", "closing"}
  /\ \E end \in {"closed", "crashed"} : socket' = [socket EXCEPT !.state = end]
  /\ UNCHANGED <<outbound, oauth, inbound>>

SocketNext == Opened \/ (\E message \in BOOLEAN : Frame(message)) \/ Unsubscribe \/ Dropped

Next == OutboundNext \/ OAuthNext \/ InboundNext \/ SocketNext

Spec == Init /\ [][Next]_vars

-----------------------------------------------------------------------------

TypeOK ==
  /\ out.pc \in {"idle", "trying", "sent", "failed"} /\ out.calls \in 0 .. MaxCalls
  /\ login.pc \in {"code", "tokens", "done", "failed"} /\ code \in {"fresh", "spent"}
  /\ hook.pc \in {"idle", "handling"} /\ hook.posts \in 0 .. MaxPosts
  /\ socket.state \in {"connecting", "open", "closing", "closed", "crashed"}

\* "Idempotency key to de-duplicate retries" (provider.ts): under a key the recipient
\* gets a message once at most, whichever answers are lost, however often the client
\* or the application tries again; and what resolved has been sent.
MessagesArriveOnce ==
  /\ out.keyed => copies <= 1
  /\ out.pc = "sent" => copies >= 1

\* An identity is the one the code was issued for, and the code is spent for it, also
\* when answers are lost and the exchange is retried with a code that is spent.
IdentityIsEarned == login.user # "none" => login.user = "owner" /\ code = "spent"

\* A post that is acknowledged has been handled to its end, one that was handled came
\* from the holder of the key and, where fields are signed, as it was sent; and the
\* genuine sender is turned away only by a server that does not know its own URL or
\* parses the body first.  That one verifies an empty body instead, against the rule its
\* documentation sets: it tells the sender of an empty body, not what arrived.
HooksHearTheirSender ==
  /\ acked => handled >= 1
  /\ handled > 0 /\ (hook.options.secret \/ hook.options.route = "signed") =>
       /\ hook.post.key
       /\ hook.options.route # "whatsapp" =>
            ~hook.post.tampered \/ (hook.options.parsed /\ hook.post.empty)
  /\ hook.status = 401 /\ hook.post.key /\ ~hook.post.tampered =>
       \/ hook.options.route = "twilio" /\ hook.options.proxied
       \/ hook.options.route = "signed" /\ hook.options.parsed
===============================================================================
