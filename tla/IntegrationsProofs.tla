-------------------------- MODULE IntegrationsProofs --------------------------
(***************************************************************************)
(* Theorems about Integrations, for any number of providers, admins, edits *)
(* and faults.                                                             *)
(***************************************************************************)
EXTENDS Integrations, TLAPS

Request == [at: Stages, provider: Providers, settings: Settings, typed: Credentials,
            key: Credentials, dns: Authorities, clean: BOOLEAN]

-----------------------------------------------------------------------------
(* The inductive invariant.                                                   *)

\* What a request r that has been alone knows of the settings s, the credentials v and the
\* authorities l is still so.
Current(r, s, v, l) ==
  /\ r.at = "save" /\ r.provider \in Keyed /\ r.typed = NoKey /\ ~ TurnsOff(r.provider, r.settings)
       => r.key = v[r.provider]
  /\ r.at \in {"put", "install"} => s[r.provider] = r.settings
  /\ r.at = "install" /\ r.provider \in Keyed
       => Built(r.provider, r.settings, r.key) = Built(r.provider, r.settings, v[r.provider])
  /\ r.at \in {"save", "install"} /\ r.provider = LE => r.dns = l[Dns]
  /\ r.at \in {"refresh", "rebuild"} => l[Dns] = Built(Dns, s[Dns], v[Dns])
  /\ r.at = "refresh" => l[Dns] = Built(Dns, r.settings, r.key)
  /\ r.at = "rebuild" => r.dns = l[Dns] /\ r.settings = s[LE]

\* What holds of every request: where it can be, that a provider is marked (d) from the first
\* write on, and that DNS-01 settings are only saved over a credential.
Sound(r, s, v, l, d) ==
  /\ r.at \in {"key", "put"} => r.provider \in Keyed
  /\ r.at = "key" => r.typed = NoKey
  /\ r.at = "put" => r.typed # NoKey
  /\ r.at \in {"refresh", "rebuild"} => r.provider = Dns
  /\ r.typed # NoKey => r.key = r.typed /\ r.provider \in Keyed
  /\ r.at # "none" /\ r.provider = LE => r.settings \in Options
  /\ r.at = "rebuild" => r.settings # Off /\ s[LE] # Off
  /\ r.at \in {"put", "install"} => r.provider \in d /\ (r.provider = LE => s[LE] # Off)
  /\ r.at = "save" /\ r.provider = Dns /\ r.settings # Off /\ r.typed = NoKey => v[Dns] # NoKey
  /\ r.clean => Current(r, s, v, l)

AllSound == \A a \in Admins : Sound(request[a], saved, vault, live, dirty)

\* Of two requests that touch the same things neither counts as having been alone.
Lone ==
  \A a, b \in Admins :
    /\ a # b /\ request[a].at # "none" /\ request[b].at # "none"
    /\ Related(request[a].provider, request[b].provider)
    => ~ request[a].clean

IntegrationsInv ==
  /\ IntegrationsTypeOK
  /\ live = [p \in Providers |-> live[p]]
  /\ AllSound
  /\ Lone
  /\ ~ up => \A a \in Admins : request[a].at = "none"
  /\ up /\ saved[LE] = Off => live[LE] = Nothing
  /\ LiveMatchesSaved
  /\ LetsEncryptFollowsDNS
  /\ RefusedOnlyByHalfAnEdit

-----------------------------------------------------------------------------
(* Starts.                                                                    *)

LEMMA Names == LE \in Providers /\ Dns \in Keyed /\ Keyed \subseteq Providers /\ LE \notin Keyed /\ Dns # LE
BY IntegrationsAssumption DEF Providers

LEMMA BuiltType ==
  ASSUME NEW k, NEW s \in Settings, NEW c \in Credentials PROVE Built(k, s, c) \in Authorities
BY DEF Built, Authorities

\* What is built at a start, of the credentials it could read.
LEMMA BootIs ==
  ASSUME saved \in [Providers -> Settings], NEW key, key \in [Keyed -> Credentials]
  PROVE  /\ Boot(key) = [p \in Providers |-> Boot(key)[p]]
         /\ \A k \in Keyed : Boot(key)[k] = Built(k, saved[k], key[k]) /\ Boot(key)[k] \in Authorities
         /\ Boot(key)[LE] = IF saved[LE] = Off THEN Nothing ELSE <<saved[LE], Boot(key)[Dns]>>
         /\ Boot(key)[LE] \in LEAuthorities
<1>1. Boot(key) = [p \in Providers |-> Boot(key)[p]]
  BY DEF Boot
<1>2. ASSUME NEW k \in Keyed PROVE Boot(key)[k] = Built(k, saved[k], key[k]) /\ Boot(key)[k] \in Authorities
  <2>1. Boot(key)[k] = Built(k, saved[k], key[k])
    BY Names DEF Boot
  <2>2. saved[k] \in Settings /\ key[k] \in Credentials
    BY Names
  <2>. QED
    BY <2>1, <2>2, BuiltType
<1>3. Boot(key)[LE] = IF saved[LE] = Off THEN Nothing ELSE <<saved[LE], Boot(key)[Dns]>>
  <2>1. Boot(key)[LE] = IF saved[LE] = Off THEN Nothing ELSE <<saved[LE], Built(Dns, saved[Dns], key[Dns])>>
    BY Names DEF Boot
  <2>. QED
    BY <2>1, <1>2, Names
<1>4. Boot(key)[LE] \in LEAuthorities
  BY <1>2, <1>3, Names DEF LEAuthorities
<1>. QED
  BY <1>1, <1>2, <1>3, <1>4

\* A request that is not there knows nothing.
LEMMA NoRequestSound ==
  ASSUME NEW s, NEW v, NEW l, NEW d
  PROVE  NoRequest \in Request /\ Sound(NoRequest, s, v, l, d)
<1>1. NoRequest \in Request
  BY Names DEF NoRequest, Request, Stages, Settings, Credentials, Authorities
<1>2. Sound(NoRequest, s, v, l, d)
  BY DEF NoRequest, Sound, Current
<1>. QED
  BY <1>1, <1>2

LEMMA Initially == IntegrationsInit => IntegrationsInv
<1> SUFFICES ASSUME IntegrationsInit PROVE IntegrationsInv
  OBVIOUS
<1>1. /\ live = [p \in Providers |-> live[p]]
      /\ \A k \in Keyed : live[k] = Built(k, saved[k], vault[k]) /\ live[k] \in Authorities
      /\ live[LE] = IF saved[LE] = Off THEN Nothing ELSE <<saved[LE], live[Dns]>>
      /\ live[LE] \in LEAuthorities
  BY BootIs DEF IntegrationsInit
<1>2. request \in [Admins -> Request] /\ AllSound /\ \A a \in Admins : request[a].at = "none"
  BY NoRequestSound DEF IntegrationsInit, AllSound, NoRequest
<1>3. IntegrationsTypeOK
  <2>1. {up, refused} \subseteq BOOLEAN /\ ~ (up /\ refused)
    BY DEF IntegrationsInit
  <2>2. edits \in 0 .. MaxEdits /\ faults \in 0 .. MaxFaults /\ dirty \in SUBSET Providers /\ half \in SUBSET Keyed
    BY IntegrationsAssumption DEF IntegrationsInit
  <2>3. saved \in [Providers -> Settings] /\ vault \in [Keyed -> Credentials]
    BY DEF IntegrationsInit
  <2>. QED
    BY <1>1, <1>2, <2>1, <2>2, <2>3 DEF IntegrationsTypeOK, Request
<1>4. Lone
  BY <1>2 DEF Lone
<1>5. LiveMatchesSaved /\ LetsEncryptFollowsDNS /\ RefusedOnlyByHalfAnEdit
  BY <1>1 DEF IntegrationsInit, LiveMatchesSaved, LetsEncryptFollowsDNS, RefusedOnlyByHalfAnEdit
<1>. QED
  BY <1>1, <1>2, <1>3, <1>4, <1>5 DEF IntegrationsInv

\* main, whichever credentials it could read: what it builds is what is on file, except of
\* providers whose credential it could not.
LEMMA StartKeeps ==
  ASSUME IntegrationsInv, NEW key, key \in [Keyed -> Credentials], StartWith(key),
         NEW ks, ks \subseteq Keyed, dirty' = ks, \A k \in Keyed \ ks : key[k] = vault[k],
         faults' \in 0 .. MaxFaults
  PROVE  IntegrationsInv'
<1>1. ~ up /\ UNCHANGED <<saved, vault, request, edits, half>>
  BY DEF StartWith
<1>2. \A a \in Admins : request'[a].at = "none"
  BY <1>1 DEF IntegrationsInv
<1>3. saved \in [Providers -> Settings]
  BY DEF IntegrationsInv, IntegrationsTypeOK
<1>4. CASE up' = TRUE /\ refused' = FALSE /\ live' = Boot(key)
  <2>1. /\ live' = [p \in Providers |-> live'[p]]
        /\ \A k \in Keyed : live'[k] = Built(k, saved[k], key[k]) /\ live'[k] \in Authorities
        /\ live'[LE] = IF saved[LE] = Off THEN Nothing ELSE <<saved[LE], live'[Dns]>>
        /\ live'[LE] \in LEAuthorities
    BY <1>3, <1>4, BootIs
  <2>2. IntegrationsTypeOK'
    BY <1>1, <1>4, <2>1, Names DEF IntegrationsInv, IntegrationsTypeOK
  <2>3. LiveMatchesSaved' /\ LetsEncryptFollowsDNS' /\ (up /\ saved[LE] = Off => live[LE] = Nothing)'
    BY <1>1, <2>1 DEF LiveMatchesSaved, LetsEncryptFollowsDNS
  <2>. QED
    BY <1>1, <1>2, <1>4, <2>1, <2>2, <2>3 DEF IntegrationsInv, AllSound, Lone, Sound, Current, RefusedOnlyByHalfAnEdit
<1>5. CASE refused' = TRUE /\ up' = up /\ live' = live
  <2>2. IntegrationsTypeOK'
    BY <1>1, <1>5, Names DEF IntegrationsInv, IntegrationsTypeOK
  <2>. QED
    BY <1>1, <1>2, <1>5, <2>2
    DEF IntegrationsInv, AllSound, Lone, Sound, Current, RefusedOnlyByHalfAnEdit, LiveMatchesSaved, LetsEncryptFollowsDNS
<1>. QED
  BY <1>4, <1>5 DEF StartWith

\* The server stops: no request is left.
LEMMA StopKeeps == IntegrationsInv /\ Stop => IntegrationsInv'
<1> SUFFICES ASSUME IntegrationsInv, Stop PROVE IntegrationsInv'
  OBVIOUS
<1>1. /\ up' = FALSE /\ UNCHANGED <<saved, vault, refused, edits, dirty, half>>
      /\ request' \in [Admins -> Request] /\ \A a \in Admins : request'[a].at = "none" /\ request'[a] = NoRequest
      /\ live' = [p \in Providers |-> Nothing]
  BY NoRequestSound DEF Stop, NoRequest
<1>2. faults' \in 0 .. MaxFaults
  BY IntegrationsAssumption DEF Stop, Fault, IntegrationsInv, IntegrationsTypeOK
<1>3. {up', refused'} \subseteq BOOLEAN /\ ~ (up' /\ refused')
  BY <1>1 DEF IntegrationsInv, IntegrationsTypeOK
<1>4. IntegrationsTypeOK'
  <2>1. /\ saved' \in [Providers -> Settings] /\ vault' \in [Keyed -> Credentials]
        /\ edits' \in 0 .. MaxEdits /\ dirty' \in SUBSET Providers /\ half' \in SUBSET Keyed
    BY <1>1 DEF IntegrationsInv, IntegrationsTypeOK
  <2>2. (\A k \in Keyed : live'[k] \in Authorities) /\ live'[LE] \in LEAuthorities
    BY <1>1, Names DEF Authorities, LEAuthorities
  <2>. QED
    BY <1>1, <1>2, <1>3, <2>1, <2>2 DEF IntegrationsTypeOK, Request
<1>5. AllSound'
  BY <1>1, NoRequestSound DEF AllSound
<1>6. Lone'
  BY <1>1 DEF Lone
<1>7. live' = [p \in Providers |-> live'[p]]
  BY <1>1
<1>. QED
  BY <1>1, <1>4, <1>5, <1>6, <1>7 DEF IntegrationsInv, LiveMatchesSaved, LetsEncryptFollowsDNS, RefusedOnlyByHalfAnEdit

-----------------------------------------------------------------------------
(* Requests.                                                                  *)

\* A request comes in: only what the others count as changes.
LEMMA BeginKeeps ==
  ASSUME IntegrationsInv, NEW a \in Admins, NEW p \in Providers, NEW s \in Settings, NEW t \in Credentials,
         NEW stage \in Stages, NEW d \in Authorities, Begin(a, p, s, t, stage, d),
         NEW r, r = [at |-> stage, provider |-> p, settings |-> s, typed |-> t, key |-> t, dns |-> d,
                     clean |-> Rivals(a, p) = {}],
         Sound(r, saved, vault, live, dirty)
  PROVE  IntegrationsInv'
<1>1. UNCHANGED <<saved, vault, live, up, refused, faults, dirty, half>> /\ up /\ edits' = edits + 1 /\ edits < MaxEdits
  BY DEF Begin
<1>2. request'[a] = r /\ r \in Request
  <2>1. request'[a] = r
    BY DEF Begin
  <2>2. (Rivals(a, p) = {}) \in BOOLEAN
    OBVIOUS
  <2>. QED
    BY <2>1, <2>2 DEF Request
<1>3. ASSUME NEW b \in Admins, b # a
      PROVE  /\ request'[b] = IF b \in Rivals(a, p) THEN [request[b] EXCEPT !.clean = FALSE] ELSE request[b]
             /\ request'[b] \in Request /\ Sound(request'[b], saved, vault, live, dirty)
             /\ request'[b].at = request[b].at /\ request'[b].provider = request[b].provider
             /\ (request'[b].clean => request[b].clean /\ b \notin Rivals(a, p))
  <2>1. request'[b] = IF b \in Rivals(a, p) THEN [request[b] EXCEPT !.clean = FALSE] ELSE request[b]
    BY <1>3 DEF Begin
  <2>2. request[b] \in Request /\ Sound(request[b], saved, vault, live, dirty)
    BY DEF IntegrationsInv, IntegrationsTypeOK, Request, AllSound
  <2>3. CASE b \in Rivals(a, p)
    <3>1. PICK q : q = [request[b] EXCEPT !.clean = FALSE]
      OBVIOUS
    <3>2. /\ q \in Request /\ q.clean = FALSE /\ q.at = request[b].at /\ q.provider = request[b].provider
          /\ q.settings = request[b].settings /\ q.typed = request[b].typed /\ q.key = request[b].key
      BY <2>2, <3>1 DEF Request
    <3>3. Sound(q, saved, vault, live, dirty)
      BY <2>2, <3>2 DEF Sound
    <3>. QED
      BY <2>1, <2>3, <3>1, <3>2, <3>3
  <2>4. CASE b \notin Rivals(a, p)
    BY <2>1, <2>2, <2>4
  <2>. QED
    BY <2>1, <2>3, <2>4
<1>4. request' \in [Admins -> Request]
  <2>1. \A b \in Admins : request'[b] \in Request
    BY <1>2, <1>3
  <2>2. request' = [b \in Admins |-> request'[b]]
    BY DEF Begin
  <2>. QED
    BY <2>1, <2>2
<1>5. IntegrationsTypeOK'
  <2>1. edits' \in 0 .. MaxEdits
    BY <1>1, IntegrationsAssumption DEF IntegrationsInv, IntegrationsTypeOK
  <2>. QED
    BY <1>1, <1>4, <2>1 DEF IntegrationsInv, IntegrationsTypeOK, Request
<1>6. AllSound'
  BY <1>1, <1>2, <1>3 DEF AllSound
<1>7. Lone'
  <2>1. ASSUME NEW b \in Admins, b # a, request'[b].at # "none", request'[a].at # "none",
               Related(p, request'[b].provider)
        PROVE  ~ request'[a].clean /\ ~ request'[b].clean
    <3>1. b \in Rivals(a, p)
      BY <1>3, <2>1 DEF Rivals
    <3>2. ~ r.clean
      BY <3>1
    <3>. QED
      BY <1>2, <1>3, <2>1, <3>1, <3>2
  <2>2. ASSUME NEW b \in Admins, NEW c \in Admins, b # a, c # a, b # c, request'[b].at # "none", request'[c].at # "none",
               Related(request'[b].provider, request'[c].provider)
        PROVE  ~ request'[b].clean
    BY <1>3, <2>2 DEF IntegrationsInv, Lone
  <2>3. request'[a].provider = p
    BY <1>2
  <2>4. \A q1, q2 : Related(q1, q2) <=> Related(q2, q1)
    BY DEF Related
  <2>. QED
    BY <2>1, <2>2, <2>3, <2>4 DEF Lone
<1>. QED
  BY <1>1, <1>5, <1>6, <1>7 DEF IntegrationsInv, LiveMatchesSaved, LetsEncryptFollowsDNS, RefusedOnlyByHalfAnEdit

\* How far a step of a request for p reaches, and what it never takes back.
Reach(p, clean) ==
  /\ \A q \in Providers : ~ Related(p, q) =>
       /\ saved'[q] = saved[q] /\ live'[q] = live[q]
       /\ q \in Keyed => vault'[q] = vault[q]
       /\ q \in dirty => q \in dirty'
  /\ vault[Dns] # NoKey => vault'[Dns] # NoKey
  /\ saved[LE] # Off => saved'[LE] # Off
  /\ ~ clean => dirty \subseteq dirty'

\* A request that has not been alone stays sound while its marks do.
LEMMA SoundStays ==
  ASSUME NEW r, NEW s, NEW v, NEW l, NEW d, NEW s2, NEW v2, NEW l2, NEW d2,
         Sound(r, s, v, l, d),
         r.provider \in d => r.provider \in d2,
         v[Dns] # NoKey => v2[Dns] # NoKey,
         s[LE] # Off => s2[LE] # Off,
         r.clean => Current(r, s2, v2, l2)
  PROVE  Sound(r, s2, v2, l2, d2)
BY DEF Sound

\* The requests of others are as sound as before: those it could disturb have not been alone.
LEMMA OthersSound ==
  ASSUME IntegrationsInv, NEW a \in Admins, request[a].at # "none",
         NEW r \in Request, request' = [request EXCEPT ![a] = r],
         r.at # "none" => r.provider = request[a].provider /\ (r.clean => request[a].clean),
         Reach(request[a].provider, request[a].clean),
         Sound(r, saved', vault', live', dirty')
  PROVE  request' \in [Admins -> Request] /\ AllSound' /\ Lone'
<1>0. request \in [Admins -> Request]
  BY DEF IntegrationsInv, IntegrationsTypeOK, Request
<1>1. request'[a] = r /\ \A b \in Admins \ {a} : request'[b] = request[b]
  BY <1>0
<1>2. ASSUME NEW b \in Admins, b # a PROVE Sound(request[b], saved', vault', live', dirty')
  <2>1. request[b] \in Request /\ Sound(request[b], saved, vault, live, dirty)
    BY <1>0 DEF IntegrationsInv, AllSound
  <2>2. CASE request[b].at = "none"
    BY <2>1, <2>2 DEF Sound, Current
  <2>3. CASE request[b].at # "none" /\ Related(request[a].provider, request[b].provider)
    <3>1. ~ request[a].clean /\ ~ request[b].clean
      <4>1. Related(request[b].provider, request[a].provider)
        BY <2>3 DEF Related
      <4>. QED
        BY <1>2, <2>3, <4>1 DEF IntegrationsInv, Lone
    <3>2. /\ request[b].provider \in dirty => request[b].provider \in dirty'
          /\ vault[Dns] # NoKey => vault'[Dns] # NoKey
          /\ saved[LE] # Off => saved'[LE] # Off
      BY <3>1 DEF Reach
    <3>3. request[b].clean => Current(request[b], saved', vault', live')
      BY <3>1
    <3>. QED
      BY <2>1, <3>2, <3>3, SoundStays
  <2>4. CASE request[b].at # "none" /\ ~ Related(request[a].provider, request[b].provider)
    <3> DEFINE q == request[b].provider
    <3>1. /\ saved'[q] = saved[q] /\ live'[q] = live[q] /\ (q \in Keyed => vault'[q] = vault[q])
          /\ q \in dirty => q \in dirty'
      BY <2>1, <2>4 DEF Reach, Request
    <3>2. q \in {Dns, LE} => saved'[Dns] = saved[Dns] /\ saved'[LE] = saved[LE] /\ live'[Dns] = live[Dns] /\ vault'[Dns] = vault[Dns]
      <4>1. ASSUME q \in {Dns, LE} PROVE ~ Related(request[a].provider, Dns) /\ ~ Related(request[a].provider, LE)
        BY <2>4, <4>1 DEF Related
      <4>. QED
        BY <4>1, Names DEF Reach
    <3>3. Current(request[b], saved, vault, live) => Current(request[b], saved', vault', live')
      <4>1. request[b].at \in {"refresh", "rebuild"} => q = Dns
        BY <2>1 DEF Sound
      <4>. QED
        BY <2>1, <3>1, <3>2, <4>1 DEF Current
    <3>. QED
      BY <2>1, <3>1, <3>2, <3>3 DEF Sound, Reach
  <2>. QED
    BY <2>2, <2>3, <2>4
<1>3. AllSound'
  BY <1>1, <1>2 DEF AllSound
<1>4. Lone'
  BY <1>1 DEF IntegrationsInv, Lone
<1>5. request' \in [Admins -> Request]
  BY <1>0
<1>. QED
  BY <1>3, <1>4, <1>5

\* What a step of a request has to show, besides that the request stays sound.
Settled ==
  /\ saved' \in [Providers -> Settings] /\ vault' \in [Keyed -> Credentials]
  /\ live' = [p \in Providers |-> live'[p]]
  /\ \A k \in Keyed : live'[k] \in Authorities
  /\ live'[LE] \in LEAuthorities
  /\ dirty' \subseteq Providers /\ half' \subseteq Keyed
  /\ saved'[LE] = Off => live'[LE] = Nothing
  /\ \A k \in Keyed \ dirty' : live'[k] = Built(k, saved'[k], vault'[k])
  /\ LE \notin dirty' /\ saved'[LE] # Off => live'[LE] = <<saved'[LE], live'[Dns]>>
  /\ Accepts(Dns, saved'[Dns], vault'[Dns]) \/ Dns \in half'

\* What holds at such a step: the server is up, so it holds already.
LEMMA AtStep ==
  ASSUME IntegrationsInv, NEW a \in Admins, Handling(a)
  PROVE  /\ up /\ UNCHANGED <<up, refused, edits>> /\ request[a].at # "none"
         /\ request[a] \in Request /\ request \in [Admins -> Request]
         /\ Sound(request[a], saved, vault, live, dirty)
         /\ saved \in [Providers -> Settings] /\ vault \in [Keyed -> Credentials]
         /\ live = [p \in Providers |-> live[p]]
         /\ \A k \in Keyed : live[k] \in Authorities
         /\ live[LE] \in LEAuthorities
         /\ dirty \subseteq Providers /\ half \subseteq Keyed
         /\ saved[LE] = Off => live[LE] = Nothing
         /\ \A k \in Keyed \ dirty : live[k] = Built(k, saved[k], vault[k])
         /\ LE \notin dirty /\ saved[LE] # Off => live[LE] = <<saved[LE], live[Dns]>>
         /\ Accepts(Dns, saved[Dns], vault[Dns]) \/ Dns \in half
<1>1. UNCHANGED <<up, refused, edits>> /\ request[a].at # "none"
  BY DEF Handling
<1>2. up
  BY <1>1 DEF IntegrationsInv
<1>3. request \in [Admins -> Request]
  BY DEF IntegrationsInv, IntegrationsTypeOK, Request
<1>4. request[a] \in Request /\ Sound(request[a], saved, vault, live, dirty)
  BY <1>3 DEF IntegrationsInv, AllSound
<1>5. LiveMatchesSaved /\ LetsEncryptFollowsDNS /\ RefusedOnlyByHalfAnEdit /\ (saved[LE] = Off => live[LE] = Nothing)
  BY <1>2 DEF IntegrationsInv
<1>6. /\ saved \in [Providers -> Settings] /\ vault \in [Keyed -> Credentials]
      /\ live = [p \in Providers |-> live[p]]
      /\ \A k \in Keyed : live[k] \in Authorities
      /\ live[LE] \in LEAuthorities
      /\ dirty \subseteq Providers /\ half \subseteq Keyed
  BY DEF IntegrationsInv, IntegrationsTypeOK
<1>. QED
  BY <1>1, <1>2, <1>3, <1>4, <1>5, <1>6 DEF LiveMatchesSaved, LetsEncryptFollowsDNS, RefusedOnlyByHalfAnEdit

LEMMA StepKeeps ==
  ASSUME IntegrationsInv, NEW a \in Admins, Handling(a),
         NEW r \in Request, request' = [request EXCEPT ![a] = r],
         r.at # "none" => r.provider = request[a].provider /\ (r.clean => request[a].clean),
         Reach(request[a].provider, request[a].clean),
         Sound(r, saved', vault', live', dirty'),
         Settled, Fault \/ UNCHANGED faults
  PROVE  IntegrationsInv'
<1>1. up /\ UNCHANGED <<up, refused, edits>> /\ request[a].at # "none"
  BY AtStep
<1>2. request' \in [Admins -> Request] /\ AllSound' /\ Lone'
  BY <1>1, OthersSound
<1>3. IntegrationsTypeOK'
  <2>1. faults' \in 0 .. MaxFaults
    BY IntegrationsAssumption DEF Fault, IntegrationsInv, IntegrationsTypeOK
  <2>2. {up', refused'} \subseteq BOOLEAN /\ ~ (up' /\ refused')
    BY <1>1 DEF IntegrationsInv, IntegrationsTypeOK
  <2>3. edits' \in 0 .. MaxEdits
    BY <1>1 DEF IntegrationsInv, IntegrationsTypeOK
  <2>. QED
    BY <1>2, <2>1, <2>2, <2>3 DEF Settled, IntegrationsTypeOK, Request
<1>4. LiveMatchesSaved' /\ LetsEncryptFollowsDNS' /\ RefusedOnlyByHalfAnEdit'
  BY DEF Settled, LiveMatchesSaved, LetsEncryptFollowsDNS, RefusedOnlyByHalfAnEdit
<1>5. up' /\ live' = [p \in Providers |-> live'[p]] /\ (saved'[LE] = Off => live'[LE] = Nothing)
  BY <1>1 DEF Settled
<1>. QED
  BY <1>2, <1>3, <1>4, <1>5 DEF IntegrationsInv

\* A step that only concerns the request itself.
LEMMA QuietKeeps ==
  ASSUME IntegrationsInv, NEW a \in Admins, Handling(a),
         NEW r \in Request, request' = [request EXCEPT ![a] = r],
         r.at # "none" => r.provider = request[a].provider /\ (r.clean => request[a].clean),
         UNCHANGED <<saved, vault, live, dirty, half>>,
         Sound(r, saved, vault, live, dirty),
         Fault \/ UNCHANGED faults
  PROVE  IntegrationsInv'
<1>1. Reach(request[a].provider, request[a].clean)
  BY DEF Reach
<1>2. Settled
  BY AtStep DEF Settled
<1>3. Sound(r, saved', vault', live', dirty')
  <2>1. saved' = saved /\ vault' = vault /\ live' = live /\ dirty' = dirty
    OBVIOUS
  <2>. QED
    BY <2>1
<1>. QED
  BY <1>1, <1>2, <1>3, StepKeeps

\* A request that ends is sound whatever it leaves behind.
LEMMA EndIs ==
  ASSUME NEW a, End(a)
  PROVE  /\ request' = [request EXCEPT ![a] = NoRequest] /\ NoRequest \in Request /\ NoRequest.at = "none"
         /\ Sound(NoRequest, saved, vault, live, dirty) /\ Sound(NoRequest, saved', vault', live', dirty')
BY NoRequestSound DEF End, NoRequest

LEMMA GivingUp ==
  ASSUME IntegrationsInv, NEW a \in Admins, Handling(a), End(a),
         UNCHANGED <<saved, vault, live, dirty, half>>, Fault \/ UNCHANGED faults
  PROVE  IntegrationsInv'
<1>1. NoRequest.at # "none" => NoRequest.provider = request[a].provider /\ (NoRequest.clean => request[a].clean)
  BY DEF NoRequest
<1>2. PICK r : r = NoRequest
  OBVIOUS
<1>. QED
  BY <1>1, <1>2, EndIs, QuietKeeps

LEMMA ReadKeyKeeps == ASSUME IntegrationsInv, NEW a \in Admins, ReadKey(a) PROVE IntegrationsInv'
<1>1. At(a, "key") /\ Handling(a) /\ UNCHANGED <<saved, vault, live, faults, dirty, half>>
  BY DEF ReadKey
<1>2. CASE End(a)
  BY <1>1, <1>2, GivingUp
<1>3. CASE /\ Accepts(request[a].provider, request[a].settings, vault[request[a].provider])
           /\ request' = [request EXCEPT ![a].at = "save", ![a].key = vault[request[a].provider]]
  <2>1. PICK r : r = [request[a] EXCEPT !.at = "save", !.key = vault[request[a].provider]]
    OBVIOUS
  <2>2. request[a] \in Request /\ Sound(request[a], saved, vault, live, dirty) /\ request[a].at = "key"
    BY <1>1, AtStep DEF At
  <2>3. request[a].provider \in Keyed /\ vault[request[a].provider] \in Credentials
    BY <1>1, <2>2, AtStep DEF Sound
  <2>4. /\ r \in Request /\ r.at = "save" /\ r.provider = request[a].provider /\ r.settings = request[a].settings
        /\ r.typed = request[a].typed /\ r.key = vault[request[a].provider] /\ r.clean = request[a].clean
    BY <2>1, <2>2, <2>3 DEF Request, Stages
  <2>5. request' = [request EXCEPT ![a] = r]
    BY <1>1, <1>3, <2>1, AtStep
  <2>6. Sound(r, saved, vault, live, dirty)
    BY <1>3, <2>2, <2>3, <2>4, Names DEF Sound, Current, Accepts
  <2>. QED
    BY <1>1, <2>4, <2>5, <2>6, QuietKeeps
<1>. QED
  BY <1>2, <1>3 DEF ReadKey

LEMMA ReadKeyFailsKeeps == ASSUME IntegrationsInv, NEW a \in Admins, ReadKeyFails(a) PROVE IntegrationsInv'
<1>1. At(a, "key") /\ Handling(a) /\ Fault /\ UNCHANGED <<saved, vault, live, dirty, half>>
  BY DEF ReadKeyFails
<1>2. CASE End(a)
  BY <1>1, <1>2, GivingUp
<1>3. CASE /\ Accepts(request[a].provider, request[a].settings, NoKey)
           /\ request' = [request EXCEPT ![a].at = "save", ![a].key = NoKey, ![a].clean = FALSE]
  <2>1. PICK r : r = [request[a] EXCEPT !.at = "save", !.key = NoKey, !.clean = FALSE]
    OBVIOUS
  <2>2. request[a] \in Request /\ Sound(request[a], saved, vault, live, dirty) /\ request[a].at = "key"
    BY <1>1, AtStep DEF At
  <2>3. request[a].provider \in Keyed
    BY <2>2 DEF Sound
  <2>4. /\ r \in Request /\ r.at = "save" /\ r.provider = request[a].provider /\ r.settings = request[a].settings
        /\ r.typed = request[a].typed /\ r.key = NoKey /\ ~ r.clean
    BY <2>1, <2>2, <2>3 DEF Request, Stages, Credentials
  <2>5. request' = [request EXCEPT ![a] = r]
    BY <1>1, <1>3, <2>1, AtStep
  <2>6. Sound(r, saved, vault, live, dirty)
    BY <1>3, <2>2, <2>3, <2>4, Names DEF Sound, Accepts
  <2>. QED
    BY <1>1, <2>4, <2>5, <2>6, QuietKeeps
<1>. QED
  BY <1>2, <1>3 DEF ReadKeyFails

\* Everything a step says of a request but where it is at stays.
LEMMA Moved ==
  ASSUME NEW q \in Request, NEW stage \in Stages, NEW r, r = [q EXCEPT !.at = stage]
  PROVE  /\ r \in Request /\ r.at = stage /\ r.provider = q.provider /\ r.settings = q.settings
         /\ r.typed = q.typed /\ r.key = q.key /\ r.dns = q.dns /\ r.clean = q.clean
BY DEF Request

\* The first write settles all but the request itself.
LEMMA SavedSettles ==
  ASSUME IntegrationsInv, NEW a \in Admins, At(a, "save"), Handling(a), SettingsSaved(a)
  PROVE  Settled /\ Reach(request[a].provider, request[a].clean)
<1>1. request[a].at = "save" /\ UNCHANGED <<vault, live>>
  BY DEF SettingsSaved, At
<1>2. PICK q : q = request[a]
  OBVIOUS
<1>3. q \in Request /\ q.at = "save" /\ Sound(q, saved, vault, live, dirty) /\ q.provider \in Providers /\ q.settings \in Settings
  BY <1>1, <1>2, AtStep DEF Request
<1>4. /\ saved' = [saved EXCEPT ![q.provider] = q.settings]
      /\ half' = IF q.typed # NoKey THEN half \cup {q.provider} ELSE half
      /\ dirty' = dirty \cup {q.provider}
  BY <1>2 DEF SettingsSaved
<1>5. /\ saved' \in [Providers -> Settings] /\ saved'[q.provider] = q.settings
      /\ \A p \in Providers \ {q.provider} : saved'[p] = saved[p]
  BY <1>1, <1>3, <1>4, AtStep
<1>6. q.provider = LE => q.settings # Off
  BY <1>3, IntegrationsAssumption DEF Sound
<1>7. Reach(q.provider, q.clean)
  BY <1>1, <1>4, <1>5, <1>6, Names DEF Reach, Related
<1>8. half' \subseteq Keyed /\ dirty' \subseteq Providers
  BY <1>1, <1>3, <1>4, AtStep DEF Sound
<1>9. \A k \in Keyed \ dirty' : live'[k] = Built(k, saved'[k], vault'[k])
  BY <1>1, <1>4, <1>5, Names, AtStep
<1>10. saved'[LE] = Off => live'[LE] = Nothing
  BY <1>1, <1>5, <1>6, Names, AtStep
<1>11. LE \notin dirty' /\ saved'[LE] # Off => live'[LE] = <<saved'[LE], live'[Dns]>>
  BY <1>1, <1>4, <1>5, Names, AtStep
<1>12. Accepts(Dns, saved'[Dns], vault'[Dns]) \/ Dns \in half'
  <2>1. CASE q.provider # Dns
    BY <1>1, <1>4, <1>5, <2>1, Names, AtStep
  <2>2. CASE q.provider = Dns
    BY <1>1, <1>3, <1>4, <1>5, <2>2 DEF Accepts, Sound
  <2>. QED
    BY <2>1, <2>2
<1>13. Settled
  BY <1>1, <1>5, <1>8, <1>9, <1>10, <1>11, <1>12, AtStep DEF Settled
<1>. QED
  BY <1>2, <1>7, <1>13

LEMMA SaveSettingsKeeps == ASSUME IntegrationsInv, NEW a \in Admins, SaveSettings(a) PROVE IntegrationsInv'
<1>1. request[a].at = "save" /\ At(a, "save") /\ Handling(a) /\ SettingsSaved(a) /\ UNCHANGED <<vault, live, faults>>
  BY DEF SaveSettings, SettingsSaved, At
<1>2. PICK q : q = request[a]
  OBVIOUS
<1>3. PICK stage : stage = IF q.typed # NoKey THEN "put" ELSE "install"
  OBVIOUS
<1>4. PICK r : r = [q EXCEPT !.at = stage]
  OBVIOUS
<1>5. q \in Request /\ q.at = "save" /\ Sound(q, saved, vault, live, dirty) /\ q.provider \in Providers /\ q.settings \in Settings
  BY <1>1, <1>2, AtStep DEF Request
<1>6. /\ r \in Request /\ r.at = stage /\ r.provider = q.provider /\ r.settings = q.settings
      /\ r.typed = q.typed /\ r.key = q.key /\ r.dns = q.dns /\ r.clean = q.clean
  BY <1>3, <1>4, <1>5, Moved DEF Stages
<1>7. /\ saved' = [saved EXCEPT ![q.provider] = q.settings]
      /\ request' = [request EXCEPT ![a] = r]
      /\ dirty' = dirty \cup {q.provider}
  BY <1>2, <1>3, <1>4 DEF SaveSettings, SettingsSaved, GoTo
<1>8. /\ saved'[q.provider] = q.settings
      /\ \A p \in Providers \ {q.provider} : saved'[p] = saved[p]
  BY <1>1, <1>5, <1>7, AtStep
<1>9. q.provider = LE => q.settings # Off
  BY <1>5, IntegrationsAssumption DEF Sound
<1>10. Sound(r, saved', vault', live', dirty')
  <2>1. Current(q, saved, vault, live) => Current(r, saved', vault', live')
    BY <1>1, <1>3, <1>5, <1>6, <1>8 DEF Current, Sound, Built
  <2>. QED
    BY <1>3, <1>5, <1>6, <1>7, <1>8, <1>9, <2>1 DEF Sound
<1>11. Settled /\ Reach(q.provider, q.clean)
  BY <1>1, <1>2, SavedSettles
<1>. QED
  BY <1>1, <1>2, <1>6, <1>7, <1>10, <1>11, StepKeeps

\* The second write settles all but the request itself.
LEMMA StoredSettles ==
  ASSUME IntegrationsInv, NEW a \in Admins, At(a, "put"), Handling(a), KeyStored(a)
  PROVE  Settled /\ Reach(request[a].provider, request[a].clean)
<1>1. request[a].at = "put" /\ UNCHANGED <<saved, live, dirty>>
  BY DEF KeyStored, At
<1>2. PICK q : q = request[a]
  OBVIOUS
<1>3. /\ q \in Request /\ q.at = "put" /\ Sound(q, saved, vault, live, dirty) /\ q.provider \in Keyed
      /\ q.typed \in Credentials /\ q.typed # NoKey /\ q.provider \in dirty
  BY <1>1, <1>2, AtStep DEF Request, Sound
<1>4. vault' = [vault EXCEPT ![q.provider] = q.typed] /\ half' = half \ {q.provider}
  BY <1>2 DEF KeyStored
<1>5. /\ vault' \in [Keyed -> Credentials] /\ vault'[q.provider] = q.typed
      /\ \A p \in Keyed \ {q.provider} : vault'[p] = vault[p]
  BY <1>1, <1>3, <1>4, AtStep
<1>6. Reach(q.provider, q.clean)
  BY <1>1, <1>3, <1>4, <1>5, Names DEF Reach, Related
<1>7. \A k \in Keyed \ dirty' : live'[k] = Built(k, saved'[k], vault'[k])
  BY <1>1, <1>3, <1>5, AtStep
<1>8. Accepts(Dns, saved'[Dns], vault'[Dns]) \/ Dns \in half'
  <2>1. CASE q.provider # Dns
    BY <1>1, <1>4, <1>5, <2>1, Names, AtStep
  <2>2. CASE q.provider = Dns
    BY <1>3, <1>5, <2>2 DEF Accepts
  <2>. QED
    BY <2>1, <2>2
<1>9. Settled
  BY <1>1, <1>4, <1>5, <1>7, <1>8, AtStep DEF Settled
<1>. QED
  BY <1>2, <1>6, <1>9

LEMMA PutKeyKeeps == ASSUME IntegrationsInv, NEW a \in Admins, PutKey(a) PROVE IntegrationsInv'
<1>1. request[a].at = "put" /\ At(a, "put") /\ Handling(a) /\ KeyStored(a) /\ UNCHANGED <<saved, live, faults, dirty>>
  BY DEF PutKey, KeyStored, At
<1>2. PICK q : q = request[a]
  OBVIOUS
<1>3. PICK r : r = [q EXCEPT !.at = "install"]
  OBVIOUS
<1>4. /\ q \in Request /\ q.at = "put" /\ Sound(q, saved, vault, live, dirty) /\ q.provider \in Keyed
      /\ q.typed \in Credentials /\ q.typed # NoKey /\ q.key = q.typed /\ q.provider \in dirty
  BY <1>1, <1>2, AtStep DEF Request, Sound
<1>5. /\ r \in Request /\ r.at = "install" /\ r.provider = q.provider /\ r.settings = q.settings
      /\ r.typed = q.typed /\ r.key = q.key /\ r.dns = q.dns /\ r.clean = q.clean
  BY <1>3, <1>4, Moved DEF Stages
<1>6. /\ vault' = [vault EXCEPT ![q.provider] = q.typed]
      /\ request' = [request EXCEPT ![a] = r]
  BY <1>2, <1>3 DEF PutKey, KeyStored, GoTo
<1>7. /\ vault'[q.provider] = q.typed
      /\ \A p \in Keyed \ {q.provider} : vault'[p] = vault[p]
  BY <1>1, <1>4, <1>6, AtStep
<1>8. Sound(r, saved', vault', live', dirty')
  <2>1. Current(q, saved, vault, live) => Current(r, saved', vault', live')
    BY <1>1, <1>4, <1>5, <1>7, Names DEF Current
  <2>. QED
    BY <1>1, <1>4, <1>5, <1>7, <2>1, Names DEF Sound
<1>9. Settled /\ Reach(q.provider, q.clean)
  BY <1>1, <1>2, StoredSettles
<1>. QED
  BY <1>1, <1>2, <1>5, <1>6, <1>8, <1>9, StepKeeps

\* A write that fails, whether or not it was carried out, ends the request.
LEMMA WriteFailsKeeps ==
  ASSUME IntegrationsInv, NEW a \in Admins, SaveFails(a) \/ PutFails(a)
  PROVE  IntegrationsInv'
<1>1. Handling(a) /\ End(a) /\ Fault
  BY DEF SaveFails, PutFails
<1>2. CASE UNCHANGED <<saved, vault, live, dirty, half>>
  BY <1>1, <1>2, GivingUp
<1>3. CASE Settled /\ Reach(request[a].provider, request[a].clean)
  <2>1. PICK r : r = NoRequest
    OBVIOUS
  <2>2. /\ r \in Request /\ request' = [request EXCEPT ![a] = r] /\ r.at = "none"
        /\ Sound(r, saved', vault', live', dirty')
    BY <1>1, <2>1, EndIs
  <2>. QED
    BY <1>1, <1>3, <2>2, StepKeeps
<1>. QED
  BY <1>1, <1>2, <1>3, SavedSettles, StoredSettles DEF SaveFails, PutFails

LEMMA InstallKeeps == ASSUME IntegrationsInv, NEW a \in Admins, Install(a) PROVE IntegrationsInv'
<1>1. request[a].at = "install" /\ Handling(a) /\ UNCHANGED <<saved, vault, faults, half>>
  BY DEF Install, At
<1>2. PICK q : q = request[a]
  OBVIOUS
<1>3. PICK x : x = IF q.provider = LE THEN <<q.settings, q.dns>> ELSE Built(q.provider, q.settings, q.key)
  OBVIOUS
<1>4. live' = [live EXCEPT ![q.provider] = x]
  BY <1>2, <1>3 DEF Install
<1>5. /\ q \in Request /\ q.at = "install" /\ Sound(q, saved, vault, live, dirty) /\ q.provider \in Providers
      /\ q.settings \in Settings /\ q.key \in Credentials /\ q.dns \in Authorities
      /\ q.provider \in dirty /\ (q.provider = LE => saved[LE] # Off)
      /\ q.clean => Current(q, saved, vault, live)
  BY <1>1, <1>2, AtStep DEF Request, Sound
<1>6. IF q.provider = LE THEN x \in LEAuthorities ELSE q.provider \in Keyed /\ x \in Authorities
  BY <1>3, <1>5, BuiltType DEF LEAuthorities, Providers
<1>7. /\ live' = [p \in Providers |-> live'[p]] /\ live'[q.provider] = x
      /\ \A p \in Providers \ {q.provider} : live'[p] = live[p]
  <2>1. live = [p \in Providers |-> live[p]]
    BY <1>1, AtStep
  <2>. QED
    BY <1>4, <1>5, <2>1
<1>8. (\A k \in Keyed : live'[k] \in Authorities) /\ live'[LE] \in LEAuthorities
  BY <1>1, <1>6, <1>7, Names, AtStep
<1>9. q.clean => saved[q.provider] = q.settings /\ (q.provider \in Keyed => x = Built(q.provider, saved[q.provider], vault[q.provider]))
                 /\ (q.provider = LE => x = <<saved[LE], live[Dns]>>)
  BY <1>3, <1>5, Names DEF Current
<1>11. /\ q.provider = Dns => dirty' = dirty \cup {LE}
       /\ q.provider # Dns => dirty' = IF q.clean THEN dirty \ {q.provider} ELSE dirty \cup {q.provider}
  BY <1>2 DEF Install, Cleaned
<1>12. Reach(q.provider, q.clean)
  BY <1>1, <1>7, <1>11, Names DEF Reach, Related
<1>13. Settled
  <2>1. dirty' \subseteq Providers
    BY <1>1, <1>5, <1>11, Names, AtStep
  <2>2. ASSUME NEW k \in Keyed \ dirty' PROVE live'[k] = Built(k, saved'[k], vault'[k])
    <3>1. CASE q.provider = k
      <4>1. q.clean
        BY <1>5, <1>11, <2>2, <3>1
      <4>. QED
        BY <1>1, <1>7, <1>9, <3>1, <4>1
    <3>2. CASE q.provider # k
      BY <1>1, <1>7, <1>11, <2>2, <3>2, Names, AtStep
    <3>. QED
      BY <3>1, <3>2
  <2>3. saved'[LE] = Off => live'[LE] = Nothing
    BY <1>1, <1>5, <1>7, Names, AtStep
  <2>4. LE \notin dirty' /\ saved'[LE] # Off => live'[LE] = <<saved'[LE], live'[Dns]>>
    <3>1. CASE q.provider = LE
      <4>1. LE \notin dirty' => q.clean
        BY <1>5, <1>11, <3>1, Names
      <4>. QED
        BY <1>1, <1>7, <1>9, <3>1, <4>1, Names
    <3>2. CASE q.provider # LE
      BY <1>1, <1>7, <1>11, <3>2, Names, AtStep
    <3>. QED
      BY <3>1, <3>2
  <2>. QED
    BY <1>1, <1>7, <1>8, <2>1, <2>2, <2>3, <2>4, AtStep DEF Settled
<1>14. CASE q.provider # Dns
  <2>1. End(a)
    BY <1>2, <1>14 DEF Install
  <2>2. PICK r : r = NoRequest
    OBVIOUS
  <2>. QED
    BY <1>1, <1>2, <1>12, <1>13, <2>1, <2>2, EndIs, StepKeeps
<1>15. CASE q.provider = Dns
  <2>1. PICK r : r = [q EXCEPT !.at = "refresh"]
    OBVIOUS
  <2>2. /\ r \in Request /\ r.at = "refresh" /\ r.provider = q.provider /\ r.settings = q.settings
        /\ r.typed = q.typed /\ r.key = q.key /\ r.dns = q.dns /\ r.clean = q.clean
    BY <1>5, <2>1, Moved DEF Stages
  <2>3. request' = [request EXCEPT ![a] = r]
    BY <1>2, <1>15, <2>1 DEF Install, GoTo
  <2>4. Sound(r, saved', vault', live', dirty')
    <3>1. q.clean => Current(r, saved', vault', live')
      BY <1>1, <1>3, <1>7, <1>9, <1>15, <2>2, Names DEF Current
    <3>. QED
      BY <1>5, <1>15, <2>2, <3>1, Names DEF Sound
  <2>. QED
    BY <1>1, <1>2, <1>12, <1>13, <2>2, <2>3, <2>4, StepKeeps
<1>. QED
  BY <1>14, <1>15

\* Where a DNS-01 edit is once its automation is installed.
LEMMA AfterInstall ==
  ASSUME IntegrationsInv, NEW a \in Admins, request[a].at \in {"refresh", "rebuild"}, Handling(a)
  PROVE  /\ request[a].provider = Dns
         /\ request[a].clean =>
              /\ live[Dns] = Built(Dns, saved[Dns], vault[Dns])
              /\ request[a].at = "refresh" => live[Dns] = Built(Dns, request[a].settings, request[a].key)
              /\ request[a].at = "rebuild" => request[a].dns = live[Dns] /\ request[a].settings = saved[LE]
BY AtStep DEF Sound, Current

\* The request ends and marks or clears providers ps; what is built of them is as it should be
\* if the request has been alone.
LEMMA EndingKeeps ==
  ASSUME IntegrationsInv, NEW a \in Admins, Handling(a), End(a), request[a].provider = Dns,
         NEW ps, ps \subseteq {Dns, LE}, Cleaned(a, ps), UNCHANGED <<saved, vault, live, half>>,
         Fault \/ UNCHANGED faults,
         request[a].clean => live[Dns] = Built(Dns, saved[Dns], vault[Dns]),
         LE \in ps => saved[LE] = Off
  PROVE  IntegrationsInv'
<1>1. dirty' = IF request[a].clean THEN dirty \ ps ELSE dirty \cup ps
  BY DEF Cleaned
<1>2. Reach(request[a].provider, request[a].clean)
  BY <1>1, Names DEF Reach, Related
<1>3. Settled
  <2>1. dirty' \subseteq Providers
    BY <1>1, Names, AtStep
  <2>2. \A k \in Keyed \ dirty' : live'[k] = Built(k, saved'[k], vault'[k])
    BY <1>1, Names, AtStep
  <2>3. LE \notin dirty' /\ saved'[LE] # Off => live'[LE] = <<saved'[LE], live'[Dns]>>
    BY <1>1, Names, AtStep
  <2>. QED
    BY <2>1, <2>2, <2>3, AtStep DEF Settled
<1>4. PICK r : r = NoRequest
  OBVIOUS
<1>. QED
  BY <1>2, <1>3, <1>4, EndIs, StepKeeps

LEMMA RefreshKeeps == ASSUME IntegrationsInv, NEW a \in Admins, Refresh(a) PROVE IntegrationsInv'
<1>1. request[a].at = "refresh" /\ Handling(a) /\ UNCHANGED <<saved, vault, live, faults, half>>
  BY DEF Refresh, At
<1>2. PICK q : q = request[a]
  OBVIOUS
<1>3. /\ q \in Request /\ q.at = "refresh" /\ Sound(q, saved, vault, live, dirty) /\ q.provider = Dns
      /\ q.clean => Current(q, saved, vault, live)
  BY <1>1, <1>2, AtStep DEF Sound
<1>4. CASE saved[LE] = Off
  <2>1. End(a) /\ Cleaned(a, {Dns, LE})
    BY <1>4 DEF Refresh
  <2>2. PICK ps : ps = {Dns, LE}
    OBVIOUS
  <2>3. q.clean => live[Dns] = Built(Dns, saved[Dns], vault[Dns])
    BY <1>3 DEF Current
  <2>. QED
    BY <1>1, <1>2, <1>3, <1>4, <2>1, <2>2, <2>3, EndingKeeps
<1>5. CASE saved[LE] # Off
  <2>1. PICK d : d = Built(Dns, q.settings, q.key)
    OBVIOUS
  <2>2. PICK r : r = [q EXCEPT !.at = "rebuild", !.settings = saved[LE], !.dns = d]
    OBVIOUS
  <2>3. d \in Authorities /\ saved[LE] \in Settings
    BY <1>1, <1>3, <2>1, BuiltType, Names, AtStep DEF Request
  <2>4. /\ r \in Request /\ r.at = "rebuild" /\ r.provider = q.provider /\ r.settings = saved[LE]
        /\ r.typed = q.typed /\ r.key = q.key /\ r.dns = d /\ r.clean = q.clean
    BY <1>3, <2>2, <2>3 DEF Request, Stages
  <2>5. request' = [request EXCEPT ![a] = r] /\ UNCHANGED dirty
    BY <1>1, <1>2, <1>5, <2>1, <2>2, AtStep DEF Refresh
  <2>6. Sound(r, saved, vault, live, dirty)
    <3>1. q.clean => Current(r, saved, vault, live)
      BY <1>3, <2>1, <2>4 DEF Current
    <3>. QED
      BY <1>3, <1>5, <2>4, <3>1, Names DEF Sound
  <2>. QED
    BY <1>1, <1>2, <2>4, <2>5, <2>6, QuietKeeps
<1>. QED
  BY <1>4, <1>5

LEMMA RebuildKeeps == ASSUME IntegrationsInv, NEW a \in Admins, Rebuild(a) PROVE IntegrationsInv'
<1>1. request[a].at = "rebuild" /\ Handling(a) /\ UNCHANGED <<saved, vault, faults, half>>
  BY DEF Rebuild, At
<1>2. PICK q : q = request[a]
  OBVIOUS
<1>3. /\ q \in Request /\ q.at = "rebuild" /\ Sound(q, saved, vault, live, dirty) /\ q.provider = Dns
      /\ q.settings # Off /\ q.settings \in Settings /\ q.dns \in Authorities
      /\ q.clean => Current(q, saved, vault, live)
  BY <1>1, <1>2, AtStep DEF Sound, Request
<1>4. live' = [live EXCEPT ![LE] = <<q.settings, q.dns>>]
  BY <1>2 DEF Rebuild
<1>5. /\ live' = [p \in Providers |-> live'[p]] /\ live'[LE] = <<q.settings, q.dns>>
      /\ \A p \in Providers \ {LE} : live'[p] = live[p]
  <2>1. live = [p \in Providers |-> live[p]]
    BY <1>1, AtStep
  <2>. QED
    BY <1>4, <2>1, Names
<1>6. (\A k \in Keyed : live'[k] \in Authorities) /\ live'[LE] \in LEAuthorities
  <2>1. live'[LE] \in LEAuthorities
    BY <1>3, <1>5 DEF LEAuthorities
  <2>. QED
    BY <1>1, <1>5, <2>1, Names, AtStep
<1>7. q.clean => q.dns = live[Dns] /\ q.settings = saved[LE] /\ live[Dns] = Built(Dns, saved[Dns], vault[Dns])
  BY <1>3 DEF Current
<1>8. dirty' = IF q.clean THEN dirty \ {Dns, LE} ELSE dirty \cup {Dns, LE}
  BY <1>2 DEF Rebuild, Cleaned
<1>9. Reach(q.provider, q.clean)
  BY <1>1, <1>3, <1>5, <1>8, Names DEF Reach, Related
<1>10. saved[LE] # Off
  BY <1>1, <1>2, <1>3, AtStep DEF Sound
<1>11. Settled
  <2>1. dirty' \subseteq Providers
    BY <1>1, <1>8, Names, AtStep
  <2>2. \A k \in Keyed \ dirty' : live'[k] = Built(k, saved'[k], vault'[k])
    BY <1>1, <1>5, <1>7, <1>8, Names, AtStep
  <2>3. LE \notin dirty' /\ saved'[LE] # Off => live'[LE] = <<saved'[LE], live'[Dns]>>
    BY <1>1, <1>5, <1>7, <1>8, Names, AtStep
  <2>. QED
    BY <1>1, <1>5, <1>6, <1>10, <2>1, <2>2, <2>3, AtStep DEF Settled
<1>12. PICK r : r = NoRequest
  OBVIOUS
<1>13. End(a)
  BY DEF Rebuild
<1>. QED
  BY <1>1, <1>2, <1>9, <1>11, <1>12, <1>13, EndIs, StepKeeps

LEMMA HandleKeeps == ASSUME IntegrationsInv, NEW a \in Admins, Handle(a) PROVE IntegrationsInv'
<1>1. CASE SaveFails(a) \/ PutFails(a)
  BY <1>1, WriteFailsKeeps
<1>2. CASE RefreshFails(a)
  <2>1. request[a].at \in {"refresh", "rebuild"} /\ Handling(a) /\ End(a) /\ Cleaned(a, {Dns})
        /\ Fault /\ UNCHANGED <<saved, vault, live, half>>
    BY <1>2 DEF RefreshFails, At
  <2>2. PICK ps : ps = {Dns}
    OBVIOUS
  <2>. QED
    BY <2>1, <2>2, AfterInstall, EndingKeeps, Names
<1>. QED
  BY <1>1, <1>2, ReadKeyKeeps, ReadKeyFailsKeeps, SaveSettingsKeeps, PutKeyKeeps, InstallKeeps, RefreshKeeps, RebuildKeeps
  DEF Handle

\* An edit of a provider with a credential, and one of Let's Encrypt.
LEMMA EditsKeep ==
  ASSUME IntegrationsInv, NEW a \in Admins
  PROVE  /\ \A k \in Keyed, s \in Settings, t \in Credentials : EditKeyed(a, k, s, t) => IntegrationsInv'
         /\ \A s \in Options : EditLE(a, s) => IntegrationsInv'
<1>1. ASSUME NEW k \in Keyed, NEW s \in Settings, NEW t \in Credentials, EditKeyed(a, k, s, t) PROVE IntegrationsInv'
  <2>1. PICK stage : stage = IF ~ TurnsOff(k, s) /\ t = NoKey THEN "key" ELSE "save"
    OBVIOUS
  <2>2. Begin(a, k, s, t, stage, Nothing) /\ (TurnsOff(k, s) => t = NoKey)
    BY <1>1, <2>1 DEF EditKeyed
  <2>3. PICK r : r = [at |-> stage, provider |-> k, settings |-> s, typed |-> t, key |-> t, dns |-> Nothing,
                      clean |-> Rivals(a, k) = {}]
    OBVIOUS
  <2>4. /\ r.at = stage /\ r.provider = k /\ r.settings = s /\ r.typed = t /\ r.key = t
        /\ r.at \in {"key", "save"}
    BY <2>1, <2>3
  <2>5. Sound(r, saved, vault, live, dirty)
    BY <2>1, <2>4, Names DEF Sound, Current, TurnsOff
  <2>6. stage \in Stages /\ k \in Providers /\ Nothing \in Authorities
    BY <2>1, Names DEF Stages, Authorities
  <2>. QED
    BY <2>2, <2>3, <2>5, <2>6, BeginKeeps
<1>2. ASSUME NEW s \in Options, EditLE(a, s) PROVE IntegrationsInv'
  <2>1. PICK d : d = live[Dns]
    OBVIOUS
  <2>2. Begin(a, LE, s, NoKey, "save", d)
    BY <1>2, <2>1 DEF EditLE
  <2>3. PICK r : r = [at |-> "save", provider |-> LE, settings |-> s, typed |-> NoKey, key |-> NoKey, dns |-> d,
                      clean |-> Rivals(a, LE) = {}]
    OBVIOUS
  <2>4. r.at = "save" /\ r.provider = LE /\ r.settings = s /\ r.typed = NoKey /\ r.dns = d
    BY <2>3
  <2>5. Sound(r, saved, vault, live, dirty)
    BY <2>1, <2>4, Names DEF Sound, Current
  <2>6. /\ d \in Authorities /\ LE \in Providers /\ s \in Settings /\ NoKey \in Credentials /\ "save" \in Stages
    BY <2>1, Names DEF IntegrationsInv, IntegrationsTypeOK, Settings, Credentials, Stages
  <2>. QED
    BY <2>2, <2>3, <2>5, <2>6, BeginKeeps
<1>. QED
  BY <1>1, <1>2

LEMMA StartsKeep ==
  ASSUME IntegrationsInv, Start \/ (\E ks \in SUBSET Keyed \ {{}} : StartWithoutKeys(ks)) \/ StartWithoutLE
  PROVE  IntegrationsInv'
<1>0. /\ vault \in [Keyed -> Credentials] /\ saved \in [Providers -> Settings] /\ NoKey \in Credentials
      /\ faults \in 0 .. MaxFaults
  BY DEF IntegrationsInv, IntegrationsTypeOK, Credentials
<1>1. CASE Start
  <2>1. PICK key : key = vault
    OBVIOUS
  <2>2. PICK ks : ks = {}
    OBVIOUS
  <2>. QED
    BY <1>0, <1>1, <2>1, <2>2, StartKeeps DEF Start
<1>2. ASSUME NEW ks \in SUBSET Keyed, StartWithoutKeys(ks) PROVE IntegrationsInv'
  <2>1. PICK key : key = [k \in Keyed |-> IF k \in ks THEN NoKey ELSE vault[k]]
    OBVIOUS
  <2>2. faults' \in 0 .. MaxFaults
    BY <1>0, <1>2, IntegrationsAssumption DEF StartWithoutKeys, Fault
  <2>3. key \in [Keyed -> Credentials] /\ \A j \in Keyed \ ks : key[j] = vault[j]
    BY <1>0, <2>1
  <2>4. StartWith(key) /\ dirty' = ks
    BY <1>2, <2>1, Zenon DEF StartWithoutKeys
  <2>. QED
    BY <2>2, <2>3, <2>4, StartKeeps
<1>3. CASE StartWithoutLE
  <2>1. /\ ~ up /\ up' = TRUE /\ refused' = FALSE /\ dirty' = {LE} /\ live' = [Boot(vault) EXCEPT ![LE] = Nothing]
        /\ UNCHANGED <<saved, vault, request, edits, half>>
    BY <1>3 DEF StartWithoutLE
  <2>2. /\ live' = [p \in Providers |-> live'[p]] /\ live'[LE] = Nothing
        /\ \A k \in Keyed : live'[k] = Built(k, saved[k], vault[k]) /\ live'[k] \in Authorities
    <3>1. Boot(vault) = [p \in Providers |-> Boot(vault)[p]]
      BY <1>0, BootIs
    <3>2. \A k \in Keyed : Boot(vault)[k] = Built(k, saved[k], vault[k]) /\ Boot(vault)[k] \in Authorities
      BY <1>0, BootIs
    <3>. QED
      BY <2>1, <3>1, <3>2, Names
  <2>3. IntegrationsTypeOK'
    <3>1. faults' \in 0 .. MaxFaults
      BY <1>0, <1>3, IntegrationsAssumption DEF StartWithoutLE, Fault
    <3>2. live'[LE] \in LEAuthorities
      BY <2>2 DEF LEAuthorities
    <3>3. {up', refused'} \subseteq BOOLEAN /\ ~ (up' /\ refused')
      BY <2>1
    <3>. QED
      BY <2>1, <2>2, <3>1, <3>2, <3>3, Names DEF IntegrationsInv, IntegrationsTypeOK
  <2>4. \A a \in Admins : request'[a].at = "none"
    BY <2>1 DEF IntegrationsInv
  <2>5. LiveMatchesSaved' /\ LetsEncryptFollowsDNS' /\ RefusedOnlyByHalfAnEdit'
    BY <2>1, <2>2 DEF IntegrationsInv, LiveMatchesSaved, LetsEncryptFollowsDNS, RefusedOnlyByHalfAnEdit
  <2>6. AllSound'
    BY <2>1, <2>4 DEF IntegrationsInv, AllSound, Sound, Current
  <2>. QED
    BY <2>1, <2>2, <2>3, <2>4, <2>5, <2>6 DEF IntegrationsInv, Lone
<1>. QED
  BY <1>1, <1>2, <1>3

LEMMA NextKeeps == IntegrationsInv /\ [IntegrationsNext]_integrationsVars => IntegrationsInv'
<1> SUFFICES ASSUME IntegrationsInv, [IntegrationsNext]_integrationsVars PROVE IntegrationsInv'
  OBVIOUS
<1>1. CASE UNCHANGED integrationsVars
  BY <1>1 DEF integrationsVars, IntegrationsInv, IntegrationsTypeOK, AllSound, Sound, Current, Lone,
              LiveMatchesSaved, LetsEncryptFollowsDNS, RefusedOnlyByHalfAnEdit
<1>2. CASE IntegrationsNext
  BY <1>2, EditsKeep, HandleKeeps, StopKeeps, StartsKeep DEF IntegrationsNext
<1>. QED
  BY <1>1, <1>2

LEMMA Inductive == IntegrationsSpec => []IntegrationsInv
BY Initially, NextKeeps, PTL DEF IntegrationsSpec

-----------------------------------------------------------------------------
\* The settings, the credentials, the authorities and every request keep their types.
THEOREM IntegrationsTypeCorrect == IntegrationsSpec => []IntegrationsTypeOK
<1>1. IntegrationsInv => IntegrationsTypeOK
  BY DEF IntegrationsInv
<1>. QED
  BY <1>1, Inductive, PTL

\* What runs is what is on file, unless the provider's last edit was disturbed
\* (the handlers that save, store and swap in, and main at start).
THEOREM RunsWhatIsSaved == IntegrationsSpec => []LiveMatchesSaved
<1>1. IntegrationsInv => LiveMatchesSaved
  BY DEF IntegrationsInv
<1>. QED
  BY <1>1, Inductive, PTL

\* Let's Encrypt holds the automation that is installed, unless an edit of either was
\* disturbed (refreshLetsEncryptDNS).
THEOREM LetsEncryptKeepsUp == IntegrationsSpec => []LetsEncryptFollowsDNS
<1>1. IntegrationsInv => LetsEncryptFollowsDNS
  BY DEF IntegrationsInv
<1>. QED
  BY <1>1, Inductive, PTL

\* Every provider is served by the authority on file, unless its last edit, or for Let's
\* Encrypt that of the automation it holds, was disturbed.
THEOREM WhatRunsIsCurrent == IntegrationsSpec => []LiveIsCurrent
BY RunsWhatIsSaved, LetsEncryptKeepsUp, PTL DEF LiveIsCurrent

\* Only an edit cut off between its two writes leaves DNS-01 settings no start accepts
\* (NewDNSAutomationWithToken, called by the handler and by main).
THEOREM EditsNeverLockOut == IntegrationsSpec => []RefusedOnlyByHalfAnEdit
<1>1. IntegrationsInv => RefusedOnlyByHalfAnEdit
  BY DEF IntegrationsInv
<1>. QED
  BY <1>1, Inductive, PTL

=============================================================================
