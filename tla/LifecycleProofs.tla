--------------------------- MODULE LifecycleProofs ---------------------------
(* For any configuration files and any environment: a variable that the file  *)
(* does not name, and that is no default for a secret it leaves open, changes *)
(* nothing about what the file comes to; a domain gets the nearest token; and *)
(* the process from startup to shutdown stays within its types.               *)
EXTENDS Lifecycle, WellFoundedInduction, TLAPS

\* A secret comes from the file, from a variable it names, or, if it is not
\* given at all, from the default variable.
LEMMA Origins ==
    ASSUME NEW p, NEW default, NEW env
    PROVE  /\ OriginOf(p, default, env) \in {"literal", p.env, default}
           /\ IsGiven(p) => OriginOf(p, default, env) \in {"literal", p.env}
  BY DEF OriginOf, IsGiven

\* None of the origins is a variable that the file does not draw on.
LEMMA OriginsNamed ==
    ASSUME NEW f, NEW env, NEW v \in Variable \ NamedBy(f)
    PROVE  /\ Credential(f, env) # v
           /\ OriginOf(f.api, "CF_API_TOKEN", env) # v
           /\ \A k \in DOMAIN f.domains :
                 OriginOf(f.domains[k], None, env) # v
  <1>1. v # "literal" /\ v # None
    BY ConfigAssumption DEF Variable, None
  <1>2. \A p \in {f.token, f.password, f.api}
                    \cup {f.domains[k] : k \in DOMAIN f.domains} : p.env # v
    BY DEF NamedBy
  <1>3. Credential(f, env) # v
    <2>1. CASE IsGiven(f.token)
      BY <1>1, <1>2, <2>1, Origins DEF Credential
    <2>2. CASE ~IsGiven(f.token) /\ IsGiven(f.password)
      BY <1>1, <1>2, <2>2, Origins DEF Credential
    <2>3. CASE ~IsGiven(f.token) /\ ~IsGiven(f.password)
      <3>1. v # "NPM_PASSWORD"
        BY <2>3 DEF NamedBy
      <3> QED  BY <1>1, <1>2, <2>3, <3>1, Origins DEF Credential
    <2> QED  BY <2>1, <2>2, <2>3
  <1>4. OriginOf(f.api, "CF_API_TOKEN", env) # v
    <2>1. CASE IsGiven(f.api)
      BY <1>1, <1>2, <2>1, Origins
    <2>2. CASE ~IsGiven(f.api)
      <3>1. v # "CF_API_TOKEN"
        BY <2>2 DEF NamedBy
      <3> QED  BY <1>1, <1>2, <3>1, Origins
    <2> QED  BY <2>1, <2>2
  <1>5. ASSUME NEW k \in DOMAIN f.domains
        PROVE  OriginOf(f.domains[k], None, env) # v
    BY <1>1, <1>2, Origins
  <1> QED  BY <1>3, <1>4, <1>5

\* Setting the variable or not, everything is resolved the same way.
LEMMA SameOutcome ==
    ASSUME NEW f, NEW env, NEW v \in Variable \ NamedBy(f)
    PROVE  Outcome(f, env \cup {v}) = Outcome(f, env \ {v})
  <1> DEFINE with    == env \cup {v}
             without == env \ {v}
  <1>1. \A o : o # v => (Available(o, with) <=> Available(o, without))
    BY DEF Available
  <1>2. /\ \A p, d : OriginOf(p, d, with) = OriginOf(p, d, without)
        /\ Credential(f, with) = Credential(f, without)
        /\ PerDomain(f, with) = PerDomain(f, without)
    BY DEF OriginOf, Credential, PerDomain
  <1>3. /\ Credential(f, with) # v
        /\ OriginOf(f.api, "CF_API_TOKEN", with) # v
        /\ \A k \in DOMAIN f.domains : OriginOf(f.domains[k], None, with) # v
    BY OriginsNamed
  <1> HIDE DEF with, without
  <1>4. Global(f, with) = Global(f, without)
    BY <1>1, <1>2, <1>3 DEF Global
  <1>5. CredentialAccepted(f, with) <=> CredentialAccepted(f, without)
    BY <1>1, <1>2, <1>3 DEF CredentialAccepted
  <1>6. \A k \in DOMAIN f.domains :
           DomainAccepted(f.domains[k], with)
              <=> DomainAccepted(f.domains[k], without)
    BY <1>1, <1>2, <1>3 DEF DomainAccepted
  <1>7. SslAccepted(f, with) <=> SslAccepted(f, without)
    BY <1>4 DEF SslAccepted
  <1>8. Accepted(f, with) <=> Accepted(f, without)
    BY <1>5, <1>6, <1>7 DEF Accepted
  <1>9. Outcome(f, with) = Outcome(f, without)
    BY <1>2, <1>4, <1>8 DEF Outcome
  <1> QED  BY <1>9 DEF with, without

\* "There is no ambient crossover" (design 2026-04-22:143), whatever variables
\* there are, and whichever of them the files name and the environment has.
THEOREM NoCrossover == LifecycleSpec => []NoAmbient
  <1>1. NoAmbient
    BY SameOutcome DEF NoAmbient
  <1> QED  BY <1>1, PTL

-----------------------------------------------------------------------------
(* Tokens                                                                     *)

\* A set of numbers has a least one.
LEMMA LeastOne ==
    ASSUME NEW S \in SUBSET Nat, S # {}
    PROVE  \E n \in S : \A m \in S : n <= m
  <1> DEFINE R == OpToRel(<, Nat)
  <1>1. IsWellFoundedOn(R, Nat)
    BY NatLessThanWellFounded
  <1>2. \A x, y \in Nat : x < y => <<x, y>> \in R
    BY DEF OpToRel
  <1> HIDE DEF R
  <1>3. PICK n \in S : \A m \in S : ~(<<m, n>> \in R)
    BY <1>1, WFMin
  <1>4. \A m \in S : ~(m < n)
    BY <1>2, <1>3
  <1>5. \A m \in S : n <= m
    BY <1>4
  <1> QED  BY <1>5

\* The ends of a sequence differ in length.
LEMMA Ends ==
    ASSUME NEW T, NEW d \in Seq(T), NEW n \in 1 .. Len(d)
    PROVE  /\ Len(d) \in Nat
           /\ Len(SubSeq(d, n, Len(d))) = Len(d) - n + 1
           /\ n = 1 => SubSeq(d, n, Len(d)) = d
  <1>1. Len(d) \in Nat /\ n \in Nat /\ 1 <= n /\ n <= Len(d)
    OBVIOUS
  <1>2. Len(SubSeq(d, n, Len(d))) = Len(d) - n + 1
    BY <1>1
  <1>3. n = 1 => SubSeq(d, n, Len(d)) = d
    BY <1>1
  <1> QED  BY <1>1, <1>2, <1>3

\* for_domain() finds the token of the nearest domain.
LEMMA FindsNearest ==
    ASSUME NEW f, NEW env, NEW d \in Seq(STRING), d # << >>
    PROVE  ForDomain(Global(f, env), PerDomain(f, env), d) = Nearest(f, env, d)
  <1> DEFINE keys   == DOMAIN f.domains
             end(n) == SubSeq(d, n, Len(d))
  <1>1. DOMAIN PerDomain(f, env) = keys
    BY DEF PerDomain
  <1>2. Len(d) \in Nat /\ 1 \in 1 .. Len(d)
    OBVIOUS
  <1>3. CASE Above(f, d) = {}
    <2>1. d \notin keys /\ ~\E k \in keys : Within(d, k)
      BY <1>2, <1>3, Ends DEF Above, Within
    <2> QED  BY <1>1, <1>3, <2>1 DEF ForDomain, Nearest
  <1>4. CASE Above(f, d) # {}
    <2> DEFINE n == CHOOSE n \in Above(f, d) : \A m \in Above(f, d) : n <= m
    <2>1. n \in Above(f, d) /\ \A m \in Above(f, d) : n <= m
      <3>1. Above(f, d) \in SUBSET Nat
        BY <1>2 DEF Above
      <3> QED  BY <1>4, <3>1, LeastOne
    <2> HIDE DEF n
    <2>2. n \in 1 .. Len(d) /\ end(n) \in keys /\ Within(d, end(n))
      BY <2>1 DEF Above, Within
    <2>3. CASE d \in keys
      <3>1. 1 \in Above(f, d)
        BY <1>2, <2>3, Ends DEF Above
      <3>2. n = 1 /\ end(n) = d
        BY <1>2, <2>1, <2>2, <3>1, Ends
      <3> QED  BY <1>1, <1>4, <2>3, <3>2 DEF ForDomain, Nearest, n
    <2>4. CASE d \notin keys
      <3>1. \A k \in keys : Within(d, k) =>
               /\ Len(k) <= Len(end(n))
               /\ Len(k) = Len(end(n)) => k = end(n)
        <4> SUFFICES ASSUME NEW k \in keys, Within(d, k)
                     PROVE  /\ Len(k) <= Len(end(n))
                            /\ Len(k) = Len(end(n)) => k = end(n)
          OBVIOUS
        <4>1. PICK m \in 1 .. Len(d) : k = end(m)
          BY DEF Within
        <4>2. m \in Above(f, d)
          BY <4>1 DEF Above
        <4>3. Len(k) = Len(d) - m + 1 /\ Len(end(n)) = Len(d) - n + 1
          BY <2>2, <4>1, Ends
        <4> QED  BY <1>2, <2>1, <2>2, <4>1, <4>2, <4>3
      <3>2. MatchLongest(keys, d) = end(n)
        <4>1. \E k \in {j \in keys : Within(d, j)} :
                 \A j \in keys : Within(d, j) => Len(j) <= Len(k)
          BY <2>2, <3>1
        <4> DEFINE k == MatchLongest(keys, d)
        <4>2. /\ k \in keys /\ Within(d, k)
              /\ \A j \in keys : Within(d, j) => Len(j) <= Len(k)
          BY <4>1 DEF MatchLongest
        <4> HIDE DEF k
        <4>3. Len(k) = Len(end(n))
          <5>1. Len(end(n)) <= Len(k) /\ Len(k) <= Len(end(n))
            BY <2>2, <3>1, <4>2
          <5>2. Len(k) \in Int /\ Len(end(n)) \in Int
            BY <1>2, <2>2, <4>2, Ends DEF Within
          <5> HIDE DEF end
          <5> QED  BY <5>1, <5>2
        <4> QED  BY <3>1, <4>2, <4>3 DEF k
      <3> QED
        BY <1>1, <1>4, <2>2, <2>4, <3>2 DEF ForDomain, Nearest, n
    <2> QED  BY <2>3, <2>4
  <1> QED  BY <1>3, <1>4

\* A certificate is requested with the token of the closest enclosing domain
\* in the file, else with the global one, else not at all: for any file and
\* any domain (cloudflare.rs:19-35).
THEOREM TokenIsNearest == LifecycleSpec => []NearestToken
  <1>1. NearestToken
    BY FindsNearest, LifecycleAssumption DEF NearestToken, CertRequest
  <1> QED  BY <1>1, PTL

-----------------------------------------------------------------------------
(* Types                                                                      *)

\* A sweep that sends has something to send.
LifecycleInv == LifecycleTypeOK /\ (recon = "send" => plan > 0)

\* Every variable keeps its type from start to exit; in particular the channel
\* stays within its capacity, and a sweep sends no more than it planned.
THEOREM LifecycleTyped == LifecycleSpec => []LifecycleTypeOK
  <1>1. LifecycleInit => LifecycleInv
    <2>1. 0 \in 0 .. Capacity /\ 0 \in 0 .. MaxPlan
      BY LifecycleAssumption
    <2> QED  BY <2>1 DEF LifecycleInit, LifecycleInv, LifecycleTypeOK
  <1>2. LifecycleInv /\ [LifecycleNext]_vars => LifecycleInv'
    <2> SUFFICES ASSUME LifecycleInv, [LifecycleNext]_vars
                 PROVE  LifecycleInv'
      OBVIOUS
    <2> USE LifecycleAssumption DEF LifecycleInv, LifecycleTypeOK, setup
    <2>1. CASE Load \/ ConnectFailed \/ Spawn \/ Shutdown
      BY <2>1 DEF Load, ConnectFailed, Spawn, Shutdown, tasks
    <2>2. CASE Join
      BY <2>2 DEF Join, tasks
    <2>3. CASE WriterReturns \/ WriterCancelled \/ WriterReceives
               \/ WriterHungUp
      BY <2>3
      DEF WriterReturns, WriterCancelled, WriterReceives, WriterHungUp
    <2>4. CASE SweepReturns \/ SweepSends \/ ReconCancelled \/ ReconTimer
      BY <2>4
      DEF SweepReturns, SweepSends, ReconCancelled, ReconTimer, Deliver
    <2>5. CASE WatchTop \/ WatchStream \/ WatchInspected \/ WatchSends
               \/ WatchCancelled \/ WatchTimer
      BY <2>5
      DEF WatchTop, WatchStream, WatchInspected, WatchSends, WatchCancelled,
          WatchTimer, WatchGoes, Deliver
    <2>6. CASE UNCHANGED vars
      BY <2>6 DEF vars
    <2> QED
      BY <2>1, <2>2, <2>3, <2>4, <2>5, <2>6 DEF LifecycleNext, Prompt, Returns
  <1>3. LifecycleInv => LifecycleTypeOK
    BY DEF LifecycleInv
  <1> QED  BY <1>1, <1>2, <1>3, PTL DEF LifecycleSpec
=============================================================================
