---------------------------- MODULE MCRateLimiter ----------------------------
(* Small instances of RateLimiter for TLC.                                 *)
EXTENDS RateLimiter

CONSTANTS w1, w2, h1, h2, known, bogus

Client(host, apiKey) == [host |-> host, apiKey |-> apiKey]

\* One host with no key and with a made-up one: one bucket.
Strangers == {Client(h1, NoKey), Client(h1, bogus)}

\* One known key used from two hosts: one bucket.
KeyHolders == {Client(h1, known), Client(h2, known)}

MCClients == Strangers \cup KeyHolders

Deployed(backend, workers, production, failOpen, clients) ==
  [backend |-> backend, workers |-> workers, production |-> production,
   failOpen |-> failOpen, clients |-> clients]

MCDeployments ==
  {Deployed("redis", {w1, w2}, TRUE, FALSE, Strangers),
   Deployed("redis", {w1}, TRUE, FALSE, KeyHolders),
   Deployed("redis", {w1}, TRUE, TRUE, Strangers),
   Deployed("memory", {w1}, TRUE, FALSE, Strangers),
   Deployed("memory", {w1, w2}, FALSE, FALSE, KeyHolders),
   Deployed("memory", {w1, w2}, TRUE, FALSE, Strangers)}
================================================================================
