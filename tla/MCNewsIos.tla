----------------------------- MODULE MCNewsIos ------------------------------
(* Two articles, one without a text in one of its parts, and one without a
   title; two sign-ins. *)
EXTENDS NewsIos

CONSTANTS a, b, x, y

First  == [title |-> a, body |-> <<x, None>>]
Second == [title |-> b, body |-> <<y>>]
Broken == [title |-> None, body |-> <<y>>]

SomeAnswers == {<<>>, <<First>>, <<First, Second>>, <<First, Broken>>}
=============================================================================
