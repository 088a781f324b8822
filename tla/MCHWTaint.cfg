CONSTANTS
  Top = Top  A = A  C = C  D = D  X = X
  a = a  b = b  c = c  d = d  e = e  x = x
  i = i  j = j  o = o  u = u
  Here = Here
  Names = {a, b, c, d, e, x}
  Modules = {Top, A, C, D, X}
  External = {X}
  In <- MCIn
  Out <- MCOut
  Insts <- MCInsts
  ModuleAt <- MCModuleAt
  First <- MCFirst
  Stores <- MCStores
  Component <- MCComponent
  Netlists <- MCNetlists
SPECIFICATION Spec
INVARIANTS TypeOK NothingPending ConeIntact
PROPERTY Terminates
