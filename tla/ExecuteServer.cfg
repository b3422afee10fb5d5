CONSTANTS
  r1 = r1
  r2 = r2
  Requests = {r1, r2}
  plain = plain
  evil = evil
  awk = awk
  ruby = ruby
  rd = rd
  wr = wr
  gone = gone
  Null = Null
  Domain = {awk}
  Dangerous = {evil}
  Unsupported = {ruby}
  Missing = {gone}
  ReadTools = {rd, gone}
  Calls <- SomeCalls
  Locking = TRUE
  Strict = FALSE
  Trusted = FALSE
SPECIFICATION FairSpec
INVARIANT Safe
INVARIANT WriterExclusion
INVARIANT RepliesFaithful
PROPERTY CallsAnswered
