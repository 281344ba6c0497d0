\* The default graph and two projects for one context; two writers publish the
\* default graph, which a request may also name as a project, up to version 2.
CONSTANTS
  Graphs = {d, g, h}
  Published = {d}
  Default = d
  Writers = {w1, w2}
  Requests = {r1, r2}
  MaxContexts = 1
  MaxVersions = 2
SPECIFICATION Spec
INVARIANT FreshAnswer
INVARIANT CacheConsistent
PROPERTY PublicationSafe
