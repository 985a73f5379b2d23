SPECIFICATION Spec
CONSTANTS
  CorrRows <- MCRows
  Correlators = {c1, c2}
  DeepHosts = {"h"}
  DomainOf <- MCDomainOf
  ExcludedIps = {"x"}
  MaxEvidence = 3
  Signatures <- MCSignatures
  DiffRuns = {d1, d2, d3}
  DiffBatch = 3
  Facts <- MCFacts
  Hosts = {"in", "top", "bad", "far", "deep", "deeper", "net"}
  Addresses = {"i1", "ix"}
  ScopeHosts = {"in", "top", "deep", "deeper"}
  ExcludedHosts = {"bad"}
  ScopeCidrs <- MCScopeCidrs
  ExcludedNets = {"ix"}
  RoeHosts = {"top"}
  NetworkOf <- MCNetworkOf
  AddressOf <- MCAddressOf
  MaxFacts = 2
  Reads <- MCReads
  NameServers = {"n1", "n2"}
  Paths = {"p", "q"}
  Below <- MCBelow
  HostTypes = {"A"}
  ApexTypes = {"MX"}
  DnsGiveUp = 2
  Sources = {"crtsh", "otx"}
  Rounds = 2
  MaxSeeds = 2
  MaxNew = 2
  Variants <- MCVariants
  MaxCandidates = 1
  CertNames = {"deep", "deeper", "far"}
  MtaStsOf <- MCMtaStsOf
  WebBatch = 2
  Secrets = {"s"}
  Urls <- MCUrls
  HostOf <- MCHostOf
  CrawlScope = {"a", "b", "c", "d", "x"}
  Seeds <- MCSeeds
  Sites <- MCSites
  MaxDepth = 2
  MaxPages = 4
  MaxPagesPerHost = 3
  Repos = {"r1", "r2", "self"}
  SelfRepos = {"self"}
  RepoLists <- MCRepoLists
  Histories <- MCHistories
  Fixtures = {"tests"}
  SecretBlobs = {"k", "j", "bin", "big"}
  Binaries = {"bin"}
  Outsized = {"big"}
  Verify = TRUE
  Users = {"ann", "bob"}
  MaxSessions = 3
  Requests = {r1, r2}
  Idle = 0
  MaxClock = 1
  Indexes = {"crtsh", "otx"}
  Resolving = {"otx"}
  InDomain <- MCInDomain
  Archived = {"in", "deep", "far"}
  HitCap = 1
  Accounts = {"firm", "like"}
  Profile <- MCProfile
  Catalogue <- MCCatalogue
  Feeds <- MCFeeds
  CpeOf <- MCCpeOf
  Services <- MCServices
  Linked <- MCLinked
  Libraries <- MCLibraries
  Advisories = {{}, {"v1"}}
  Refreshers = {f1, f2}
  PageSize = 2
  TopN = 1
  MaxBegun = 3
SYMMETRY Sym
INVARIANTS
  PlatformTypeOK
  GraphSettles
  ConfidenceEarned
  ExcludedNotOffered
  DeltaChain
  TargetsAccounted
  ScopeKept
  ActionsAudited
  PassiveTold
  CrawlCovers
  SecretsFound
  SessionsEnd
  CvesTold
CHECK_DEADLOCK FALSE
